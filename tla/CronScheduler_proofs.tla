------------------------ MODULE CronScheduler_proofs ------------------------
(***************************************************************************)
(* Proofs that a job is fired once for a minute, in no minute but those it *)
(* is due in, and in all of them unless it was lost, for any number of     *)
(* replicas, jobs and minutes, any clocks that differ by a fixed amount    *)
(* within the margin of LockOutlivesMinute, and any faults.                *)
(***************************************************************************)
EXTENDS CronScheduler, TLAPS

(* The first tick of a minute.                                             *)
From(m) == m * TicksPerMinute

LEMMA Parameters ==
  /\ TicksPerMinute \in Int /\ TicksPerMinute > 0
  /\ LockTicks \in Int /\ MaxLag \in Int /\ MaxLag >= 0
  /\ \A m \in Minutes : m \in Int
  /\ \A r \in Replicas : Skew[r] \in Int
  /\ \A r, q \in Replicas : TicksPerMinute + (Skew[r] - Skew[q]) + MaxLag <= LockTicks
<1>1. \A r \in Replicas : Skew[r] \in Int
  BY CronAssumption
<1>2. TicksPerMinute \in Int /\ TicksPerMinute > 0 /\ LockTicks \in Int /\ MaxLag \in Int /\ MaxLag >= 0
  BY CronAssumption
<1>3. \A r, q \in Replicas : TicksPerMinute + (Skew[r] - Skew[q]) + MaxLag <= LockTicks
  BY <1>1, <1>2, LockOutlivesMinute
<1> QED
  BY <1>1, <1>2, <1>3, CronAssumption

LEMMA FromType == \A m \in Int : From(m) \in Int
BY Parameters DEF From

(* The minute of a clock is the one its tick lies in.                      *)
LEMMA InMinute ==
  ASSUME NEW a \in Int, NEW T \in Int, T > 0
  PROVE  /\ a \div T \in Int
         /\ (a \div T) * T <= a /\ a < (a \div T) * T + T
OBVIOUS

LEMMA MinuteHasTick ==
  ASSUME NEW r \in Replicas, now \in Int
  PROVE  /\ Minute(r) \in Int
         /\ From(Minute(r)) <= now + Skew[r]
         /\ now + Skew[r] < From(Minute(r)) + TicksPerMinute
<1>1. now + Skew[r] \in Int
  BY Parameters
<1> QED
  BY <1>1, InMinute, Parameters DEF From, Minute

LEMMA MinutesInOrder ==
  ASSUME NEW a \in Int, NEW b \in Int, NEW T \in Int, T > 0, a * T < b * T + T
  PROVE  a <= b
<1>1. CASE a >= b + 1
  <2>1. PICK d \in Nat : a = b + 1 + d
    <3>1. a - b - 1 \in Nat /\ a = b + 1 + (a - b - 1)
      BY <1>1
    <3> QED
      BY <3>1
  <2>2. a * T = b * T + T + d * T /\ d * T >= 0
    BY <2>1
  <2> QED
    BY <2>2
<1> QED
  BY <1>1

LEMMA FromInOrder ==
  ASSUME NEW a \in Int, NEW b \in Int, From(a) < From(b) + TicksPerMinute
  PROVE  a <= b
BY MinutesInOrder, Parameters DEF From

-----------------------------------------------------------------------------
(* The inductive invariant.                                                *)

Typed ==
  /\ now \in Nat
  /\ \A k \in locks : k.until \in Int
  /\ lastMinute \in [Replicas -> Int]
  /\ DOMAIN todo = Replicas /\ \A r \in Replicas : DOMAIN todo[r] = Minutes
  /\ asked \in [Replicas -> [Minutes -> Int]]
  /\ DOMAIN answer = Replicas /\ \A r \in Replicas : DOMAIN answer[r] = Minutes
  /\ fired \in [Runs -> Nat]

(* A tick with jobs before it read its clock in its minute, not longer ago *)
(* than a process may be held up, and no answer outlives its tick.         *)
Timely ==
  /\ \A r \in Replicas : From(lastMinute[r]) <= now + Skew[r]
  /\ \A r \in Replicas, m \in Minutes :
       /\ answer[r][m] # "none" => todo[r][m] # <<>>
       /\ todo[r][m] # <<>> =>
            /\ m <= lastMinute[r]
            /\ asked[r][m] <= now /\ now <= asked[r][m] + MaxLag
            /\ From(m) <= asked[r][m] + Skew[r]
            /\ asked[r][m] + Skew[r] < From(m) + TicksPerMinute

(* By time t no replica can still be in a tick of minute m.                *)
PastBy(t, m) == \A q \in Replicas : From(m) + TicksPerMinute <= t - MaxLag + Skew[q]

LocksLast ==
  \A k \in locks, j \in Jobs, m \in Minutes : k.run = <<j, m>> => PastBy(k.until, m)

(* Replica r was told that the lock of job j is its own.                   *)
Holds(r, j, m) == answer[r][m] = "OK" /\ todo[r][m] # <<>> /\ Head(todo[r][m]) = j

Taken(j, m) == fired[<<j, m>>] > 0 \/ \E r \in Replicas : Holds(r, j, m)

Once ==
  \A j \in Jobs, m \in Minutes : <<j, m>> \notin blind =>
    /\ fired[<<j, m>>] <= 1
    /\ \A r \in Replicas : Holds(r, j, m) => fired[<<j, m>>] = 0
    /\ \A r, q \in Replicas : Holds(r, j, m) /\ Holds(q, j, m) => r = q
    /\ Taken(j, m) => Held(<<j, m>>) \/ PastBy(now, m)

Inv == Typed /\ Timely /\ LocksLast /\ Once

LEMMA OnceIsFiredOnce == Inv => FiredOnce
<1> SUFFICES ASSUME Inv, NEW x \in Runs, x \notin blind PROVE ~(fired[x] > 1)
  BY DEF FiredOnce
<1>1. PICK j \in Jobs, m \in Minutes : x = <<j, m>>
  BY DEF Runs
<1>2. fired[x] <= 1
  BY <1>1 DEF Inv, Once
<1>3. fired[x] \in Nat
  BY DEF Inv, Typed
<1> QED
  BY <1>2, <1>3

LEMMA InitInv == Init => Inv
<1> SUFFICES ASSUME Init PROVE Inv
  OBVIOUS
<1>1. Typed
  BY Parameters DEF Init, Typed
<1>2. Timely
  <2>1. \A r \in Replicas : From(lastMinute[r]) <= now + Skew[r]
    <3>1. From(-1) = -TicksPerMinute
      BY Parameters DEF From
    <3>2. \A r \in Replicas : Skew[r] \in Nat
      BY CronAssumption
    <3> QED
      BY <3>1, <3>2, Parameters DEF Init
  <2> QED
    BY <2>1 DEF Init, Timely
<1>3. LocksLast
  BY DEF Init, LocksLast
<1>4. Once
  BY DEF Init, Once, Taken, Holds, Runs
<1> QED
  BY <1>1, <1>2, <1>3, <1>4 DEF Inv

-----------------------------------------------------------------------------
(* Once a minute is past, no replica has a job of it before it.            *)
LEMMA PastIsEmpty ==
  ASSUME Inv, NEW r \in Replicas, NEW m \in Minutes, PastBy(now, m)
  PROVE  todo[r][m] = <<>>
<1>1. From(m) \in Int /\ asked[r][m] \in Int /\ now \in Int
  BY FromType, Parameters DEF Inv, Typed
<1>2. Skew[r] \in Int /\ TicksPerMinute \in Int /\ MaxLag \in Int
  BY Parameters
<1>3. From(m) + TicksPerMinute <= now - MaxLag + Skew[r]
  BY DEF PastBy
<1>4. CASE todo[r][m] # <<>>
  <2>1. now <= asked[r][m] + MaxLag /\ asked[r][m] + Skew[r] < From(m) + TicksPerMinute
    BY <1>4 DEF Inv, Timely
  <2> QED
    BY <1>1, <1>2, <1>3, <2>1
<1> QED
  BY <1>4

LEMMA PastStays ==
  ASSUME NEW m \in Minutes, NEW t \in Int, NEW u \in Int, t <= u, PastBy(t, m)
  PROVE  PastBy(u, m)
BY FromType, Parameters DEF PastBy

(* A lock taken in a tick outlives the ticks of its minute.                *)
LEMMA LockLasts ==
  ASSUME Inv, NEW r \in Replicas, NEW m \in Minutes, todo[r][m] # <<>>
  PROVE  PastBy(now + LockTicks, m)
<1>1. From(m) \in Int /\ asked[r][m] \in Int /\ now \in Int
  BY FromType, Parameters DEF Inv, Typed
<1>2. From(m) <= now + Skew[r]
  BY <1>1, Parameters DEF Inv, Timely
<1>3. ASSUME NEW q \in Replicas
      PROVE  From(m) + TicksPerMinute <= (now + LockTicks) - MaxLag + Skew[q]
  <2>1. Skew[r] \in Int /\ Skew[q] \in Int /\ TicksPerMinute \in Int /\ LockTicks \in Int /\ MaxLag \in Int
    BY Parameters
  <2>2. TicksPerMinute + (Skew[r] - Skew[q]) + MaxLag <= LockTicks
    BY Parameters
  <2> QED
    BY <1>1, <1>2, <2>1, <2>2
<1> QED
  BY <1>3 DEF PastBy

-----------------------------------------------------------------------------
(* The steps.                                                              *)

LEMMA TickStep ==
  ASSUME Inv, NEW r \in Replicas, Tick(r)
  PROVE  Inv'
<1> DEFINE m == Minute(r)
<1>1. m \in Minutes /\ m \in Int /\ m # lastMinute[r] /\ now \in Int /\ lastMinute[r] \in Int
  BY Parameters DEF Tick, Inv, Typed
<1>2. /\ lastMinute' = [lastMinute EXCEPT ![r] = m]
      /\ todo' = [todo EXCEPT ![r][m] = DueJobs(m)]
      /\ asked' = [asked EXCEPT ![r][m] = IF DueJobs(m) = <<>> THEN 0 ELSE now]
      /\ UNCHANGED <<now, locks, answer, fired, blind>>
  BY DEF Tick, redis
<1>3. From(m) <= now + Skew[r] /\ now + Skew[r] < From(m) + TicksPerMinute
  BY <1>1, MinuteHasTick
<1>4. lastMinute[r] < m
  <2>1. From(lastMinute[r]) < From(m) + TicksPerMinute
    <3>1. From(lastMinute[r]) <= now + Skew[r]
      BY DEF Inv, Timely
    <3>2. From(lastMinute[r]) \in Int /\ From(m) \in Int /\ Skew[r] \in Int
      BY <1>1, FromType, Parameters
    <3> QED
      BY <1>1, <1>3, <3>1, <3>2, Parameters
  <2>2. lastMinute[r] <= m
    BY <1>1, <2>1, FromInOrder
  <2> QED
    BY <1>1, <2>2
<1>5. todo[r][m] = <<>> /\ answer[r][m] = "none"
  BY <1>1, <1>4, Parameters DEF Inv, Timely
<1> HIDE DEF m
<1>6. Typed'
  BY <1>1, <1>2 DEF Inv, Typed
<1>7. \A q \in Replicas, n \in Minutes : q # r \/ n # m =>
        todo'[q][n] = todo[q][n] /\ asked'[q][n] = asked[q][n]
  BY <1>2 DEF Inv, Typed
<1>8. todo'[r][m] # <<>> => asked'[r][m] = now
  BY <1>1, <1>2 DEF Inv, Typed
<1>9. Timely'
  <2>1. \A q \in Replicas : (From(lastMinute[q]) <= now + Skew[q])'
    BY <1>2, <1>3 DEF Inv, Typed, Timely
  <2> SUFFICES ASSUME NEW q \in Replicas, NEW n \in Minutes
               PROVE  /\ answer'[q][n] # "none" => todo'[q][n] # <<>>
                      /\ todo'[q][n] # <<>> =>
                           /\ n <= lastMinute'[q]
                           /\ asked'[q][n] <= now' /\ now' <= asked'[q][n] + MaxLag
                           /\ From(n) <= asked'[q][n] + Skew[q]
                           /\ asked'[q][n] + Skew[q] < From(n) + TicksPerMinute
    BY <2>1 DEF Timely
  <2>2. CASE q = r /\ n = m
    BY <1>1, <1>2, <1>3, <1>5, <1>8, <2>2, Parameters DEF Inv, Typed
  <2>3. CASE q # r \/ n # m
    <3>1. lastMinute[q] <= lastMinute'[q]
      BY <1>1, <1>2, <1>4 DEF Inv, Typed
    <3>2. lastMinute[q] \in Int /\ lastMinute'[q] \in Int /\ n \in Int
      BY <1>1, <1>2, Parameters DEF Inv, Typed
    <3> QED
      BY <1>2, <1>7, <2>3, <3>1, <3>2 DEF Inv, Timely
  <2> QED
    BY <2>2, <2>3
<1>10. LocksLast'
  BY <1>2 DEF Inv, LocksLast, PastBy
<1>11. Once'
  <2>1. \A q \in Replicas, j \in Jobs, n \in Minutes : Holds(q, j, n)' => Holds(q, j, n)
    BY <1>2, <1>5, <1>7 DEF Holds
  <2> QED
    BY <1>2, <2>1 DEF Inv, Once, Taken, Held, PastBy
<1> QED
  BY <1>6, <1>9, <1>10, <1>11 DEF Inv

(* A step of the tick of r in m that leaves time and the other ticks.      *)
Local(r, m) ==
  /\ UNCHANGED <<now, lastMinute>>
  /\ DOMAIN todo' = Replicas /\ \A q \in Replicas : DOMAIN todo'[q] = Minutes
  /\ DOMAIN answer' = Replicas /\ \A q \in Replicas : DOMAIN answer'[q] = Minutes
  /\ asked' \in [Replicas -> [Minutes -> Int]]
  /\ \A q \in Replicas, n \in Minutes : q # r \/ n # m =>
       /\ todo'[q][n] = todo[q][n] /\ asked'[q][n] = asked[q][n] /\ answer'[q][n] = answer[q][n]
  /\ todo[r][m] # <<>>
  /\ answer'[r][m] # "none" => todo'[r][m] # <<>>
  /\ todo'[r][m] # <<>> => asked'[r][m] = asked[r][m]

LEMMA LocalTimely ==
  ASSUME Inv, NEW r \in Replicas, NEW m \in Minutes, Local(r, m)
  PROVE  Timely'
<1> SUFFICES ASSUME NEW q \in Replicas, NEW n \in Minutes
             PROVE  /\ answer'[q][n] # "none" => todo'[q][n] # <<>>
                    /\ todo'[q][n] # <<>> =>
                         /\ n <= lastMinute'[q]
                         /\ asked'[q][n] <= now' /\ now' <= asked'[q][n] + MaxLag
                         /\ From(n) <= asked'[q][n] + Skew[q]
                         /\ asked'[q][n] + Skew[q] < From(n) + TicksPerMinute
  BY DEF Inv, Timely, Local
<1>1. CASE q = r /\ n = m
  BY <1>1 DEF Inv, Timely, Local
<1>2. CASE q # r \/ n # m
  BY <1>2 DEF Inv, Timely, Local
<1> QED
  BY <1>1, <1>2

(* The answer of Redis is heard; the job stays before the tick.            *)
LEMMA AnswerIsLocal ==
  ASSUME Inv, NEW r \in Replicas, NEW m \in Minutes, todo[r][m] # <<>>, NEW a,
         answer' = [answer EXCEPT ![r][m] = a], UNCHANGED <<now, lastMinute, todo, asked>>
  PROVE  Local(r, m) /\ answer'[r][m] = a
BY DEF Inv, Typed, Local

LEMMA DoneIsLocal ==
  ASSUME Inv, NEW r \in Replicas, NEW m \in Minutes, answer[r][m] # "none", Done(r, m)
  PROVE  Local(r, m) /\ answer'[r][m] = "none" /\ UNCHANGED locks
<1>1. todo[r][m] # <<>>
  BY DEF Inv, Timely
<1>2. todo'[r][m] = Tail(todo[r][m])
  BY DEF Inv, Typed, Done
<1>3. todo'[r][m] # <<>> => asked'[r][m] = asked[r][m]
  BY <1>2 DEF Inv, Typed, Done
<1>4. asked' \in [Replicas -> [Minutes -> Int]]
  BY DEF Inv, Typed, Done
<1>5. answer'[r][m] = "none"
  BY DEF Inv, Typed, Done
<1> QED
  BY <1>1, <1>3, <1>4, <1>5 DEF Inv, Typed, Done, Local, redis

(* A step after which nobody holds a lock who did not before.              *)
LEMMA NoNewHolder ==
  ASSUME Inv, NEW r \in Replicas, NEW m \in Minutes, Local(r, m), answer'[r][m] # "OK",
         UNCHANGED <<locks, fired>>, blind \subseteq blind'
  PROVE  Inv'
<1>1. Timely'
  BY LocalTimely
<1>2. Typed'
  BY DEF Inv, Typed, Local
<1>3. LocksLast'
  BY DEF Inv, LocksLast, PastBy
<1>4. \A q \in Replicas, j \in Jobs, n \in Minutes : Holds(q, j, n)' => Holds(q, j, n)
  BY DEF Holds, Local
<1>5. UNCHANGED now
  BY DEF Local
<1>6. Once'
  BY <1>4, <1>5 DEF Inv, Once, Taken, Held, PastBy
<1> QED
  BY <1>1, <1>2, <1>3, <1>6 DEF Inv

LEMMA SetNXStep ==
  ASSUME Inv, NEW r \in Replicas, NEW m \in Minutes, SetNX(r, m)
  PROVE  Inv'
<1> DEFINE x == <<Head(todo[r][m]), m>>
<1>1. todo[r][m] # <<>> /\ answer[r][m] = "none" /\ UNCHANGED <<now, lastMinute, todo, asked, fired, blind>>
  BY DEF SetNX, Asks, history
<1>2. CASE Held(x)
  <2>1. answer' = [answer EXCEPT ![r][m] = "null"] /\ UNCHANGED locks
    BY <1>2 DEF SetNX
  <2> QED
    BY <1>1, <2>1, AnswerIsLocal, NoNewHolder
<1>3. CASE ~Held(x)
  <2>1. /\ answer' = [answer EXCEPT ![r][m] = "OK"]
        /\ locks' = locks \cup {[run |-> x, until |-> now + LockTicks]}
    BY <1>3 DEF SetNX
  <2>2. Local(r, m) /\ answer'[r][m] = "OK"
    BY <1>1, <2>1, AnswerIsLocal
  <2>3. Timely'
    BY <2>2, LocalTimely
  <2>4. Typed'
    BY <1>1, <2>1, <2>2, Parameters DEF Inv, Typed, Local
  <2>5. LocksLast'
    <3>1. PastBy(now + LockTicks, m)
      BY <1>1, LockLasts
    <3>2. \A k \in locks', j \in Jobs, n \in Minutes : k.run = <<j, n>> => PastBy(k.until, n)
      BY <2>1, <3>1 DEF Inv, LocksLast
    <3> QED
      BY <3>2 DEF LocksLast, PastBy
  <2>6. \A q \in Replicas, j \in Jobs, n \in Minutes :
          Holds(q, j, n)' <=> Holds(q, j, n) \/ (q = r /\ <<j, n>> = x)
    <3> SUFFICES ASSUME NEW q \in Replicas, NEW j \in Jobs, NEW n \in Minutes
                 PROVE  Holds(q, j, n)' <=> Holds(q, j, n) \/ (q = r /\ <<j, n>> = x)
      OBVIOUS
    <3>1. CASE q = r /\ n = m
      BY <1>1, <2>2, <3>1 DEF Holds
    <3>2. CASE q # r \/ n # m
      <4>1. <<j, n>> = x => n = m
        OBVIOUS
      <4> QED
        BY <1>1, <2>2, <3>2, <4>1 DEF Holds, Local
    <3> QED
      BY <3>1, <3>2
  <2>7. \A j \in Jobs, n \in Minutes : Held(<<j, n>>)' <=> Held(<<j, n>>) \/ <<j, n>> = x
    <3> SUFFICES ASSUME NEW j \in Jobs, NEW n \in Minutes
                 PROVE  Held(<<j, n>>)' <=> Held(<<j, n>>) \/ <<j, n>> = x
      OBVIOUS
    <3> DEFINE lock == [run |-> x, until |-> now + LockTicks]
    <3>1. lock.run = x /\ locks' = locks \cup {lock}
      BY <2>1
    <3> HIDE DEF lock, x
    <3> QED
      BY <3>1 DEF Held
  <2>8. \A j \in Jobs : <<j, m>> = x /\ <<j, m>> \notin blind => ~Taken(j, m)
    <3>1. ~PastBy(now, m)
      BY <1>1, PastIsEmpty
    <3> QED
      BY <1>3, <3>1 DEF Inv, Once
  <2>9. Once'
    <3> SUFFICES ASSUME NEW j \in Jobs, NEW n \in Minutes, <<j, n>> \notin blind
                 PROVE  /\ fired[<<j, n>>] <= 1
                        /\ \A q \in Replicas : Holds(q, j, n)' => fired[<<j, n>>] = 0
                        /\ \A p, q \in Replicas : Holds(p, j, n)' /\ Holds(q, j, n)' => p = q
                        /\ Taken(j, n)' => Held(<<j, n>>)' \/ PastBy(now, n)
      BY <1>1 DEF Once, PastBy
    <3>1. CASE <<j, n>> = x
      <4>1. n = m
        BY <3>1
      <4>2. fired[<<j, n>>] \in Nat /\ ~(fired[<<j, n>>] > 0) /\ \A q \in Replicas : ~Holds(q, j, n)
        BY <2>8, <3>1, <4>1 DEF Taken, Inv, Typed, Runs
      <4> QED
        BY <2>6, <2>7, <3>1, <4>2
    <3>2. CASE <<j, n>> # x
      BY <1>1, <2>6, <2>7, <3>2 DEF Inv, Once, Taken
    <3> QED
      BY <3>1, <3>2
  <2> QED
    BY <2>3, <2>4, <2>5, <2>9 DEF Inv
<1> QED
  BY <1>2, <1>3

LEMMA LockFailsStep ==
  ASSUME Inv, NEW r \in Replicas, NEW m \in Minutes, LockFails(r, m)
  PROVE  Inv'
<1>1. /\ todo[r][m] # <<>> /\ answer' = [answer EXCEPT ![r][m] = "error"]
      /\ UNCHANGED <<now, lastMinute, todo, asked, locks, fired, blind>>
  BY DEF LockFails, Asks, redis, history
<1> QED
  BY <1>1, AnswerIsLocal, NoNewHolder

LEMMA ResendStep ==
  ASSUME Inv, NEW r \in Replicas, NEW m \in Minutes, Resend(r, m)
  PROVE  Inv'
<1>1. /\ todo[r][m] # <<>> /\ answer' = [answer EXCEPT ![r][m] = "null"]
      /\ UNCHANGED <<now, lastMinute, todo, asked, locks, fired, blind>>
  BY DEF Resend, redis, Inv, Timely
<1> QED
  BY <1>1, AnswerIsLocal, NoNewHolder

LEMMA SkipStep ==
  ASSUME Inv, NEW r \in Replicas, NEW m \in Minutes, Skip(r, m)
  PROVE  Inv'
<1>1. answer[r][m] = "null" /\ Done(r, m) /\ UNCHANGED <<fired, blind>>
  BY DEF Skip
<1> QED
  BY <1>1, DoneIsLocal, NoNewHolder

LEMMA FireStep ==
  ASSUME Inv, NEW r \in Replicas, NEW m \in Minutes, Fire(r, m)
  PROVE  Inv'
<1> DEFINE x == <<Head(todo[r][m]), m>>
<1>1. /\ answer[r][m] \in {"OK", "error"} /\ Done(r, m)
      /\ fired' = [fired EXCEPT ![x] = @ + 1]
      /\ blind' = IF answer[r][m] = "error" THEN blind \cup {x} ELSE blind
  BY DEF Fire
<1>2. Local(r, m) /\ answer'[r][m] = "none" /\ UNCHANGED locks
  BY <1>1, DoneIsLocal
<1>3. Timely'
  BY <1>2, LocalTimely
<1>4. Typed'
  <2>1. CASE x \in Runs
    <3>1. fired \in [Runs -> Nat] /\ fired[x] + 1 \in Nat
      BY <2>1 DEF Inv, Typed
    <3> QED
      BY <1>1, <1>2, <3>1 DEF Inv, Typed, Local
  <2>2. CASE x \notin Runs
    <3>1. fired \in [Runs -> Nat]
      BY DEF Inv, Typed
    <3>2. fired' = fired
      BY <1>1, <2>2, <3>1
    <3> QED
      BY <1>2, <3>2 DEF Inv, Typed, Local
  <2> QED
    BY <2>1, <2>2
<1>5. LocksLast'
  BY <1>2 DEF Inv, LocksLast, PastBy
<1>6. \A q \in Replicas, j \in Jobs, n \in Minutes :
        Holds(q, j, n)' => Holds(q, j, n) /\ (q # r \/ n # m)
  BY <1>2 DEF Holds, Local
<1>7. UNCHANGED now /\ \A j \in Jobs, n \in Minutes : Held(<<j, n>>)' <=> Held(<<j, n>>)
  BY <1>2 DEF Local, Held
<1>8. Once'
  <2> SUFFICES ASSUME NEW j \in Jobs, NEW n \in Minutes, <<j, n>> \notin blind'
               PROVE  /\ fired'[<<j, n>>] <= 1
                      /\ \A q \in Replicas : Holds(q, j, n)' => fired'[<<j, n>>] = 0
                      /\ \A p, q \in Replicas : Holds(p, j, n)' /\ Holds(q, j, n)' => p = q
                      /\ Taken(j, n)' => Held(<<j, n>>)' \/ PastBy(now, n)
    BY <1>7 DEF Once, PastBy
  <2>1. <<j, n>> \notin blind /\ <<j, n>> \in Runs
    BY <1>1 DEF Runs
  <2>2. CASE <<j, n>> = x
    <3>1. answer[r][m] = "OK" /\ n = m
      BY <1>1, <2>2
    <3>2. Holds(r, j, n)
      BY <2>2, <3>1 DEF Holds, Inv, Timely
    <3>3. fired[<<j, n>>] = 0 /\ \A q \in Replicas : Holds(q, j, n) => q = r
      BY <2>1, <3>2 DEF Inv, Once
    <3>4. fired'[<<j, n>>] = 1
      BY <1>1, <2>1, <2>2, <3>3 DEF Inv, Typed
    <3>5. \A q \in Replicas : ~Holds(q, j, n)'
      BY <1>6, <3>1, <3>3
    <3>6. Held(<<j, n>>) \/ PastBy(now, n)
      BY <2>1, <3>2 DEF Inv, Once, Taken
    <3> QED
      BY <1>7, <3>4, <3>5, <3>6
  <2>3. CASE <<j, n>> # x
    <3>1. fired'[<<j, n>>] = fired[<<j, n>>]
      BY <1>1, <2>1, <2>3 DEF Inv, Typed
    <3> QED
      BY <1>6, <1>7, <2>1, <3>1 DEF Inv, Once, Taken
  <2> QED
    BY <2>2, <2>3
<1> QED
  BY <1>3, <1>4, <1>5, <1>8 DEF Inv

(* Time passes only as fast as the processes may stall, and a lock goes    *)
(* when its minute is past.                                                *)
LEMMA ClockStep ==
  ASSUME Inv, Clock
  PROVE  Inv'
<1>1. /\ \A r \in Replicas, m \in Minutes : todo[r][m] # <<>> => now < asked[r][m] + MaxLag
      /\ now' = now + 1 /\ locks' = {k \in locks : now + 1 < k.until}
      /\ UNCHANGED <<lastMinute, todo, asked, answer, fired, blind>>
  BY DEF Clock, process, history
<1>2. now \in Int /\ now' \in Int
  BY <1>1 DEF Inv, Typed
<1>3. Typed'
  BY <1>1, <1>2 DEF Inv, Typed
<1>4. Timely'
  <2>1. \A r \in Replicas : lastMinute[r] \in Int /\ From(lastMinute[r]) \in Int
    BY FromType DEF Inv, Typed
  <2>2. \A r \in Replicas : From(lastMinute[r]) <= now + 1 + Skew[r]
    BY <1>2, <2>1, Parameters DEF Inv, Timely
  <2>3. \A r \in Replicas, m \in Minutes : asked[r][m] \in Int
    BY DEF Inv, Typed
  <2>4. \A r \in Replicas, m \in Minutes : todo[r][m] # <<>> =>
          asked[r][m] <= now + 1 /\ now + 1 <= asked[r][m] + MaxLag
    BY <1>1, <1>2, <2>3, Parameters DEF Inv, Timely
  <2> QED
    BY <1>1, <2>2, <2>4 DEF Inv, Timely
<1>5. LocksLast'
  BY <1>1 DEF Inv, LocksLast, PastBy
<1>6. Once'
  <2>1. \A j \in Jobs, m \in Minutes : Held(<<j, m>>) \/ PastBy(now, m) =>
          Held(<<j, m>>)' \/ PastBy(now', m)
    <3> SUFFICES ASSUME NEW j \in Jobs, NEW m \in Minutes, Held(<<j, m>>) \/ PastBy(now, m),
                        ~Held(<<j, m>>)'
                 PROVE  PastBy(now', m)
      OBVIOUS
    <3>1. CASE PastBy(now, m)
      BY <1>1, <1>2, <3>1, PastStays
    <3>2. CASE Held(<<j, m>>)
      <4>1. PICK k \in locks : k.run = <<j, m>>
        BY <3>2 DEF Held
      <4>2. k.until \in Int /\ k.until <= now'
        BY <1>1, <1>2, <4>1 DEF Held, Inv, Typed
      <4> QED
        BY <1>2, <4>1, <4>2, PastStays DEF Inv, LocksLast
    <3> QED
      BY <3>1, <3>2
  <2>2. \A r \in Replicas, j \in Jobs, m \in Minutes : Holds(r, j, m)' <=> Holds(r, j, m)
    BY <1>1 DEF Holds
  <2>3. \A j \in Jobs, m \in Minutes : Taken(j, m)' <=> Taken(j, m)
    BY <1>1, <2>2 DEF Taken
  <2> SUFFICES ASSUME NEW j \in Jobs, NEW m \in Minutes, <<j, m>> \notin blind
               PROVE  /\ fired[<<j, m>>] <= 1
                      /\ \A r \in Replicas : Holds(r, j, m)' => fired[<<j, m>>] = 0
                      /\ \A r, q \in Replicas : Holds(r, j, m)' /\ Holds(q, j, m)' => r = q
                      /\ Taken(j, m)' => Held(<<j, m>>)' \/ PastBy(now', m)
    BY <1>1 DEF Once, PastBy
  <2> QED
    BY <2>1, <2>2, <2>3 DEF Inv, Once
<1> QED
  BY <1>3, <1>4, <1>5, <1>6 DEF Inv

(* A process that dies forgets its minute and what it held.                *)
LEMMA RestartStep ==
  ASSUME Inv, NEW r \in Replicas, Restart(r)
  PROVE  Inv'
<1>1. /\ lastMinute' = [lastMinute EXCEPT ![r] = -1]
      /\ todo' = [todo EXCEPT ![r] = [m \in Minutes |-> <<>>]]
      /\ answer' = [answer EXCEPT ![r] = [m \in Minutes |-> "none"]]
      /\ asked' = [asked EXCEPT ![r] = [m \in Minutes |-> 0]]
      /\ UNCHANGED <<now, locks, fired, blind>>
  BY DEF Restart, redis
<1>2. Typed'
  BY <1>1 DEF Inv, Typed
<1>3. Timely'
  <2>1. From(-1) <= now + Skew[r]
    <3>1. From(-1) = -TicksPerMinute
      BY Parameters DEF From
    <3>2. From(-1) <= now + Skew[r]
      BY <3>1, Parameters, CronAssumption DEF Inv, Typed
    <3> QED
      BY <3>2
  <2> QED
    BY <1>1, <2>1 DEF Inv, Typed, Timely
<1>4. LocksLast'
  BY <1>1 DEF Inv, LocksLast, PastBy
<1>5. Once'
  <2>1. \A q \in Replicas, j \in Jobs, n \in Minutes : Holds(q, j, n)' => Holds(q, j, n)
    BY <1>1 DEF Holds, Inv, Typed
  <2> QED
    BY <1>1, <2>1 DEF Inv, Once, Taken, Held, PastBy
<1> QED
  BY <1>2, <1>3, <1>4, <1>5 DEF Inv

LEMMA InvStep == Inv /\ [Next]_vars => Inv'
<1> SUFFICES ASSUME Inv, [Next]_vars PROVE Inv'
  OBVIOUS
<1>1. CASE \E r \in Replicas : Tick(r) \/ Restart(r)
  BY <1>1, TickStep, RestartStep
<1>2. CASE \E r \in Replicas, m \in Minutes :
             SetNX(r, m) \/ LockFails(r, m) \/ Resend(r, m) \/ Fire(r, m) \/ Skip(r, m)
  BY <1>2, SetNXStep, LockFailsStep, ResendStep, FireStep, SkipStep
<1>3. CASE Clock
  BY <1>3, ClockStep
<1>4. CASE Outage \/ Recover \/ UNCHANGED vars
  <2>1. UNCHANGED <<now, locks, lastMinute, todo, asked, answer, fired, blind>>
    BY <1>4 DEF Outage, Recover, vars, redis, process, history
  <2>2. Typed' /\ Timely' /\ LocksLast'
    BY <2>1 DEF Inv, Typed, Timely, LocksLast, PastBy
  <2>3. \A r \in Replicas, j \in Jobs, m \in Minutes : Holds(r, j, m)' <=> Holds(r, j, m)
    BY <2>1 DEF Holds
  <2>4. Once'
    BY <2>1, <2>3 DEF Inv, Once, Taken, Held, PastBy
  <2> QED
    BY <2>2, <2>4 DEF Inv
<1> QED
  BY <1>1, <1>2, <1>3, <1>4 DEF Next

(***************************************************************************)
(* The lock of scheduler.mjs:152-160 does what it is there for: over all   *)
(* replicas a job is fired once for a minute unless the lock could not be  *)
(* asked.                                                                  *)
(***************************************************************************)
THEOREM LockFiresOnce == Spec => []FiredOnce
BY InitInv, InvStep, OnceIsFiredOnce, PTL DEF Spec

-----------------------------------------------------------------------------
(* What is due is run, and nothing else, of a manifest that is read as     *)
(* crontab(5) reads it.  A job that leaves a tick is accounted for: it was *)
(* fired, or lost, or another replica holds its lock and still has it      *)
(* before it; that much is true of whatever is locked.                     *)

Accounted(j, m) ==
  fired[<<j, m>>] > 0 \/ <<j, m>> \in lost \/ \E r \in Replicas : Holds(r, j, m)

Ahead(j, m) == \E r \in Replicas : j \in ToSet(todo[r][m])

Lists ==
  /\ todo \in [Replicas -> [Minutes -> Seq(Jobs)]]
  /\ answer \in [Replicas -> [Minutes -> {"none", "OK", "null", "error"}]]
  /\ ticked \subseteq Minutes

DueOnly ==
  /\ \A r \in Replicas, m \in Minutes : \A j \in ToSet(todo[r][m]) : <<j, m>> \in Crontab
  /\ \A x \in Runs : fired[x] > 0 => x \in Crontab

Kept ==
  /\ \A r \in Replicas, m \in Minutes : answer[r][m] = "null" => Accounted(Head(todo[r][m]), m)
  /\ \A k \in locks, j \in Jobs, m \in Minutes : k.run = <<j, m>> => Accounted(j, m)
  /\ \A m \in ticked, j \in Jobs : <<j, m>> \in Crontab => Accounted(j, m) \/ Ahead(j, m)

DueInv == Inv /\ Lists /\ DueOnly /\ Kept

LEMMA HeadAndTail ==
  ASSUME NEW S, NEW s \in Seq(S), s # <<>>
  PROVE  /\ Head(s) \in S /\ Head(s) \in ToSet(s) /\ Tail(s) \in Seq(S)
         /\ \A e \in ToSet(Tail(s)) : e \in ToSet(s)
         /\ \A e \in ToSet(s) : e = Head(s) \/ e \in ToSet(Tail(s))
<1>1. Len(s) \in Nat /\ Len(s) > 0 /\ DOMAIN s = 1..Len(s) /\ Head(s) = s[1]
  OBVIOUS
<1>2. Tail(s) \in Seq(S) /\ Len(Tail(s)) = Len(s) - 1 /\ DOMAIN Tail(s) = 1..(Len(s) - 1)
      /\ \A i \in 1..(Len(s) - 1) : Tail(s)[i] = s[i + 1]
  OBVIOUS
<1>3. \A e \in ToSet(s) : e = Head(s) \/ e \in ToSet(Tail(s))
  <2> SUFFICES ASSUME NEW i \in 1..Len(s) PROVE s[i] = s[1] \/ s[i] \in ToSet(Tail(s))
    BY <1>1 DEF ToSet
  <2>1. CASE i = 1
    BY <2>1
  <2>2. CASE i # 1
    <3>1. i - 1 \in 1..(Len(s) - 1) /\ Tail(s)[i - 1] = s[i]
      BY <1>1, <1>2, <2>2
    <3> QED
      BY <1>2, <3>1 DEF ToSet
  <2> QED
    BY <2>1, <2>2
<1>4. \A e \in ToSet(Tail(s)) : e \in ToSet(s)
  BY <1>1, <1>2 DEF ToSet
<1>5. Head(s) \in S /\ Head(s) \in ToSet(s)
  BY <1>1 DEF ToSet
<1> QED
  BY <1>2, <1>3, <1>4, <1>5

LEMMA DueIsEnough == DueInv /\ ReadsAsCrontab => FiredAsScheduled /\ NotMissed
<1> SUFFICES ASSUME DueInv, ReadsAsCrontab PROVE FiredAsScheduled /\ NotMissed
  OBVIOUS
<1>1. FiredAsScheduled
  BY DEF DueInv, DueOnly, FiredAsScheduled
<1>2. ASSUME NEW x \in Crontab, x[2] \in ticked, \A r \in Replicas : x[1] \notin ToSet(todo[r][x[2]])
      PROVE  fired[x] > 0 \/ x \in lost
  <2>1. PICK j \in Jobs, m \in Minutes : x = <<j, m>>
    BY DEF ReadsAsCrontab, Runs
  <2>2. m \in ticked /\ ~Ahead(j, m)
    BY <1>2, <2>1 DEF Ahead
  <2>3. \A r \in Replicas : ~Holds(r, j, m)
    <3> SUFFICES ASSUME NEW r \in Replicas, Holds(r, j, m) PROVE FALSE
      OBVIOUS
    <3>1. todo[r][m] \in Seq(Jobs) /\ todo[r][m] # <<>> /\ Head(todo[r][m]) = j
      BY DEF DueInv, Lists, Holds
    <3> QED
      BY <2>2, <3>1, HeadAndTail DEF Ahead
  <2> QED
    BY <2>1, <2>2, <2>3 DEF DueInv, Kept, Accounted
<1> QED
  BY <1>1, <1>2 DEF NotMissed

LEMMA AccountedStays ==
  ASSUME NEW j, NEW m, Accounted(j, m), lost \subseteq lost',
         fired[<<j, m>>] > 0 => fired'[<<j, m>>] > 0,
         \A q \in Replicas : Holds(q, j, m) =>
           Holds(q, j, m)' \/ fired'[<<j, m>>] > 0 \/ <<j, m>> \in lost'
  PROVE  Accounted(j, m)'
BY DEF Accounted

(* The tick of r in m hears a from Redis about the first of its jobs.      *)
LEMMA AnswerDue ==
  ASSUME DueInv, NEW r \in Replicas, NEW m \in Minutes, todo[r][m] # <<>>,
         NEW h, h = Head(todo[r][m]), NEW a \in {"OK", "null", "error"}, answer' = [answer EXCEPT ![r][m] = a],
         UNCHANGED <<todo, fired, ticked>>, lost \subseteq lost',
         answer[r][m] = "OK" => <<h, m>> \in lost',
         a = "null" => Accounted(h, m)',
         \A k \in locks' : \/ k \in locks
                           \/ k.run = <<h, m>> /\ Accounted(h, m)'
  PROVE  (Lists /\ DueOnly /\ Kept)'
<1>1. Lists'
  BY DEF DueInv, Lists
<1>2. DueOnly'
  BY DEF DueInv, DueOnly
<1>3. \A q \in Replicas, n \in Minutes :
        answer'[q][n] = IF q = r /\ n = m THEN a ELSE answer[q][n]
  BY DEF DueInv, Lists
<1>4. ASSUME NEW j, NEW n \in Minutes, Accounted(j, n) PROVE Accounted(j, n)'
  <2>1. ASSUME NEW q \in Replicas, Holds(q, j, n)
        PROVE  Holds(q, j, n)' \/ <<j, n>> \in lost'
    BY <1>3, <2>1 DEF Holds
  <2> QED
    BY <1>4, <2>1, AccountedStays
<1>5. ASSUME NEW q \in Replicas, NEW n \in Minutes, answer'[q][n] = "null"
      PROVE  Accounted(Head(todo[q][n]), n)'
  BY <1>3, <1>4, <1>5 DEF DueInv, Kept
<1>6. ASSUME NEW k \in locks', NEW j \in Jobs, NEW n \in Minutes, k.run = <<j, n>>
      PROVE  Accounted(j, n)'
  <2>1. CASE k \in locks
    BY <1>4, <1>6, <2>1 DEF DueInv, Kept
  <2>2. CASE k.run = <<h, m>> /\ Accounted(h, m)'
    <3>1. j = Head(todo[r][m]) /\ n = m
      BY <1>6, <2>2
    <3> QED
      BY <2>2, <3>1
  <2> QED
    BY <2>1, <2>2
<1>7. ASSUME NEW n \in ticked, NEW j \in Jobs, <<j, n>> \in Crontab
      PROVE  Accounted(j, n)' \/ Ahead(j, n)'
  BY <1>4, <1>7 DEF DueInv, Lists, Kept, Ahead
<1>8. Kept'
  BY <1>5, <1>6, <1>7 DEF Kept
<1> QED
  BY <1>1, <1>2, <1>8

(* The tick of r in m is done with the first of its jobs.                  *)
LEMMA DoneDue ==
  ASSUME DueInv, NEW r \in Replicas, NEW m \in Minutes, todo[r][m] # <<>>, Done(r, m),
         NEW h, h = Head(todo[r][m]),
         Accounted(h, m)',
         \A x \in Runs : /\ fired[x] > 0 => fired'[x] > 0
                         /\ fired'[x] > 0 => fired[x] > 0 \/ x = <<h, m>>,
         answer[r][m] = "OK" => fired'[<<h, m>>] > 0
  PROVE  (Lists /\ DueOnly /\ Kept)'
<1> DEFINE s == todo[r][m]
<1>1. s \in Seq(Jobs) /\ s # <<>>
  BY DEF DueInv, Lists
<1>2. /\ Head(s) \in Jobs /\ Head(s) \in ToSet(s) /\ Tail(s) \in Seq(Jobs)
      /\ \A e \in ToSet(Tail(s)) : e \in ToSet(s)
      /\ \A e \in ToSet(s) : e = Head(s) \/ e \in ToSet(Tail(s))
  BY <1>1, HeadAndTail
<1>3. /\ todo' = [todo EXCEPT ![r][m] = Tail(s)] /\ answer' = [answer EXCEPT ![r][m] = "none"]
      /\ UNCHANGED <<locks, lost, ticked>>
  BY DEF Done, redis, DueInv, Lists
<1>4. Lists'
  BY <1>2, <1>3 DEF DueInv, Lists
<1>5. \A q \in Replicas, n \in Minutes :
        /\ todo'[q][n] = IF q = r /\ n = m THEN Tail(s) ELSE todo[q][n]
        /\ answer'[q][n] = IF q = r /\ n = m THEN "none" ELSE answer[q][n]
  BY <1>3 DEF DueInv, Lists
<1>6. DueOnly'
  <2>1. \A q \in Replicas, n \in Minutes : \A j \in ToSet(todo'[q][n]) : <<j, n>> \in Crontab
    BY <1>2, <1>5 DEF DueInv, DueOnly
  <2>2. \A x \in Runs : fired'[x] > 0 => x \in Crontab
    BY <1>2 DEF DueInv, DueOnly
  <2> QED
    BY <2>1, <2>2 DEF DueOnly
<1>7. ASSUME NEW j \in Jobs, NEW n \in Minutes, Accounted(j, n) PROVE Accounted(j, n)'
  <2>1. ASSUME NEW q \in Replicas, Holds(q, j, n)
        PROVE  Holds(q, j, n)' \/ fired'[<<j, n>>] > 0
    BY <1>5, <2>1 DEF Holds
  <2>2. fired[<<j, n>>] > 0 => fired'[<<j, n>>] > 0
    BY DEF Runs
  <2> QED
    BY <1>3, <1>7, <2>1, <2>2, AccountedStays
<1>8. ASSUME NEW q \in Replicas, NEW n \in Minutes, answer'[q][n] = "null"
      PROVE  Accounted(Head(todo[q][n]), n)'
  <2>1. answer[q][n] = "null" /\ todo'[q][n] = todo[q][n]
    BY <1>5, <1>8
  <2>2. todo[q][n] # <<>> /\ todo[q][n] \in Seq(Jobs)
    BY <2>1 DEF DueInv, Inv, Timely, Lists
  <2>3. Head(todo[q][n]) \in Jobs
    BY <2>2, HeadAndTail
  <2> QED
    BY <1>7, <2>1, <2>3 DEF DueInv, Kept
<1>9. ASSUME NEW n \in ticked, NEW j \in Jobs, <<j, n>> \in Crontab
      PROVE  Accounted(j, n)' \/ Ahead(j, n)'
  <2>1. n \in Minutes
    BY DEF DueInv, Lists
  <2>2. CASE Accounted(j, n)
    BY <1>7, <2>1, <2>2
  <2>3. ASSUME NEW q \in Replicas, j \in ToSet(todo[q][n])
        PROVE  Accounted(j, n)' \/ Ahead(j, n)'
    <3>1. CASE q = r /\ n = m /\ j = h
      BY <3>1
    <3>2. CASE ~(q = r /\ n = m /\ j = h)
      <4>1. j \in ToSet(todo'[q][n])
        BY <1>2, <1>5, <2>1, <2>3, <3>2
      <4> QED
        BY <4>1 DEF Ahead
    <3> QED
      BY <3>1, <3>2
  <2> QED
    BY <1>9, <2>2, <2>3 DEF DueInv, Kept, Ahead
<1>10. Kept'
  BY <1>3, <1>7, <1>8, <1>9 DEF Kept, DueInv
<1> QED
  BY <1>4, <1>6, <1>10

LEMMA AskDue ==
  ASSUME DueInv, NEW r \in Replicas, NEW m \in Minutes,
         SetNX(r, m) \/ LockFails(r, m) \/ Resend(r, m)
  PROVE  (Lists /\ DueOnly /\ Kept)'
<1> PICK h : h = Head(todo[r][m])
  OBVIOUS
<1>1. todo[r][m] # <<>>
  BY DEF SetNX, LockFails, Resend, Asks, DueInv, Inv, Timely
<1>2. h \in Jobs
  <2>1. todo[r][m] \in Seq(Jobs)
    BY DEF DueInv, Lists
  <2> QED
    BY <1>1, <2>1, HeadAndTail
<1>3. UNCHANGED <<todo, fired, ticked>>
  BY DEF SetNX, LockFails, Resend, history
<1>4. CASE SetNX(r, m) /\ Held(<<h, m>>)
  <2>1. answer[r][m] = "none" /\ answer' = [answer EXCEPT ![r][m] = "null"] /\ UNCHANGED <<locks, lost>>
    BY <1>4 DEF SetNX, Asks, history
  <2>2. Accounted(h, m)
    BY <1>2, <1>4 DEF Held, DueInv, Kept
  <2>3. \A q \in Replicas : Holds(q, h, m) => Holds(q, h, m)'
    BY <1>3, <2>1 DEF Holds, DueInv, Lists
  <2>4. Accounted(h, m)'
    BY <1>3, <2>1, <2>2, <2>3, AccountedStays
  <2> QED
    BY <1>1, <1>3, <2>1, <2>4, AnswerDue
<1>5. CASE SetNX(r, m) /\ ~Held(<<h, m>>)
  <2>1. /\ answer[r][m] = "none" /\ answer' = [answer EXCEPT ![r][m] = "OK"] /\ UNCHANGED lost
        /\ locks' = locks \cup {[run |-> <<h, m>>, until |-> now + LockTicks]}
    BY <1>5 DEF SetNX, Asks, history
  <2>2. Holds(r, h, m)'
    BY <1>1, <1>3, <2>1 DEF Holds, DueInv, Lists
  <2>3. Accounted(h, m)'
    BY <2>2 DEF Accounted
  <2>4. \A k \in locks' : k \in locks \/ k.run = <<h, m>>
    <3> DEFINE lock == [run |-> <<h, m>>, until |-> now + LockTicks]
    <3>1. lock.run = <<h, m>> /\ locks' = locks \cup {lock}
      BY <2>1
    <3> HIDE DEF lock
    <3> QED
      BY <3>1
  <2> QED
    BY <1>1, <1>3, <2>1, <2>3, <2>4, AnswerDue
<1>6. CASE LockFails(r, m)
  <2>1. answer[r][m] = "none" /\ answer' = [answer EXCEPT ![r][m] = "error"] /\ UNCHANGED <<locks, lost>>
    BY <1>6 DEF LockFails, Asks, redis, history
  <2> QED
    BY <1>1, <1>3, <2>1, AnswerDue
<1>7. CASE Resend(r, m)
  <2>1. /\ answer' = [answer EXCEPT ![r][m] = "null"] /\ lost' = lost \cup {<<h, m>>} /\ UNCHANGED locks
    BY <1>7 DEF Resend, redis
  <2>2. Accounted(h, m)'
    BY <2>1 DEF Accounted
  <2> QED
    BY <1>1, <1>3, <2>1, <2>2, AnswerDue
<1> QED
  BY <1>4, <1>5, <1>6, <1>7

LEMMA EndDue ==
  ASSUME DueInv, NEW r \in Replicas, NEW m \in Minutes, Fire(r, m) \/ Skip(r, m)
  PROVE  (Lists /\ DueOnly /\ Kept)'
<1> PICK h : h = Head(todo[r][m])
  OBVIOUS
<1>1. todo[r][m] # <<>> /\ Done(r, m) /\ todo[r][m] \in Seq(Jobs)
  BY DEF Fire, Skip, DueInv, Inv, Timely, Lists
<1>2. h \in Jobs /\ <<h, m>> \in Runs
  BY <1>1, HeadAndTail DEF Runs
<1>3. fired \in [Runs -> Nat]
  BY DEF DueInv, Inv, Typed
<1>4. CASE Fire(r, m)
  <2>1. fired' = [fired EXCEPT ![<<h, m>>] = @ + 1]
    BY <1>4 DEF Fire
  <2>2. fired'[<<h, m>>] > 0 /\ \A x \in Runs \ {<<h, m>>} : fired'[x] = fired[x]
    BY <1>2, <1>3, <2>1
  <2>3. Accounted(h, m)'
    BY <2>2 DEF Accounted
  <2> QED
    BY <1>1, <2>2, <2>3, DoneDue
<1>5. CASE Skip(r, m)
  <2>1. answer[r][m] = "null" /\ UNCHANGED <<fired, lost>>
    BY <1>5 DEF Skip, Done
  <2>2. Accounted(h, m)
    BY <2>1 DEF DueInv, Kept
  <2>3. \A q \in Replicas : Holds(q, h, m) => Holds(q, h, m)'
    <3> SUFFICES ASSUME NEW q \in Replicas, Holds(q, h, m) PROVE Holds(q, h, m)'
      OBVIOUS
    <3>1. q # r
      BY <2>1 DEF Holds
    <3>2. todo'[q] = todo[q] /\ answer'[q] = answer[q]
      BY <1>1, <3>1 DEF Done, DueInv, Lists
    <3> QED
      BY <3>2 DEF Holds
  <2>4. Accounted(h, m)'
    BY <2>1, <2>2, <2>3, AccountedStays
  <2> QED
    BY <1>1, <2>1, <2>4, DoneDue
<1> QED
  BY <1>4, <1>5

(* A tick finds what is due, and nothing of that minute before it.         *)
LEMMA TickFresh ==
  ASSUME Inv, NEW r \in Replicas, Tick(r)
  PROVE  /\ Minute(r) \in Minutes
         /\ todo[r][Minute(r)] = <<>> /\ answer[r][Minute(r)] = "none"
<1> DEFINE m == Minute(r)
<1>1. m \in Minutes /\ m \in Int /\ m # lastMinute[r] /\ now \in Int /\ lastMinute[r] \in Int
  BY Parameters DEF Tick, Inv, Typed
<1>2. now + Skew[r] < From(m) + TicksPerMinute
  BY <1>1, MinuteHasTick
<1>3. From(lastMinute[r]) < From(m) + TicksPerMinute
  <2>1. From(lastMinute[r]) <= now + Skew[r]
    BY DEF Inv, Timely
  <2>2. From(lastMinute[r]) \in Int /\ From(m) \in Int /\ Skew[r] \in Int
    BY <1>1, FromType, Parameters
  <2> QED
    BY <1>1, <1>2, <2>1, <2>2, Parameters
<1>4. lastMinute[r] <= m
  BY <1>1, <1>3, FromInOrder
<1>5. lastMinute[r] < m
  BY <1>1, <1>4
<1>6. ~(m <= lastMinute[r])
  BY <1>1, <1>5
<1> QED
  BY <1>1, <1>6 DEF Inv, Timely

LEMMA TickDue ==
  ASSUME DueInv, ReadsAsCrontab, NEW r \in Replicas, Tick(r)
  PROVE  (Lists /\ DueOnly /\ Kept)'
<1> DEFINE m == Minute(r)
<1>1. m \in Minutes /\ todo[r][m] = <<>> /\ answer[r][m] = "none"
  BY TickFresh DEF DueInv
<1>2. PICK s \in Seq(Jobs) : s = DueJobs(m) /\ ToSet(s) = {j \in Jobs : <<j, m>> \in Crontab}
  BY <1>1 DEF ReadsAsCrontab
<1>3. /\ todo' = [todo EXCEPT ![r][m] = s] /\ ticked' = ticked \cup {m}
      /\ UNCHANGED <<locks, answer, fired, lost>>
  BY <1>2 DEF Tick, redis
<1> HIDE DEF m
<1>4. Lists'
  BY <1>1, <1>3 DEF DueInv, Lists
<1>5. \A q \in Replicas, n \in Minutes :
        todo'[q][n] = IF q = r /\ n = m THEN s ELSE todo[q][n]
  BY <1>3 DEF DueInv, Lists
<1>6. DueOnly'
  BY <1>2, <1>3, <1>5 DEF DueInv, DueOnly
<1>7. \A q \in Replicas, n \in Minutes : \A j : Holds(q, j, n) => Holds(q, j, n)'
  BY <1>1, <1>3, <1>5 DEF Holds
<1>8. ASSUME NEW j, NEW n \in Minutes, Accounted(j, n) PROVE Accounted(j, n)'
  BY <1>3, <1>7, <1>8, AccountedStays
<1>9. ASSUME NEW j, NEW n \in Minutes, Ahead(j, n) PROVE Ahead(j, n)'
  <2>1. ToSet(<<>>) = {}
    BY DEF ToSet
  <2> QED
    BY <1>1, <1>5, <1>9, <2>1 DEF Ahead
<1>10. ASSUME NEW q \in Replicas, NEW n \in Minutes, answer'[q][n] = "null"
       PROVE  Accounted(Head(todo[q][n]), n)'
  BY <1>1, <1>3, <1>5, <1>8, <1>10 DEF DueInv, Kept
<1>11. ASSUME NEW n \in ticked', NEW j \in Jobs, <<j, n>> \in Crontab
       PROVE  Accounted(j, n)' \/ Ahead(j, n)'
  <2>1. CASE n \in ticked
    BY <1>8, <1>9, <1>11, <2>1 DEF DueInv, Kept, Lists
  <2>2. CASE n = m
    BY <1>1, <1>2, <1>5, <1>11, <2>2 DEF Ahead
  <2> QED
    BY <1>3, <2>1, <2>2
<1>12. Kept'
  BY <1>3, <1>8, <1>10, <1>11 DEF DueInv, Kept
<1> QED
  BY <1>4, <1>6, <1>12

(* What a process that dies had before it is lost.                         *)
LEMMA RestartDue ==
  ASSUME DueInv, NEW r \in Replicas, Restart(r)
  PROVE  (Lists /\ DueOnly /\ Kept)'
<1>1. /\ lost' = lost \cup {x \in Runs : x[1] \in ToSet(todo[r][x[2]])}
      /\ todo' = [todo EXCEPT ![r] = [m \in Minutes |-> <<>>]]
      /\ answer' = [answer EXCEPT ![r] = [m \in Minutes |-> "none"]]
      /\ UNCHANGED <<locks, fired, ticked>>
  BY DEF Restart, redis
<1>2. \A q \in Replicas, n \in Minutes :
        /\ todo'[q][n] = IF q = r THEN <<>> ELSE todo[q][n]
        /\ answer'[q][n] = IF q = r THEN "none" ELSE answer[q][n]
  BY <1>1 DEF DueInv, Lists
<1>3. Lists'
  BY <1>1 DEF DueInv, Lists
<1>4. ToSet(<<>>) = {}
  BY DEF ToSet
<1>5. DueOnly'
  BY <1>1, <1>2, <1>4 DEF DueInv, DueOnly
<1>6. ASSUME NEW j \in Jobs, NEW n \in Minutes, j \in ToSet(todo[r][n]) PROVE <<j, n>> \in lost'
  BY <1>1, <1>6 DEF Runs
<1>7. ASSUME NEW j \in Jobs, NEW n \in Minutes, Accounted(j, n) PROVE Accounted(j, n)'
  <2>1. ASSUME NEW q \in Replicas, Holds(q, j, n)
        PROVE  Holds(q, j, n)' \/ <<j, n>> \in lost'
    <3>1. CASE q = r
      <4>1. todo[r][n] \in Seq(Jobs) /\ todo[r][n] # <<>> /\ Head(todo[r][n]) = j
        BY <2>1, <3>1 DEF DueInv, Lists, Holds
      <4> QED
        BY <1>6, <4>1, HeadAndTail
    <3>2. CASE q # r
      BY <1>2, <2>1, <3>2 DEF Holds
    <3> QED
      BY <3>1, <3>2
  <2> QED
    BY <1>1, <1>7, <2>1, AccountedStays
<1>8. ASSUME NEW q \in Replicas, NEW n \in Minutes, answer'[q][n] = "null"
      PROVE  Accounted(Head(todo[q][n]), n)'
  <2>1. answer[q][n] = "null" /\ todo'[q][n] = todo[q][n]
    BY <1>2, <1>8
  <2>2. todo[q][n] # <<>> /\ todo[q][n] \in Seq(Jobs)
    BY <2>1 DEF DueInv, Inv, Timely, Lists
  <2>3. Head(todo[q][n]) \in Jobs
    BY <2>2, HeadAndTail
  <2> QED
    BY <1>7, <2>1, <2>3 DEF DueInv, Kept
<1>9. ASSUME NEW n \in ticked, NEW j \in Jobs, <<j, n>> \in Crontab
      PROVE  Accounted(j, n)' \/ Ahead(j, n)'
  <2>1. n \in Minutes
    BY DEF DueInv, Lists
  <2>2. CASE Accounted(j, n)
    BY <1>7, <2>1, <2>2
  <2>3. ASSUME NEW q \in Replicas, j \in ToSet(todo[q][n])
        PROVE  Accounted(j, n)' \/ Ahead(j, n)'
    BY <1>2, <1>6, <2>1, <2>3 DEF Accounted, Ahead
  <2> QED
    BY <1>9, <2>2, <2>3 DEF DueInv, Kept, Ahead
<1>10. Kept'
  BY <1>1, <1>7, <1>8, <1>9 DEF Kept, DueInv
<1> QED
  BY <1>3, <1>5, <1>10

LEMMA DueStep == ReadsAsCrontab /\ DueInv /\ [Next]_vars => DueInv'
<1> SUFFICES ASSUME ReadsAsCrontab, DueInv, [Next]_vars PROVE DueInv'
  OBVIOUS
<1>1. Inv'
  BY InvStep DEF DueInv
<1>2. CASE Clock \/ Outage \/ Recover \/ UNCHANGED vars
  <2>1. UNCHANGED <<todo, answer, fired, lost, ticked>> /\ locks' \subseteq locks
    BY <1>2 DEF Clock, Outage, Recover, vars, redis, process, history
  <2>2. \A j, m : Accounted(j, m)' <=> Accounted(j, m)
    BY <2>1 DEF Accounted, Holds
  <2>3. \A j, m : Ahead(j, m)' <=> Ahead(j, m)
    BY <2>1 DEF Ahead
  <2>4. Lists' /\ DueOnly' /\ Kept'
    BY <2>1, <2>2, <2>3 DEF DueInv, Lists, DueOnly, Kept
  <2> QED
    BY <1>1, <2>4 DEF DueInv
<1>3. CASE \E r \in Replicas : \/ Tick(r) \/ Restart(r)
                               \/ \E m \in Minutes : SetNX(r, m) \/ LockFails(r, m) \/ Resend(r, m)
                                                       \/ Fire(r, m) \/ Skip(r, m)
  <2>1. Lists' /\ DueOnly' /\ Kept'
    BY <1>3, TickDue, RestartDue, AskDue, EndDue
  <2> QED
    BY <1>1, <2>1 DEF DueInv
<1> QED
  BY <1>2, <1>3 DEF Next

LEMMA InitDue == Init => DueInv
<1> SUFFICES ASSUME Init PROVE DueInv
  OBVIOUS
<1>1. Lists /\ DueOnly
  BY DEF Init, Lists, DueOnly, ToSet
<1>2. Kept
  BY DEF Init, Kept
<1> QED
  BY <1>1, <1>2, InitInv DEF DueInv

(* Of a manifest that is read as crontab(5) reads it, a job is run in the  *)
(* minutes it is due and in no other, whatever the replicas' clocks and    *)
(* however often a tick is cut short (tick, scheduler.mjs:136-185).        *)
LEMMA FiredAsScheduledWhenRead ==
  ASSUME ReadsAsCrontab
  PROVE  Spec => []FiredAsScheduled
<1>1. DueInv => FiredAsScheduled
  BY DueIsEnough
<1>2. DueInv /\ [Next]_vars => DueInv'
  BY DueStep
<1> QED
  BY <1>1, <1>2, InitDue, PTL DEF Spec

(* And a schedule does not silently stop: once no replica has a due job    *)
(* before it any more, it was run, unless a process died with it in hand   *)
(* or never heard that it had taken the lock (scheduler.mjs:152-160).      *)
THEOREM NotMissedWhenRead ==
  ASSUME ReadsAsCrontab
  PROVE  Spec => []NotMissed
<1>1. DueInv => NotMissed
  BY DueIsEnough
<1>2. DueInv /\ [Next]_vars => DueInv'
  BY DueStep
<1> QED
  BY <1>1, <1>2, InitDue, PTL DEF Spec
=============================================================================
