--------------------------- MODULE IsrCache_proofs --------------------------
(***************************************************************************)
(* Proofs about the connection the calls of the ISR cache share, for any   *)
(* number of replicas, calls and tags, any clocks and any outages.         *)
(***************************************************************************)
EXTENDS IsrCache, FiniteSetTheorems, TLAPS

(* What of a call the connection depends on.                               *)
TypeOK ==
  /\ DOMAIN call = Calls
  /\ \A c \in Calls : {"pc", "on", "quits"} \subseteq DOMAIN call[c]
  /\ \A c \in Calls : call[c].pc # "idle" => call[c].on \in Replicas
  /\ client \in [Replicas -> {"none", "connecting", "open"}]

NeedsOpen == {"entry", "stamps", "stampSet", "store", "stampTag", "hset"}

(* A call that awaits the connection awaits an attempt that is under way,  *)
(* and what holds a connection holds the one of its process, or one that   *)
(* was told to quit.                                                       *)
NobodyWaitsInVain ==
  \A c \in Calls : /\ call[c].pc \in Joined => client[call[c].on] = "connecting"
                   /\ call[c].pc \in NeedsOpen => client[call[c].on] = "open" \/ call[c].quits

(* Call c goes to pc, on the same replica; the other calls stay.           *)
Moves(c, pc) ==
  /\ DOMAIN call' = Calls
  /\ \A d \in Calls \ {c} : call'[d] = call[d]
  /\ {"pc", "on", "quits"} \subseteq DOMAIN call'[c]
  /\ call'[c].pc = pc /\ call'[c].on = call[c].on /\ call'[c].quits = call[c].quits

LEMMA GotoMoves ==
  ASSUME TypeOK, NEW c \in Calls, NEW pc, pc # "idle", Goto(c, pc)
  PROVE  Moves(c, pc)
BY DEF TypeOK, Goto, Onto, Moves

LEMMA MovesSafely ==
  ASSUME TypeOK, NobodyWaitsInVain, NEW c \in Calls, NEW pc, Moves(c, pc), UNCHANGED client,
         call[c].pc # "idle",
         pc \in Joined => client[call[c].on] = "connecting",
         pc \in NeedsOpen => client[call[c].on] = "open" \/ call[c].quits
  PROVE  (TypeOK /\ NobodyWaitsInVain)'
BY DEF TypeOK, NobodyWaitsInVain, Moves, NeedsOpen

(* Call c begins, or turns from a miss to a set: it asks for a client.     *)
Asks(c) ==
  \E r \in Replicas, pc \in Asking :
    /\ DOMAIN call' = Calls
    /\ \A d \in Calls \ {c} : call'[d] = call[d]
    /\ {"pc", "on", "quits"} \subseteq DOMAIN call'[c]
    /\ call'[c].pc = pc /\ call'[c].on = r

LEMMA Labels ==
  /\ Asking = {"get", "set", "revalidate"}
  /\ Joined = {"joinGet", "joinSet", "joinRevalidate"}
  /\ \A a \in Asking : Waits[a] \in Joined
  /\ \A j \in Joined : With[j] \in NeedsOpen /\ Without[j] \in {"set", "idle"}
BY DEF Asking, Joined, Waits, With, Without, NeedsOpen

LEMMA AsksSafely ==
  ASSUME TypeOK, NobodyWaitsInVain, NEW c \in Calls, Asks(c), UNCHANGED client
  PROVE  (TypeOK /\ NobodyWaitsInVain)'
BY Labels DEF TypeOK, NobodyWaitsInVain, Asks, NeedsOpen

LEMMA EndsSafely ==
  ASSUME TypeOK, NobodyWaitsInVain, NEW c \in Calls, Ends(c), UNCHANGED client
  PROVE  (TypeOK /\ NobodyWaitsInVain)'
BY Labels DEF TypeOK, NobodyWaitsInVain, NeedsOpen, Ends, Idle

LEMMA GetClientSafely ==
  ASSUME TypeOK, NobodyWaitsInVain, NEW c \in Calls, GetClient(c)
  PROVE  (TypeOK /\ NobodyWaitsInVain)'
<1>1. call[c].pc \in Asking /\ call[c].pc # "idle" /\ call[c].on \in Replicas
  BY Labels DEF GetClient, TypeOK
<1>2. CASE ClientOpen(c)
  <2>1. /\ With[Waits[call[c].pc]] \in NeedsOpen /\ With[Waits[call[c].pc]] \notin Joined
        /\ With[Waits[call[c].pc]] # "idle"
    BY <1>1, Labels DEF NeedsOpen
  <2>2. Moves(c, With[Waits[call[c].pc]]) /\ UNCHANGED client /\ client[call[c].on] = "open"
    BY <1>2, <2>1, GotoMoves DEF ClientOpen, conns
  <2> QED
    BY <1>1, <2>1, <2>2, MovesSafely
<1>3. CASE ClientBacksOff(c)
  <2> PICK pc : pc = Without[Waits[call[c].pc]]
    OBVIOUS
  <2>1. pc \notin NeedsOpen \cup Joined
    BY <1>1, Labels DEF NeedsOpen
  <2>2. Goto(c, pc) /\ UNCHANGED client
    BY <1>3 DEF ClientBacksOff, conns
  <2>3. CASE pc = "idle"
    BY <2>2, <2>3, EndsSafely DEF Goto, Onto, Ends
  <2>4. CASE pc # "idle"
    BY <1>1, <2>1, <2>2, <2>4, GotoMoves, MovesSafely
  <2> QED
    BY <2>3, <2>4
<1>4. CASE ClientConnects(c)
  <2>1. /\ Waits[call[c].pc] \in Joined /\ Waits[call[c].pc] \notin NeedsOpen
        /\ Waits[call[c].pc] # "idle"
    BY <1>1, Labels DEF NeedsOpen
  <2>2. Moves(c, Waits[call[c].pc])
    BY <1>4, <2>1, GotoMoves DEF ClientConnects
  <2>3. client[call[c].on] # "open" /\ client' = [client EXCEPT ![call[c].on] = "connecting"]
    BY <1>4 DEF ClientConnects
  <2>4. \A d \in Calls \ {c} : call[d].on = call[c].on => call[d].pc \notin NeedsOpen \/ call[d].quits
    BY <2>3 DEF NobodyWaitsInVain, NeedsOpen
  <2> QED
    BY <1>1, <2>1, <2>2, <2>3, <2>4, Labels DEF TypeOK, NobodyWaitsInVain, Moves, NeedsOpen
<1> QED
  BY <1>2, <1>3, <1>4 DEF GetClient

LEMMA ConnectionSafely ==
  ASSUME TypeOK, NobodyWaitsInVain, NEW r \in Replicas,
         Connected(r) \/ ConnectFails(r) \/ Disconnect(r)
  PROVE  (TypeOK /\ NobodyWaitsInVain)'
<1>1. \A c \in Calls : call[c].on = r /\ client[r] = "connecting" => call[c].pc \notin NeedsOpen \/ call[c].quits
  BY DEF NobodyWaitsInVain, NeedsOpen
<1>2. CASE Connected(r)
  <2>1. client[r] = "connecting" /\ client' = [client EXCEPT ![r] = "open"] /\ Resolve(r, With)
    BY <1>2 DEF Connected
  <2>2. TypeOK'
    BY <2>1, Labels DEF TypeOK, Resolve, Onto, Idle
  <2> QED
    BY <1>1, <2>1, <2>2, Labels DEF TypeOK, NobodyWaitsInVain, Resolve, Onto, Idle, NeedsOpen
<1>3. CASE ConnectFails(r)
  <2>1. client[r] = "connecting" /\ client' = [client EXCEPT ![r] = "none"] /\ Resolve(r, Without)
    BY <1>3 DEF ConnectFails
  <2>2. TypeOK'
    BY <2>1, Labels DEF TypeOK, Resolve, Onto, Idle
  <2> QED
    BY <1>1, <2>1, <2>2, Labels DEF TypeOK, NobodyWaitsInVain, Resolve, Onto, Idle, NeedsOpen
<1>4. CASE Disconnect(r)
  <2>1. /\ client' = [client EXCEPT ![r] = IF @ = "open" THEN "none" ELSE @]
        /\ call' = [c \in Calls |-> IF call[c].on = r /\ Holds(c) THEN [call[c] EXCEPT !.quits = TRUE]
                                    ELSE call[c]]
    BY <1>4 DEF Disconnect
  <2>2. TypeOK'
    BY <2>1 DEF TypeOK, Holds
  <2>3. \A c \in Calls : /\ call'[c].pc = call[c].pc /\ call'[c].on = call[c].on
                         /\ call[c].quits => call'[c].quits
                         /\ call[c].on = r /\ call[c].pc \in NeedsOpen => call'[c].quits
    BY <2>1 DEF TypeOK, Holds, NeedsOpen
  <2>4. \A q \in Replicas : client'[q] = client[q] \/ (q = r /\ client[q] = "open")
    BY <2>1 DEF TypeOK
  <2> QED
    BY <2>2, <2>3, <2>4, Labels DEF TypeOK, NobodyWaitsInVain, NeedsOpen
<1> QED
  BY <1>2, <1>3, <1>4

LEMMA CallSafely ==
  ASSUME TypeOK, NobodyWaitsInVain, NEW c \in Calls, Advance(c)
  PROVE  (TypeOK /\ NobodyWaitsInVain)'
<1>1. CASE GetClient(c)
  BY <1>1, GetClientSafely
<1>2. ASSUME Miss(c), UNCHANGED client, call[c].pc # "idle"
      PROVE  (TypeOK /\ NobodyWaitsInVain)'
  <2>1. Asks(c)
    BY <1>2, Labels DEF TypeOK, Miss, Asks, Idle
  <2> QED
    BY <1>2, <2>1, AsksSafely
<1>3. ASSUME Ends(c), UNCHANGED client PROVE (TypeOK /\ NobodyWaitsInVain)'
  BY <1>3, EndsSafely
<1>4. ASSUME NEW pc \in NeedsOpen, call[c].pc \in NeedsOpen, UNCHANGED client, Moves(c, pc)
      PROVE  (TypeOK /\ NobodyWaitsInVain)'
  <2>1. /\ client[call[c].on] = "open" \/ call[c].quits
        /\ call[c].pc # "idle" /\ pc \notin Joined
    BY <1>4, Labels DEF NobodyWaitsInVain, NeedsOpen
  <2> QED
    BY <1>4, <2>1, MovesSafely
<1>5. CASE ReadEntry(c)
  <2>1. CASE Miss(c)
    BY <1>2, <1>5, <2>1 DEF ReadEntry, At, conns
  <2>2. CASE call' = [call EXCEPT ![c].pc = "stamps", ![c].got = entry]
    <3>1. Moves(c, "stamps")
      BY <2>2 DEF TypeOK, Moves
    <3> QED
      BY <1>4, <1>5, <3>1 DEF ReadEntry, At, conns, NeedsOpen
  <2> QED
    BY <1>5, <2>1, <2>2 DEF ReadEntry
<1>6. CASE ReadStamps(c)
  <2>1. CASE Miss(c)
    BY <1>2, <1>6, <2>1 DEF ReadStamps, At, conns
  <2>2. CASE Ends(c)
    BY <1>3, <1>6, <2>2 DEF ReadStamps, conns
  <2> QED
    BY <1>6, <2>1, <2>2 DEF ReadStamps
<1>7. CASE StampEntry(c)
  <2>1. Moves(c, "store")
    BY <1>7 DEF StampEntry, TypeOK, Moves
  <2> QED
    BY <1>4, <1>7, <2>1 DEF StampEntry, At, conns, NeedsOpen
<1>8. CASE StampTag(c)
  <2>1. Moves(c, "hset")
    BY <1>8 DEF StampTag, TypeOK, Moves
  <2> QED
    BY <1>4, <1>8, <2>1 DEF StampTag, At, conns, NeedsOpen
<1>9. CASE Store(c) \/ Delete(c) \/ SetStamp(c)
  BY <1>3, <1>9 DEF Store, Delete, SetStamp, conns
<1> QED
  BY <1>1, <1>5, <1>6, <1>7, <1>8, <1>9 DEF Advance

LEMMA BeginSafely ==
  ASSUME TypeOK, NobodyWaitsInVain, NEW c \in Calls, NEW r \in Replicas,
         Get(c, r) \/ Refresh(c, r) \/ \E t \in Tags : Revalidate(c, r, t)
  PROVE  (TypeOK /\ NobodyWaitsInVain)'
<1>1. CASE Get(c, r)
  <2>1. DOMAIN call' = Calls /\ \A d \in Calls \ {c} : call'[d] = call[d]
    BY <1>1 DEF Get, TypeOK
  <2>2. {"pc", "on", "quits"} \subseteq DOMAIN call'[c] /\ call'[c].pc = "get" /\ call'[c].on = r
    BY <1>1 DEF Get, TypeOK, Idle
  <2> QED
    BY <1>1, <2>1, <2>2, Labels, AsksSafely DEF Get, Asks, conns
<1>2. CASE Refresh(c, r)
  <2>1. DOMAIN call' = Calls /\ \A d \in Calls \ {c} : call'[d] = call[d]
    BY <1>2 DEF Refresh, TypeOK
  <2>2. {"pc", "on", "quits"} \subseteq DOMAIN call'[c] /\ call'[c].pc = "set" /\ call'[c].on = r
    BY <1>2 DEF Refresh, TypeOK, Idle
  <2> QED
    BY <1>2, <2>1, <2>2, Labels, AsksSafely DEF Refresh, Asks, conns
<1>3. ASSUME NEW t \in Tags, Revalidate(c, r, t) PROVE (TypeOK /\ NobodyWaitsInVain)'
  <2>1. DOMAIN call' = Calls /\ \A d \in Calls \ {c} : call'[d] = call[d]
    BY <1>3 DEF Revalidate, TypeOK
  <2>2. {"pc", "on", "quits"} \subseteq DOMAIN call'[c] /\ call'[c].pc = "revalidate" /\ call'[c].on = r
    BY <1>3 DEF Revalidate, TypeOK, Idle
  <2> QED
    BY <1>3, <2>1, <2>2, Labels, AsksSafely DEF Revalidate, Asks, conns
<1> QED
  BY <1>1, <1>2, <1>3

LEMMA ConnectionStep ==
  TypeOK /\ NobodyWaitsInVain /\ [Next]_vars => (TypeOK /\ NobodyWaitsInVain)'
<1> SUFFICES ASSUME TypeOK, NobodyWaitsInVain, [Next]_vars
             PROVE  (TypeOK /\ NobodyWaitsInVain)'
  OBVIOUS
<1>1. ASSUME UNCHANGED <<call, client>> PROVE (TypeOK /\ NobodyWaitsInVain)'
  BY <1>1 DEF TypeOK, NobodyWaitsInVain
<1>2. CASE Tick \/ Expire \/ Outage \/ Recover \/ UNCHANGED vars
  BY <1>1, <1>2 DEF Tick, Expire, Outage, Recover, vars, conns
<1>3. ASSUME NEW r \in Replicas, BackoffOver(r) PROVE (TypeOK /\ NobodyWaitsInVain)'
  BY <1>1, <1>3 DEF BackoffOver
<1> QED
  BY <1>2, <1>3, ConnectionSafely, CallSafely, BeginSafely DEF Next

(* A call that awaits the connection of its process awaits an attempt that *)
(* is under way, and nothing is asked of Redis over a connection that was  *)
(* not made, however connects, failures, back-offs and disconnects fall    *)
(* between (getClient and disconnect, cache-handler.cjs:54-96, 200-205).   *)
THEOREM NobodyWaits == Spec => []NobodyWaitsInVain
<1>1. Init => TypeOK /\ NobodyWaitsInVain
  BY Labels DEF Init, TypeOK, NobodyWaitsInVain, NeedsOpen, Idle
<1> QED
  BY <1>1, ConnectionStep, PTL DEF Spec

-----------------------------------------------------------------------------
(* A function takes its largest value on a finite set: a set without one,  *)
(* smallest of its kind, is left without one of its elements.              *)

LEMMA Largest ==
  ASSUME NEW S, IsFiniteSet(S), S # {}, NEW f \in [S -> Int]
  PROVE  \E x \in S : \A y \in S : f[x] >= f[y]
<1> DEFINE Bad == {T \in FiniteSubsetsOf(S) : T # {} /\ \A x \in T : \E y \in T : f[x] < f[y]}
<1>1. IsWellFoundedOn(StrictSubsetOrdering(S), FiniteSubsetsOf(S))
  BY FS_StrictSubsetOrderingWellFounded
<1>2. FiniteSubsetsOf(S) = SUBSET S
  BY FS_FiniteSubsetsOfFinite
<1>3. ASSUME Bad # {} PROVE FALSE
  <2>1. PICK T \in Bad : \A U \in Bad : <<U, T>> \notin StrictSubsetOrdering(S)
    <3>1. Bad \subseteq FiniteSubsetsOf(S)
      OBVIOUS
    <3> HIDE DEF Bad
    <3> QED
      BY <1>1, <1>3, <3>1, WFMin
  <2>2. T \subseteq S /\ T # {} /\ \A x \in T : \E y \in T : f[x] < f[y]
    BY <1>2
  <2>3. PICK x \in T : TRUE
    BY <2>2
  <2>4. PICK y \in T : f[x] < f[y]
    BY <2>2
  <2> DEFINE U == T \ {x}
  <2>5. U \in FiniteSubsetsOf(S) /\ U # {} /\ <<U, T>> \in StrictSubsetOrdering(S)
    <3>1. x \in S /\ y \in S /\ x # y /\ U \subseteq S /\ U \subseteq T /\ U # T
      BY <2>2, <2>3, <2>4
    <3> QED
      BY <1>2, <2>2, <3>1 DEF StrictSubsetOrdering
  <2>6. \A z \in U : \E w \in U : f[z] < f[w]
    <3> SUFFICES ASSUME NEW z \in U PROVE \E w \in U : f[z] < f[w]
      OBVIOUS
    <3>1. PICK w \in T : f[z] < f[w]
      BY <2>2
    <3>2. CASE w # x
      BY <3>1, <3>2
    <3>3. CASE w = x
      <4>1. y \in U /\ f[x] \in Int /\ f[y] \in Int /\ f[z] \in Int
        BY <2>2, <2>4
      <4> QED
        BY <2>4, <3>1, <3>3, <4>1
    <3> QED
      BY <3>2, <3>3
  <2>7. U \in Bad
    BY <2>5, <2>6
  <2> QED
    BY <2>1, <2>5, <2>7
<1>4. S \notin Bad /\ S \in FiniteSubsetsOf(S)
  BY <1>2, <1>3
<1> QED
  BY <1>4

(* Next.js asks at a time not before what any tag was last revalidated at. *)
LEMMA LastOfAll ==
  ASSUME last \in [Tags -> Nat]
  PROVE  \E t \in Tags : Max({last[u] : u \in Tags}) = last[t]
<1> DEFINE L == {last[u] : u \in Tags}
<1>1. PICK x \in Tags : \A y \in Tags : last[x] >= last[y]
  BY IsrAssumption, Largest
<1>2. last[x] \in L /\ \A l \in L : last[x] >= l
  BY <1>1
<1>3. \A l \in L : \E u \in Tags : l = last[u]
  OBVIOUS
<1> HIDE DEF L
<1>4. Max(L) \in L
  BY <1>2 DEF Max
<1> QED
  BY <1>3, <1>4 DEF L

-----------------------------------------------------------------------------
(* What was stored before an invalidation is gone.  Two clocks meet in it: *)
(* the page is stamped by the replica that stores it, the tag by the one   *)
(* that revalidates.  Of a tag's stamp the invariant keeps that it is no   *)
(* earlier than its last revalidation by some replica's clock, and of a    *)
(* stamp on its way to Redis that it is no earlier than the one in Redis   *)
(* was when no other was on its way.                                       *)

Pages == {[lastModified |-> a + Skew[r], tags |-> TagsOf] : a \in Nat, r \in Replicas}

Pcs == Asking \cup Joined \cup NeedsOpen \cup {"idle"}
Reading == {"get", "joinGet", "entry", "stamps"}
Tagging == {"revalidate", "joinRevalidate", "stampTag", "hset"}

CallRec == [pc : Pcs, on : Replicas \cup {NoEntry}, quits : BOOLEAN, got : Pages \cup {NoEntry},
            tag : Tags \cup {NoEntry}, stamp : Nat, since : Nat]

Types ==
  /\ call \in [Calls -> CallRec]
  /\ now \in Nat /\ last \in [Tags -> Nat] /\ stamp \in [Tags -> Nat]
  /\ entry \in Pages \cup {NoEntry}

StampedAt(t) ==
  /\ last[t] <= now
  /\ last[t] = 0 \/ \E r \in Replicas : stamp[t] >= last[t] + Skew[r]

(* What call i has learned, with the last revalidation of a tag at l[t].   *)
Knows(i, l, time) ==
  /\ i.pc \in Reading => i.since = 0 \/ \E t \in Tags : i.since <= l[t]
  /\ i.pc \in {"stamps", "store"} => i.got \in Pages
  /\ i.pc \in Tagging => i.tag \in Tags
  /\ i.pc = "hset" => /\ l[i.tag] <= i.since /\ i.since <= time
                      /\ \E r \in Replicas : i.stamp = i.since + Skew[r]

CacheInv ==
  /\ Types /\ TypeOK /\ NobodyWaitsInVain
  /\ \A t \in Tags : StampedAt(t)
  /\ \A c \in Calls : Knows(call[c], last, now)

(* Call c becomes i, and nothing of what others know changes.              *)
LEMMA OneCall ==
  ASSUME CacheInv, NEW c \in Calls, NEW i \in CallRec, Knows(i, last, now),
         call' = [call EXCEPT ![c] = i],
         UNCHANGED <<now, last, stamp>>, entry' \in Pages \cup {NoEntry}
  PROVE  Types' /\ (\A t \in Tags : StampedAt(t)') /\ \A d \in Calls : Knows(call[d], last, now)'
<1>1. call' \in [Calls -> CallRec] /\ call'[c] = i /\ \A d \in Calls \ {c} : call'[d] = call[d]
  BY DEF CacheInv, Types
<1>2. Types'
  BY <1>1 DEF CacheInv, Types
<1>3. \A t \in Tags : StampedAt(t)'
  BY DEF CacheInv, StampedAt
<1>4. ASSUME NEW d \in Calls PROVE Knows(call[d], last, now)'
  <2> PICK j : j = call'[d]
    OBVIOUS
  <2>1. Knows(j, last, now)
    BY <1>1 DEF CacheInv
  <2> QED
    BY <2>1
<1> QED
  BY <1>2, <1>3, <1>4

(* A call that goes on to pc with what it knows.                           *)
Onward(i, pc) ==
  /\ pc \in Pcs \ {"idle", "stamps", "store", "hset"}
  /\ pc \in Reading => i.pc \in Reading
  /\ pc \in Tagging => i.pc \in Tagging

LEMMA OnwardKnows ==
  ASSUME NEW i \in CallRec, NEW l, NEW time, Knows(i, l, time), NEW pc, Onward(i, pc)
  PROVE  [i EXCEPT !.pc = pc] \in CallRec /\ Knows([i EXCEPT !.pc = pc], l, time)
<1> PICK j : j = [i EXCEPT !.pc = pc]
  OBVIOUS
<1>1. /\ j.pc = pc /\ j.on = i.on /\ j.got = i.got /\ j.tag = i.tag /\ j.stamp = i.stamp
      /\ j.since = i.since
  BY DEF CallRec
<1>2. j \in CallRec
  BY DEF CallRec, Onward
<1>3. Knows(j, l, time)
  BY <1>1 DEF Knows, Onward
<1> QED
  BY <1>2, <1>3

(* A call that begins, or has ended, knows nothing.                        *)
LEMMA IdleKnows ==
  /\ Idle \in CallRec
  /\ Idle.since = 0
  /\ \A l, time : Knows(Idle, l, time)
<1>1. Idle \in CallRec /\ Idle.since = 0 /\ Idle.pc = "idle"
  BY DEF Idle, CallRec, Pcs
<1> QED
  BY <1>1 DEF Knows, Reading, Tagging

LEMMA GoesOn ==
  ASSUME CacheInv, NEW c \in Calls, NEW pc, pc = "idle" \/ Onward(call[c], pc), Goto(c, pc),
         UNCHANGED <<now, last, stamp, entry>>
  PROVE  Types' /\ (\A t \in Tags : StampedAt(t)') /\ \A d \in Calls : Knows(call[d], last, now)'
<1> PICK j \in CallRec : j = call[c]
  BY DEF CacheInv, Types
<1> PICK i : i = Onto(j, pc)
  OBVIOUS
<1>1. i \in CallRec /\ Knows(i, last, now)
  BY IdleKnows, OnwardKnows DEF CacheInv, Onto
<1>2. DOMAIN call = Calls
  BY DEF CacheInv, Types
<1>3. call' = [call EXCEPT ![c] = i]
  BY <1>2 DEF Goto
<1> QED
  BY <1>1, <1>3, OneCall DEF CacheInv, Types

LEMMA EndsKnowing ==
  ASSUME CacheInv, NEW c \in Calls, Ends(c), UNCHANGED <<now, last, stamp>>,
         entry' \in Pages \cup {NoEntry}
  PROVE  Types' /\ (\A t \in Tags : StampedAt(t)') /\ \A d \in Calls : Knows(call[d], last, now)'
<1>1. call' = [call EXCEPT ![c] = Idle]
  BY DEF Ends
<1> QED
  BY <1>1, IdleKnows, OneCall

LEMMA GetClientKnows ==
  ASSUME CacheInv, NEW c \in Calls, GetClient(c)
  PROVE  Types' /\ (\A t \in Tags : StampedAt(t)') /\ \A d \in Calls : Knows(call[d], last, now)'
<1>1. call[c].pc \in Asking /\ UNCHANGED <<now, last, stamp, entry>>
  BY DEF GetClient, redis
<1> DEFINE join == Waits[call[c].pc]
<1>2. /\ Onward(call[c], join) /\ Onward(call[c], With[join])
      /\ Without[join] = "idle" \/ Onward(call[c], Without[join])
  BY <1>1 DEF Onward, Asking, Waits, With, Without, Pcs, Reading, Tagging, Joined, NeedsOpen
<1>3. \E pc : (pc = "idle" \/ Onward(call[c], pc)) /\ Goto(c, pc)
  BY <1>2 DEF GetClient, ClientOpen, ClientBacksOff, ClientConnects
<1> QED
  BY <1>1, <1>3, GoesOn

LEMMA QuitsKnows ==
  ASSUME NEW i \in CallRec, NEW l, NEW time, Knows(i, l, time)
  PROVE  [i EXCEPT !.quits = TRUE] \in CallRec /\ Knows([i EXCEPT !.quits = TRUE], l, time)
<1> PICK j : j = [i EXCEPT !.quits = TRUE]
  OBVIOUS
<1>1. /\ j.pc = i.pc /\ j.got = i.got /\ j.tag = i.tag /\ j.stamp = i.stamp
      /\ j.since = i.since /\ j \in CallRec
  BY DEF CallRec
<1> QED
  BY <1>1 DEF Knows

(* The end of an attempt to connect takes on every call that waits for it. *)
LEMMA ConnectionKnows ==
  ASSUME CacheInv, NEW r \in Replicas, Connected(r) \/ ConnectFails(r) \/ Disconnect(r)
  PROVE  Types' /\ (\A t \in Tags : StampedAt(t)') /\ \A d \in Calls : Knows(call[d], last, now)'
<1>1. UNCHANGED <<now, last, stamp, entry>>
  BY DEF Connected, ConnectFails, Disconnect, redis
<1>2. \A t \in Tags : StampedAt(t)'
  BY <1>1 DEF CacheInv, StampedAt
<1>3. ASSUME NEW d \in Calls
      PROVE  call'[d] \in CallRec /\ Knows(call'[d], last, now)
  <2> PICK j \in CallRec : j = call[d]
    BY DEF CacheInv, Types
  <2>1. Knows(j, last, now)
    BY DEF CacheInv
  <2>2. CASE Disconnect(r)
    <3> PICK i : i = [j EXCEPT !.quits = TRUE]
      OBVIOUS
    <3>1. i \in CallRec /\ Knows(i, last, now)
      BY <2>1, QuitsKnows
    <3> QED
      BY <2>1, <2>2, <3>1 DEF Disconnect
  <2>3. ASSUME NEW next, Resolve(r, next), next = With \/ next = Without
        PROVE  call'[d] \in CallRec /\ Knows(call'[d], last, now)
    <3>1. CASE j.pc \in Joined
      <4>1. next[j.pc] = "idle" \/ Onward(j, next[j.pc])
        BY <2>3, <3>1 DEF Onward, With, Without, Pcs, Reading, Tagging, Joined, NeedsOpen, Asking, Waits
      <4> QED
        BY <2>1, <2>3, <3>1, <4>1, IdleKnows, OnwardKnows DEF Resolve, Onto
    <3> QED
      BY <2>1, <2>3, <3>1 DEF Resolve
  <2> QED
    BY <2>2, <2>3 DEF Connected, ConnectFails
<1>4. Types'
  <2>1. call' = [d \in Calls |-> call'[d]]
    <3>1. CASE Disconnect(r)
      BY <3>1 DEF Disconnect
    <3>2. CASE \E next : Resolve(r, next)
      BY <3>2 DEF Resolve
    <3> QED
      BY <3>1, <3>2 DEF Connected, ConnectFails
  <2> QED
    BY <1>1, <1>3, <2>1 DEF CacheInv, Types
<1>5. ASSUME NEW d \in Calls PROVE Knows(call[d], last, now)'
  BY <1>1, <1>3
<1> QED
  BY <1>2, <1>4, <1>5

LEMMA BeginKnows ==
  ASSUME CacheInv, NEW c \in Calls, NEW r \in Replicas,
         Get(c, r) \/ Refresh(c, r) \/ \E t \in Tags : Revalidate(c, r, t)
  PROVE  Types' /\ (\A t \in Tags : StampedAt(t)') /\ \A d \in Calls : Knows(call[d], last, now)'
<1> PICK z \in CallRec : z = Idle
  BY IdleKnows
<1>1. UNCHANGED <<now, last, stamp, entry>>
  BY DEF Get, Refresh, Revalidate, redis
<1>2. CASE Get(c, r)
  <2>1. last \in [Tags -> Nat]
    BY DEF CacheInv, Types
  <2>2. PICK t \in Tags : Max({last[u] : u \in Tags}) = last[t]
    BY <2>1, LastOfAll
  <2>3. PICK n \in Nat : n = last[t]
    BY <2>1
  <2> PICK i : i = [z EXCEPT !.pc = "get", !.on = r, !.since = n]
    OBVIOUS
  <2>4. i.pc = "get" /\ i.since = n /\ i \in CallRec
    BY DEF CallRec, Pcs, Asking, Waits
  <2>5. Knows(i, last, now)
    BY <2>1, <2>3, <2>4 DEF Knows, Tagging
  <2>6. call' = [call EXCEPT ![c] = i]
    BY <1>2, <2>2, <2>3 DEF Get
  <2> QED
    BY <1>1, <2>4, <2>5, <2>6, OneCall DEF CacheInv, Types
<1>3. CASE Refresh(c, r)
  <2> PICK i : i = [z EXCEPT !.pc = "set", !.on = r]
    OBVIOUS
  <2>1. i.pc = "set" /\ i \in CallRec
    BY DEF CallRec, Pcs, Asking, Waits
  <2>2. Knows(i, last, now)
    BY <2>1 DEF Knows, Reading, Tagging
  <2>3. call' = [call EXCEPT ![c] = i]
    BY <1>3 DEF Refresh
  <2> QED
    BY <1>1, <2>1, <2>2, <2>3, OneCall DEF CacheInv, Types
<1>4. ASSUME NEW t \in Tags, Revalidate(c, r, t)
      PROVE  Types' /\ (\A u \in Tags : StampedAt(u)') /\ \A d \in Calls : Knows(call[d], last, now)'
  <2> PICK i : i = [z EXCEPT !.pc = "revalidate", !.on = r, !.tag = t]
    OBVIOUS
  <2>1. i.pc = "revalidate" /\ i.tag = t /\ i \in CallRec
    BY DEF CallRec, Pcs, Asking, Waits
  <2>2. Knows(i, last, now)
    BY <2>1 DEF Knows, Reading
  <2>3. call' = [call EXCEPT ![c] = i]
    BY <1>4 DEF Revalidate
  <2> QED
    BY <1>1, <2>1, <2>2, <2>3, OneCall DEF CacheInv, Types
<1> QED
  BY <1>2, <1>3, <1>4

LEMMA MissKnows ==
  ASSUME CacheInv, NEW c \in Calls, Miss(c), UNCHANGED <<now, last, stamp, entry>>
  PROVE  Types' /\ (\A t \in Tags : StampedAt(t)') /\ \A d \in Calls : Knows(call[d], last, now)'
<1> PICK z \in CallRec : z = Idle
  BY IdleKnows
<1> PICK r \in Replicas \cup {NoEntry} : r = call[c].on
  BY DEF CacheInv, Types, CallRec
<1> PICK i : i = [z EXCEPT !.pc = "set", !.on = r]
  OBVIOUS
<1>1. i.pc = "set" /\ i \in CallRec
  BY DEF CallRec, Pcs, Asking, Waits
<1>2. Knows(i, last, now)
  BY <1>1 DEF Knows, Reading, Tagging
<1>3. call' = [call EXCEPT ![c] = i]
  BY DEF Miss
<1> QED
  BY <1>1, <1>2, <1>3, OneCall DEF CacheInv, Types

(* Here the two clocks meet: the stamps let the page pass.                 *)
LEMMA ServedInTime ==
  ASSUME CacheInv, NEW c \in Calls, At(c, "stamps"), ~Revalidated(call[c].got)
  PROVE  StoredSince(c)
<1> SUFFICES \E q \in Replicas : call[c].got.lastModified >= call[c].since + Skew[q]
  BY DEF StoredSince
<1> PICK j \in CallRec : j = call[c]
  BY DEF CacheInv, Types
<1>1. j.got \in Pages /\ (j.since = 0 \/ \E t \in Tags : j.since <= last[t])
  BY DEF CacheInv, Knows, At, Reading
<1>2. PICK a \in Nat, r \in Replicas : j.got = [lastModified |-> a + Skew[r], tags |-> TagsOf]
  BY <1>1 DEF Pages
<1>3. j.got.lastModified = a + Skew[r] /\ j.got.tags = TagsOf
  BY <1>2
<1>4. j.since \in Nat /\ \A q \in Replicas : Skew[q] \in Nat
  BY IsrAssumption DEF CallRec
<1>5. CASE j.since = 0
  BY <1>3, <1>4, <1>5
<1>6. CASE j.since # 0
  <2>1. PICK t \in Tags : j.since <= last[t]
    BY <1>1, <1>6
  <2>2. last[t] \in Nat /\ stamp[t] \in Nat /\ StampedAt(t) /\ last[t] # 0
    BY <1>4, <1>6, <2>1 DEF CacheInv, Types
  <2>3. PICK q \in Replicas : stamp[t] >= last[t] + Skew[q]
    BY <2>2 DEF StampedAt
  <2>4. t \in TagsOf \cup SoftTags
    BY DEF Tags, TagsOf
  <2>5. ~(stamp[t] > j.got.lastModified)
    BY <1>3, <2>4 DEF Revalidated
  <2> QED
    BY <1>3, <1>4, <2>1, <2>2, <2>3, <2>5
<1> QED
  BY <1>5, <1>6

LEMMA ReadKnows ==
  ASSUME CacheInv, NEW c \in Calls, ReadEntry(c) \/ ReadStamps(c)
  PROVE  Types' /\ (\A t \in Tags : StampedAt(t)') /\ \A d \in Calls : Knows(call[d], last, now)'
<1>1. UNCHANGED <<now, last, stamp, entry>>
  BY DEF ReadEntry, ReadStamps, redis
<1> PICK j \in CallRec : j = call[c]
  BY DEF CacheInv, Types
<1>2. Knows(j, last, now) /\ DOMAIN call = Calls
  BY DEF CacheInv, Types
<1>3. CASE Miss(c)
  BY <1>1, <1>3, MissKnows
<1>4. CASE At(c, "entry") /\ entry # NoEntry /\ call' = [call EXCEPT ![c].pc = "stamps", ![c].got = entry]
  <2> PICK e \in Pages : e = entry
    BY <1>4 DEF CacheInv, Types
  <2> PICK i : i = [j EXCEPT !.pc = "stamps", !.got = e]
    OBVIOUS
  <2>1. i.pc = "stamps" /\ i.got = e /\ i.since = j.since
    BY DEF CallRec
  <2>2. i \in CallRec
    BY DEF CallRec, Pcs, NeedsOpen
  <2>3. Knows(i, last, now)
    BY <1>2, <1>4, <2>1 DEF Knows, At, Reading, Tagging
  <2>4. call' = [call EXCEPT ![c] = i]
    BY <1>2, <1>4
  <2> QED
    BY <1>1, <2>2, <2>3, <2>4, OneCall DEF CacheInv, Types
<1>5. CASE Ends(c)
  BY <1>1, <1>5, EndsKnowing DEF CacheInv, Types
<1> QED
  BY <1>3, <1>4, <1>5 DEF ReadEntry, ReadStamps

LEMMA StampKnows ==
  ASSUME CacheInv, NEW c \in Calls, StampEntry(c) \/ StampTag(c)
  PROVE  Types' /\ (\A t \in Tags : StampedAt(t)') /\ \A d \in Calls : Knows(call[d], last, now)'
<1>1. UNCHANGED <<now, last, stamp, entry>>
  BY DEF StampEntry, StampTag, redis
<1> PICK j \in CallRec : j = call[c]
  BY DEF CacheInv, Types
<1>2. Knows(j, last, now) /\ DOMAIN call = Calls
  BY DEF CacheInv, Types
<1>3. PICK r \in Replicas : r = j.on
  BY Labels DEF CacheInv, TypeOK, StampEntry, StampTag, At
<1>4. PICK n \in Nat : n = now
  BY DEF CacheInv, Types
<1>5. n + Skew[r] \in Nat /\ Clock(c) = n + Skew[r]
  BY <1>3, <1>4, IsrAssumption DEF Clock
<1>6. CASE StampEntry(c)
  <2> PICK e : e = [lastModified |-> n + Skew[r], tags |-> TagsOf]
    OBVIOUS
  <2>1. e \in Pages
    BY DEF Pages
  <2> PICK i : i = [j EXCEPT !.pc = "store", !.got = e]
    OBVIOUS
  <2>2. i.pc = "store" /\ i.got = e
    BY DEF CallRec
  <2>3. i \in CallRec
    BY <2>1 DEF CallRec, Pcs, NeedsOpen
  <2>4. Knows(i, last, now)
    BY <2>1, <2>2 DEF Knows, Reading, Tagging
  <2>5. call' = [call EXCEPT ![c] = i]
    BY <1>2, <1>4, <1>5, <1>6 DEF StampEntry
  <2> QED
    BY <1>1, <2>3, <2>4, <2>5, OneCall DEF CacheInv, Types
<1>7. CASE StampTag(c)
  <2> PICK m \in Nat : m = n + Skew[r]
    BY <1>5
  <2> PICK i : i = [j EXCEPT !.pc = "hset", !.stamp = m, !.since = n]
    OBVIOUS
  <2>1. i.pc = "hset" /\ i.tag = j.tag /\ i.stamp = m /\ i.since = n
    BY DEF CallRec
  <2>2. i \in CallRec
    BY DEF CallRec, Pcs, NeedsOpen
  <2>3. j.tag \in Tags
    BY <1>2, <1>7 DEF Knows, StampTag, At, Tagging
  <2>4. last[j.tag] <= n
    BY <1>4, <2>3 DEF CacheInv, StampedAt
  <2>5. Knows(i, last, now)
    BY <1>4, <2>1, <2>3, <2>4 DEF Knows, Reading, Tagging
  <2>6. call' = [call EXCEPT ![c] = i]
    BY <1>2, <1>4, <1>5, <1>7 DEF StampTag
  <2> QED
    BY <1>1, <2>2, <2>5, <2>6, OneCall DEF CacheInv, Types
<1> QED
  BY <1>6, <1>7

(* What a later revalidation tells the others.                             *)
LEMMA LaterKnows ==
  ASSUME NEW i \in CallRec, NEW l \in [Tags -> Nat], NEW m \in [Tags -> Nat],
         NEW time \in Nat, NEW after \in Nat, Knows(i, l, time), time <= after,
         \A t \in Tags : l[t] <= m[t],
         i.pc = "hset" => m[i.tag] = l[i.tag]
  PROVE  Knows(i, m, after)
<1>1. i.since \in Nat /\ i.stamp \in Nat
  BY DEF CallRec
<1>2. i.pc \in Reading => i.since = 0 \/ \E t \in Tags : i.since <= m[t]
  BY <1>1 DEF Knows
<1>3. i.pc = "hset" => /\ m[i.tag] <= i.since /\ i.since <= after
                       /\ \E r \in Replicas : i.stamp = i.since + Skew[r]
  <2> SUFFICES ASSUME i.pc = "hset"
               PROVE  /\ m[i.tag] <= i.since /\ i.since <= after
                      /\ \E r \in Replicas : i.stamp = i.since + Skew[r]
    OBVIOUS
  <2> QED
    BY <1>1 DEF Knows
<1> QED
  BY <1>2, <1>3 DEF Knows

LEMMA SetStampKnows ==
  ASSUME CacheInv, NEW c \in Calls, SetStamp(c)
  PROVE  Types' /\ (\A t \in Tags : StampedAt(t)') /\ \A d \in Calls : Knows(call[d], last, now)'
<1>1. CASE UNCHANGED <<stamp, last>>
  BY <1>1, EndsKnowing DEF SetStamp, CacheInv, Types
<1> PICK i \in CallRec : i = call[c]
  BY DEF CacheInv, Types
<1> PICK l \in [Tags -> Nat] : l = last
  BY DEF CacheInv, Types
<1> PICK g \in [Tags -> Nat] : g = stamp
  BY DEF CacheInv, Types
<1> PICK n \in Nat : n = now
  BY DEF CacheInv, Types
<1>2. Knows(i, l, n) /\ i.pc = "hset"
  BY DEF CacheInv, SetStamp, At
<1>3. /\ i.tag \in Tags /\ l[i.tag] <= i.since /\ i.since <= n /\ i.since \in Nat /\ i.stamp \in Nat
      /\ \E r \in Replicas : i.stamp = i.since + Skew[r]
  BY <1>2 DEF Knows, Tagging, NeedsOpen, CallRec
<1>4. CASE /\ stamp' = [stamp EXCEPT ![call[c].tag] = call[c].stamp]
           /\ \/ Overlapped(c) /\ UNCHANGED last
              \/ ~Overlapped(c) /\ last' = [last EXCEPT ![call[c].tag] = call[c].since]
  <2>1. /\ stamp' = [g EXCEPT ![i.tag] = i.stamp]
        /\ \/ last' = l
           \/ ~Overlapped(c) /\ last' = [l EXCEPT ![i.tag] = i.since]
        /\ call' = [call EXCEPT ![c] = Idle] /\ UNCHANGED <<entry, now>>
    BY <1>4 DEF SetStamp, Ends
  <2> PICK m \in [Tags -> Nat] : m = last'
    BY <1>3, <2>1
  <2>2. /\ \A t \in Tags : l[t] <= m[t] /\ (t # i.tag => l[t] = m[t])
        /\ m[i.tag] <= i.since
        /\ Overlapped(c) => m = l
    BY <1>3, <2>1
  <2>3. Types'
    BY <1>3, <2>1, IdleKnows DEF CacheInv, Types
  <2>4. \A t \in Tags : StampedAt(t)'
    <3> SUFFICES ASSUME NEW t \in Tags
                 PROVE  m[t] <= n /\ (m[t] = 0 \/ \E r \in Replicas : stamp'[t] >= m[t] + Skew[r])
      BY <2>1 DEF StampedAt
    <3>1. l[t] <= n /\ (l[t] = 0 \/ \E r \in Replicas : g[t] >= l[t] + Skew[r])
      BY DEF CacheInv, StampedAt
    <3>2. CASE t # i.tag
      BY <2>1, <2>2, <3>1, <3>2
    <3>3. CASE t = i.tag
      <4>1. PICK r \in Replicas : i.stamp = i.since + Skew[r]
        BY <1>3
      <4>2. stamp'[t] = i.stamp /\ m[t] <= i.since /\ Skew[r] \in Nat
        BY <2>1, <2>2, <3>3, IsrAssumption
      <4> QED
        BY <1>3, <4>1, <4>2
    <3> QED
      BY <3>2, <3>3
  <2>5. ASSUME NEW d \in Calls PROVE Knows(call[d], last, now)'
    <3>1. CASE d = c
      BY <2>1, <3>1, IdleKnows DEF CacheInv, Types
    <3>2. CASE d # c
      <4> PICK j \in CallRec : j = call[d]
        BY DEF CacheInv, Types
      <4>1. Knows(j, l, n) /\ call'[d] = j
        BY <2>1, <3>2 DEF CacheInv, Types
      <4>2. j.pc = "hset" => j.tag \in Tags
        BY <4>1 DEF Knows, Tagging
      <4>3. j.pc = "hset" /\ j.tag = i.tag => Overlapped(c)
        BY <3>2 DEF Overlapped, At
      <4>4. j.pc = "hset" => m[j.tag] = l[j.tag]
        BY <2>2, <4>2, <4>3
      <4>5. Knows(j, m, n)
        BY <2>2, <4>1, <4>4, LaterKnows
      <4> QED
        BY <2>1, <4>1, <4>5
    <3> QED
      BY <3>1, <3>2
  <2> QED
    BY <2>3, <2>4, <2>5
<1> QED
  BY <1>1, <1>4 DEF SetStamp

LEMMA TimeKnows ==
  ASSUME CacheInv, Tick \/ Expire \/ Outage \/ Recover \/ (\E r \in Replicas : BackoffOver(r)) \/ UNCHANGED vars
  PROVE  Types' /\ (\A t \in Tags : StampedAt(t)') /\ \A d \in Calls : Knows(call[d], last, now)'
<1>1. UNCHANGED <<call, last, stamp>> /\ (entry' = entry \/ entry' = NoEntry)
      /\ (now' = now \/ now' = now + 1)
  BY DEF Tick, Expire, Outage, Recover, BackoffOver, vars, redis
<1>2. now \in Nat /\ now' \in Nat /\ now <= now'
  BY <1>1 DEF CacheInv, Types
<1>3. Types'
  BY <1>1, <1>2 DEF CacheInv, Types
<1>4. \A t \in Tags : StampedAt(t)'
  <2> SUFFICES ASSUME NEW t \in Tags PROVE StampedAt(t)'
    OBVIOUS
  <2>1. last[t] \in Nat /\ StampedAt(t)
    BY DEF CacheInv, Types
  <2> QED
    BY <1>1, <1>2, <2>1 DEF StampedAt
<1>5. ASSUME NEW d \in Calls PROVE Knows(call[d], last, now)'
  <2> PICK j \in CallRec : j = call[d]
    BY DEF CacheInv, Types
  <2> PICK l \in [Tags -> Nat] : l = last
    BY DEF CacheInv, Types
  <2>1. Knows(j, l, now')
    BY <1>2, LaterKnows DEF CacheInv
  <2> QED
    BY <1>1, <2>1
<1> QED
  BY <1>3, <1>4, <1>5

LEMMA CacheStep == CacheInv /\ [Next]_vars => CacheInv'
<1> SUFFICES ASSUME CacheInv, [Next]_vars PROVE CacheInv'
  OBVIOUS
<1>1. (TypeOK /\ NobodyWaitsInVain)'
  BY ConnectionStep DEF CacheInv
<1>2. ASSUME NEW c \in Calls, Store(c) \/ Delete(c)
      PROVE  Types' /\ (\A t \in Tags : StampedAt(t)') /\ \A d \in Calls : Knows(call[d], last, now)'
  <2>1. At(c, "store") => call[c].got \in Pages
    BY DEF CacheInv, Knows, At
  <2> QED
    BY <1>2, <2>1, EndsKnowing DEF Store, Delete, redis, CacheInv, Types
<1>3. Types' /\ (\A t \in Tags : StampedAt(t)') /\ \A d \in Calls : Knows(call[d], last, now)'
  BY <1>2, GetClientKnows, ConnectionKnows, BeginKnows, ReadKnows, StampKnows, SetStampKnows, TimeKnows
  DEF Next, Advance
<1> QED
  BY <1>1, <1>3 DEF CacheInv

(* A read that ends after its stamps is one that served its page.          *)
LEMMA OnlyServedEnds ==
  ASSUME CacheInv, Next, NEW c \in Calls, At(c, "stamps"), At(c, "idle")'
  PROVE  ~Revalidated(call[c].got)
<1>1. call \in [Calls -> CallRec]
  BY DEF CacheInv, Types
<1>2. ASSUME call'[c].pc = call[c].pc PROVE FALSE
  BY <1>2 DEF At
<1>3. CASE Tick \/ Expire \/ Outage \/ Recover \/ \E r \in Replicas : BackoffOver(r)
  BY <1>2, <1>3 DEF Tick, Expire, Outage, Recover, BackoffOver
<1>4. ASSUME NEW r \in Replicas, Connected(r) \/ ConnectFails(r) \/ Disconnect(r) PROVE FALSE
  BY <1>1, <1>2, <1>4, Labels DEF Connected, ConnectFails, Disconnect, Resolve, CallRec, At
<1>5. ASSUME NEW d \in Calls, NEW r \in Replicas,
             Get(d, r) \/ Refresh(d, r) \/ \E t \in Tags : Revalidate(d, r, t)
      PROVE  FALSE
  BY <1>1, <1>2, <1>5 DEF Get, Refresh, Revalidate, At
<1>6. ASSUME NEW d \in Calls, d # c, Advance(d) PROVE FALSE
  <2>1. call'[c] = call[c]
    BY <1>1, <1>6 DEF Advance, GetClient, ClientOpen, ClientBacksOff, ClientConnects, Goto, Ends, Miss,
         ReadEntry, ReadStamps, StampEntry, Store, Delete, StampTag, SetStamp
  <2> QED
    BY <1>2, <2>1
<1>7. CASE Advance(c)
  <2>1. ReadStamps(c)
    BY <1>7, Labels DEF Advance, GetClient, ReadEntry, StampEntry, Store, Delete, StampTag, SetStamp, At
  <2>2. ~Miss(c)
    BY <1>1 DEF Miss, At, Idle
  <2> QED
    BY <2>1, <2>2 DEF ReadStamps
<1> QED
  BY <1>3, <1>4, <1>5, <1>6, <1>7 DEF Next

(* One call of revalidateTag invalidates everywhere (cache-handler.cjs:    *)
(* 136-149, 188-195): a page stored before it was called, by the clock of  *)
(* the replica that stored it, is served to no request that begins after   *)
(* its stamp is set, for any number of replicas, calls, tags and clocks.   *)
THEOREM StoredBeforeIsGoneHolds == Spec => []StoredBeforeIsGone
<1>1. Init => CacheInv
  <2> SUFFICES ASSUME Init PROVE CacheInv
    OBVIOUS
  <2>1. TypeOK /\ NobodyWaitsInVain
    BY Labels DEF Init, TypeOK, NobodyWaitsInVain, NeedsOpen, Idle
  <2>2. Types
    BY IdleKnows DEF Init, Types
  <2>3. \A t \in Tags : StampedAt(t)
    BY DEF Init, StampedAt
  <2>4. \A c \in Calls : Knows(call[c], last, now)
    BY IdleKnows DEF Init
  <2> QED
    BY <2>1, <2>2, <2>3, <2>4 DEF CacheInv
<1>2. CacheInv /\ [Next]_vars => [\A c \in Calls : At(c, "stamps") /\ At(c, "idle")' => StoredSince(c)]_vars
  <2> SUFFICES ASSUME CacheInv, Next, NEW c \in Calls, At(c, "stamps"), At(c, "idle")'
               PROVE  StoredSince(c)
    OBVIOUS
  <2>1. ~Revalidated(call[c].got)
    BY OnlyServedEnds
  <2> QED
    BY <2>1, ServedInTime
<1> QED
  BY <1>1, <1>2, CacheStep, PTL DEF Spec, StoredBeforeIsGone
=============================================================================
