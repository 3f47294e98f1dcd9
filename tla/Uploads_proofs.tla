--------------------------- MODULE Uploads_proofs ---------------------------
(***************************************************************************)
(* What the app's records say, and that its sweep leaves out no object:    *)
(* for any number of uploads, payloads, page sizes and operations of the   *)
(* app's server, wherever a call or an answer is lost.                     *)
(***************************************************************************)
EXTENDS Uploads, FiniteSetTheorems, TLAPS

Pcs == {"asking", "granted", "putting", "reporting", "over"}
SweepPcs == {"none", "listing", "last", "swept"}

Tokens == {signCompletion(k, p) : k \in Nat, p \in Payloads} \cup {NoGrant}
Upload == [pc : Pcs, key : Nat, token : Tokens, stored : BOOLEAN]

(* The types, of which only these are of use.                              *)
Typed ==
    /\ up \in [Uploads -> Upload]
    /\ putting \subseteq Uploads /\ reporting \subseteq Uploads
    /\ DOMAIN objects \subseteq Nat \ {0} /\ IsFiniteSet(DOMAIN objects)
    /\ sweep \in [pc : SweepPcs, cursor : Nat, keys : SUBSET Nat, owed : SUBSET Nat]

(* A grant is for the key of its upload, with a payload of the app. What   *)
(* is on its way to the bucket has a grant; what is reported is stored.    *)
Granted(u) == up[u].key # 0 /\ \E p \in Payloads : up[u].token = signCompletion(up[u].key, p)
GrantAt(u) ==
    /\ up[u].pc \in {"granted", "putting", "reporting"} \/ u \in putting \/ up[u].stored => Granted(u)
    /\ u \in putting \/ up[u].stored \/ up[u].token # NoGrant => up[u].pc # "asking"
    /\ u \in reporting => up[u].stored

(* The text of a record is that of a payload that was granted for its key, *)
(* and whose bytes are there unless a page reported it by itself.          *)
GrantedText(key, text) ==
    \E u \in Uploads, p \in Payloads :
        /\ up[u].token = signCompletion(key, p) /\ up[u].token # NoGrant /\ p.text = text
        /\ key \in claimed \/ up[u].stored

Records ==
    /\ \A u \in Uploads : GrantAt(u)
    /\ \A key \in reported : key \in DOMAIN db /\ GrantedText(key, db[key])

(* What a sweep owes is in the bucket; it is on record, on the page in     *)
(* hand, or still behind the cursor.                                       *)
Ahead(k) == sweep.pc = "listing" /\ k > sweep.cursor
Owed ==
    /\ sweep.owed \subseteq DOMAIN objects
    /\ sweep.pc = "swept" => sweep.keys = {}
    /\ sweep.pc # "none" => \A k \in sweep.owed : k \in DOMAIN db \cup sweep.keys \/ Ahead(k)

-----------------------------------------------------------------------------
(* A finite set of numbers has a largest one: a set without, smallest of   *)
(* its kind, is left without when one element is taken away.               *)
LEMMA LargestOfMany ==
  ASSUME NEW S, IsFiniteSet(S), S # {}, S \subseteq Nat
  PROVE  \E x \in S : \A y \in S : y <= x
<1> DEFINE Bad == {T \in FiniteSubsetsOf(S) : T # {} /\ \A x \in T : \E y \in T : x < y}
<1>1. IsWellFoundedOn(StrictSubsetOrdering(S), FiniteSubsetsOf(S))
  BY FS_StrictSubsetOrderingWellFounded
<1>2. FiniteSubsetsOf(S) = SUBSET S
  BY FS_FiniteSubsetsOfFinite
<1>3. ASSUME Bad # {} PROVE FALSE
  <2>1. PICK T \in Bad : \A U \in Bad : <<U, T>> \notin StrictSubsetOrdering(S)
    <3>1. Bad \subseteq FiniteSubsetsOf(S)
      OBVIOUS
    <3> HIDE DEF Bad
    <3> QED
      BY <1>1, <1>3, <3>1, WFMin
  <2>2. T \subseteq S /\ T # {} /\ \A x \in T : \E y \in T : x < y
    BY <1>2
  <2>3. PICK x \in T : TRUE
    BY <2>2
  <2>4. PICK y \in T : x < y
    BY <2>2
  <2> DEFINE U == T \ {x}
  <2>5. U \in FiniteSubsetsOf(S) /\ U # {} /\ <<U, T>> \in StrictSubsetOrdering(S)
    <3>1. x \in Nat /\ y \in Nat /\ x # y /\ U \subseteq S /\ U \subseteq T /\ U # T
      BY <2>2, <2>3, <2>4
    <3> QED
      BY <1>2, <2>2, <2>4, <3>1 DEF StrictSubsetOrdering
  <2>6. \A z \in U : \E w \in U : z < w
    <3> SUFFICES ASSUME NEW z \in U PROVE \E w \in U : z < w
      OBVIOUS
    <3>0. z \in Nat /\ y \in Nat /\ x \in Nat
      BY <2>2, <2>3, <2>4
    <3>1. PICK w \in T : z < w
      BY <2>2
    <3>2. CASE w # x
      BY <3>1, <3>2
    <3>3. CASE w = x
      <4>1. y \in U /\ z < y
        BY <2>4, <3>0, <3>1, <3>3
      <4> QED
        BY <4>1
    <3> QED
      BY <3>2, <3>3
  <2>7. U \in Bad
    BY <2>5, <2>6
  <2> QED
    BY <2>1, <2>5, <2>7
<1>4. S \notin Bad /\ S \in FiniteSubsetsOf(S)
  BY <1>2, <1>3
<1>5. PICK x \in S : ~(\E y \in S : x < y)
  BY <1>4
<1>6. \A y \in S : y <= x
  BY <1>5
<1> QED
  BY <1>6

-----------------------------------------------------------------------------

(* A key of the bucket is a number, and not 0.                             *)
LEMMA KeyType ==
  ASSUME NEW u \in Uploads, NEW suffix \in BOOLEAN
  PROVE  /\ Key(Pathname[u], suffix, u) \in Nat \ {0}
         /\ Key(Pathname[u], suffix, Server) \in Nat \ {0}
<1>1. Pathname[u] \in {"a", "/a", "b"} /\ u \in Nat
  BY UploadsAssumption
<1>2. normalizePathname(Pathname[u]) \in 1..2
  BY <1>1 DEF normalizePathname
<1> QED
  BY <1>1, <1>2 DEF Key, withRandomSuffix, Server

-----------------------------------------------------------------------------
(* The initial states.                                                     *)
LEMMA InitTyped == Init => Typed /\ Records /\ Owed
<1> SUFFICES ASSUME Init PROVE Typed /\ Records /\ Owed
  OBVIOUS
<1>1. up \in [Uploads -> Upload]
  <2>1. NoGrant \in Tokens
    BY DEF Tokens
  <2>2. [pc |-> "asking", key |-> 0, token |-> NoGrant, stored |-> FALSE] \in Upload
    BY <2>1 DEF Upload, Pcs
  <2> QED
    BY <2>2 DEF Init
<1>2. DOMAIN objects = {} /\ IsFiniteSet(DOMAIN objects)
  BY FS_EmptySet DEF Init
<1>3. sweep = [pc |-> "none", cursor |-> 0, keys |-> {}, owed |-> {}]
  BY DEF Init
<1>4. Typed
  <2>1. putting = {} /\ reporting = {}
    BY DEF Init
  <2> QED
    BY <1>1, <1>2, <1>3, <2>1 DEF Typed, SweepPcs
<1>5. ASSUME NEW u \in Uploads PROVE GrantAt(u)
  <2>1. up[u].token = NoGrant /\ ~up[u].stored /\ u \notin putting /\ u \notin reporting /\ up[u].pc = "asking"
    BY <1>1 DEF Init
  <2> QED
    BY <2>1 DEF GrantAt
<1>6. Records
  BY <1>5 DEF Records, Init
<1> QED
  BY <1>2, <1>3, <1>4, <1>6 DEF Owed

-----------------------------------------------------------------------------
(* A step of the browser moves one upload, and leaves its grant alone      *)
(* unless it is asking for one.                                            *)
Others(u) == \A v \in Uploads \ {u} : up'[v] = up[v]

LEMMA Moves ==
  ASSUME NEW u \in Uploads, Typed, NEW pc \in Pcs, Goto(u, pc)
  PROVE  /\ up' \in [Uploads -> Upload] /\ Others(u) /\ up'[u].pc = pc
         /\ up'[u].key = up[u].key /\ up'[u].token = up[u].token /\ up'[u].stored = up[u].stored
<1>1. up \in [Uploads -> Upload] /\ up[u] \in Upload
  BY DEF Typed
<1>2. PICK t : t = [up[u] EXCEPT !.pc = pc]
  OBVIOUS
<1>3. t \in Upload /\ t.pc = pc /\ t.key = up[u].key /\ t.token = up[u].token /\ t.stored = up[u].stored
  BY <1>1, <1>2 DEF Upload
<1>4. up' = [up EXCEPT ![u] = t]
  BY <1>1, <1>2 DEF Goto
<1>5. up'[u] = t /\ Others(u)
  BY <1>1, <1>4 DEF Others
<1>6. up' \in [Uploads -> Upload]
  BY <1>1, <1>3, <1>4
<1> QED
  BY <1>3, <1>5, <1>6

(* The steps that only say where the upload is.                            *)
LEMMA PassesOn ==
  ASSUME NEW u \in Uploads, Typed, Records,
         Refuse(u) \/ Put(u) \/ PutAnswered(u) \/ PutFails(u) \/ Return(u) \/ Close(u)
  PROVE  Typed' /\ Records' /\ UNCHANGED <<objects, db, sweep, reported, claimed>>
<1>1. PICK pc \in Pcs \ {"asking"} : Goto(u, pc) /\ (pc # "over" => up[u].pc \in {"granted", "putting"})
  BY DEF Refuse, Put, PutAnswered, PutFails, Return, Close, Pcs
<1>2. UNCHANGED <<objects, db, sweep, reported, claimed>>
  BY DEF Refuse, Put, PutAnswered, PutFails, Return, Close
<1>3. /\ putting \subseteq putting' /\ putting' \subseteq putting \cup {u}
      /\ reporting \subseteq reporting' /\ reporting' \subseteq reporting \cup {u}
      /\ u \in putting' => u \in putting \/ up[u].pc = "granted"
      /\ u \in reporting' => u \in reporting \/ up[u].stored
  BY DEF Refuse, Put, PutAnswered, PutFails, Return, Close
<1>4. /\ up' \in [Uploads -> Upload] /\ Others(u) /\ up'[u].pc = pc
      /\ up'[u].key = up[u].key /\ up'[u].token = up[u].token /\ up'[u].stored = up[u].stored
  BY <1>1, Moves
<1>5. Typed'
  BY <1>2, <1>3, <1>4 DEF Typed
<1>6. ASSUME NEW v \in Uploads PROVE GrantAt(v)'
  <2>1. GrantAt(v) /\ GrantAt(u)
    BY DEF Records
  <2>2. CASE v = u
    BY <1>1, <1>3, <1>4, <2>1, <2>2 DEF GrantAt, Granted
  <2>3. CASE v # u
    <3>1. up'[v] = up[v] /\ (v \in putting' => v \in putting) /\ (v \in reporting' => v \in reporting)
      BY <1>3, <1>4, <2>3 DEF Others
    <3> QED
      BY <2>1, <3>1 DEF GrantAt, Granted
  <2> QED
    BY <2>2, <2>3
<1>7. ASSUME NEW v \in Uploads
      PROVE up'[v].stored = up[v].stored /\ up'[v].key = up[v].key /\ up'[v].token = up[v].token
  BY <1>4 DEF Others
<1>8. Records'
  BY <1>2, <1>6, <1>7 DEF Records, GrantedText
<1> QED
  BY <1>2, <1>5, <1>8

(* The grant: the payload is one of the app's, the key that of the name.   *)
LEMMA GrantKeeps ==
  ASSUME NEW u \in Uploads, NEW p \in Payloads, NEW suffix \in BOOLEAN, Typed, Records, Grant(u, p, suffix)
  PROVE  Typed' /\ Records' /\ UNCHANGED <<objects, db, sweep, reported, claimed>>
<1> DEFINE token(k) == signCompletion(k, p)
<1>1. PICK key \in Nat \ {0} : up' = [up EXCEPT ![u].pc = "granted", ![u].key = key, ![u].token = token(key)]
  BY KeyType DEF Grant
<1>2. up \in [Uploads -> Upload] /\ up[u] \in Upload
  BY DEF Typed
<1>3. PICK t : t = [up[u] EXCEPT !.pc = "granted", !.key = key, !.token = token(key)]
  OBVIOUS
<1>4. t.pc = "granted" /\ t.key = key /\ t.token = signCompletion(key, p) /\ t.stored = up[u].stored
  BY <1>2, <1>3 DEF Upload
<1>5. t \in Upload
  <2>1. token(key) \in Tokens
    BY DEF Tokens
  <2> QED
    BY <1>2, <1>3, <2>1 DEF Upload, Pcs
<1>6. up' = [up EXCEPT ![u] = t]
  BY <1>1, <1>2, <1>3
<1>7. up'[u] = t /\ Others(u) /\ up' \in [Uploads -> Upload]
  BY <1>2, <1>5, <1>6 DEF Others
<1>8. up[u].pc = "asking" /\ UNCHANGED <<putting, reporting, objects, db, sweep, reported, claimed>>
  BY DEF Grant
<1>9. Typed'
  BY <1>7, <1>8 DEF Typed
<1>10. GrantAt(u)
  BY DEF Records
<1>11. ~up[u].stored /\ u \notin putting /\ u \notin reporting
  BY <1>8, <1>10 DEF GrantAt
<1>12. ASSUME NEW v \in Uploads PROVE GrantAt(v)'
  <2>1. CASE v = u
    BY <1>4, <1>7, <1>8, <1>11, <2>1 DEF GrantAt, Granted
  <2>2. CASE v # u
    <3>1. up'[v] = up[v] /\ GrantAt(v)
      BY <1>7, <2>2 DEF Others, Records
    <3> QED
      BY <1>8, <3>1 DEF GrantAt, Granted
  <2> QED
    BY <2>1, <2>2
<1>13. \A v \in Uploads : up[v].token # NoGrant => up'[v] = up[v]
  BY <1>7, <1>8, <1>10 DEF Others, GrantAt
<1>14. Records'
  BY <1>8, <1>12, <1>13 DEF Records, GrantedText
<1> QED
  BY <1>8, <1>9, <1>14

(* The bucket gets one more object, or one that was there anew.            *)
LEMMA ObjectAdded ==
  ASSUME NEW k \in Nat \ {0}, NEW x, IsFiniteSet(DOMAIN objects), DOMAIN objects \subseteq Nat \ {0},
         objects' = With(objects, k, x)
  PROVE  /\ DOMAIN objects' = DOMAIN objects \cup {k}
         /\ DOMAIN objects' \subseteq Nat \ {0} /\ IsFiniteSet(DOMAIN objects')
<1>1. DOMAIN objects' = DOMAIN objects \cup {k}
  BY DEF With
<1>2. IsFiniteSet(DOMAIN objects \cup {k})
  BY FS_AddElement
<1> QED
  BY <1>1, <1>2

(* What is owed stays accounted for while the bucket and the records grow. *)
LEMMA OwedStays ==
  ASSUME Owed, UNCHANGED sweep, DOMAIN objects \subseteq DOMAIN objects', DOMAIN db \subseteq DOMAIN db'
  PROVE  Owed'
<1>1. UNCHANGED <<sweep.owed, sweep.pc, sweep.keys, sweep.cursor>>
  OBVIOUS
<1> QED
  BY <1>1 DEF Owed, Ahead

LEMMA StoredKeeps ==
  ASSUME NEW u \in Uploads, Typed, Records, Owed, Stored(u)
  PROVE  Typed' /\ Records' /\ Owed'
<1>1. up \in [Uploads -> Upload] /\ up[u] \in Upload /\ up[u].key \in Nat \ {0}
  <2>1. u \in putting /\ GrantAt(u)
    BY DEF Stored, Records
  <2> QED
    BY <2>1 DEF Typed, Upload, GrantAt, Granted
<1>2. PICK t : t = [up[u] EXCEPT !.stored = TRUE]
  OBVIOUS
<1>3. t.pc = up[u].pc /\ t.key = up[u].key /\ t.token = up[u].token /\ t.stored
  BY <1>1, <1>2 DEF Upload
<1>4. t \in Upload
  BY <1>1, <1>2 DEF Upload
<1>5. up' = [up EXCEPT ![u] = t]
  BY <1>1, <1>2 DEF Stored
<1>6. up'[u] = t /\ Others(u) /\ up' \in [Uploads -> Upload]
  BY <1>1, <1>4, <1>5 DEF Others
<1>7. u \in putting /\ putting' = putting \ {u} /\ UNCHANGED <<reporting, db, sweep, reported, claimed>>
  BY DEF Stored
<1>8. /\ DOMAIN objects' = DOMAIN objects \cup {up[u].key}
      /\ DOMAIN objects' \subseteq Nat \ {0} /\ IsFiniteSet(DOMAIN objects')
  BY <1>1, ObjectAdded DEF Stored, Typed
<1>9. Typed'
  BY <1>6, <1>7, <1>8 DEF Typed
<1>10. ASSUME NEW v \in Uploads PROVE GrantAt(v)'
  <2>1. GrantAt(v) /\ GrantAt(u)
    BY DEF Records
  <2>2. CASE v = u
    BY <1>3, <1>6, <1>7, <2>1, <2>2 DEF GrantAt, Granted
  <2>3. CASE v # u
    <3>1. up'[v] = up[v]
      BY <1>6, <2>3 DEF Others
    <3> QED
      BY <1>7, <2>1, <3>1 DEF GrantAt, Granted
  <2> QED
    BY <2>2, <2>3
<1>11. ASSUME NEW v \in Uploads
       PROVE (up[v].stored => up'[v].stored) /\ up'[v].key = up[v].key /\ up'[v].token = up[v].token
  BY <1>3, <1>6 DEF Others
<1>12. Records'
  BY <1>7, <1>10, <1>11 DEF Records, GrantedText
<1>13. Owed'
  BY <1>7, <1>8, OwedStays
<1> QED
  BY <1>9, <1>12, <1>13

(* An accepted report was signed for its key and its payload.              *)
LEMMA AcceptKeeps ==
  ASSUME NEW u \in Uploads, NEW key, NEW p \in Payloads, Typed, Records, Owed,
         Accept(up[u].token, key, p), up[u].token # NoGrant,
         UNCHANGED <<up, putting, objects, sweep>>, reporting' \subseteq reporting,
         claimed' \ {key} = claimed \ {key}, key \in claimed' \/ up[u].stored
  PROVE  Typed' /\ Records' /\ Owed'
<1>1. up[u].token = signCompletion(key, p) /\ reported' = reported \cup {key}
  BY DEF Accept, verifyCompletion
<1>2. /\ DOMAIN db' = DOMAIN db \cup {key} /\ db'[key] = p.text
      /\ \A j \in DOMAIN db \ {key} : db'[j] = db[j]
  <2>1. db' = set(db, key, p, Plain)
    BY DEF Accept
  <2> QED
    BY <2>1 DEF set, Accepts, Plain, encode, With
<1>3. Typed'
  BY DEF Typed
<1>4. \A v \in Uploads : GrantAt(v)'
  BY DEF Records, GrantAt, Granted
<1>5. ASSUME NEW j \in reported' PROVE j \in DOMAIN db' /\ GrantedText(j, db[j])'
  <2>1. CASE j = key
    BY <1>1, <1>2, <2>1 DEF GrantedText
  <2>2. CASE j # key
    <3>1. j \in reported /\ (j \in claimed <=> j \in claimed')
      BY <1>1, <2>2
    <3>2. j \in DOMAIN db /\ GrantedText(j, db[j])
      BY <3>1 DEF Records
    <3> QED
      BY <1>2, <2>2, <3>1, <3>2 DEF GrantedText
  <2> QED
    BY <2>1, <2>2
<1>6. Records'
  BY <1>4, <1>5 DEF Records
<1>7. Owed'
  BY <1>2, OwedStays
<1> QED
  BY <1>3, <1>6, <1>7

(* The report of upload() comes after the bytes were stored.               *)
LEMMA CompleteKeeps ==
  ASSUME NEW u \in Uploads, Typed, Records, Owed, Complete(u)
  PROVE  Typed' /\ Records' /\ Owed'
<1>1. /\ u \in reporting /\ reporting' = reporting \ {u} /\ UNCHANGED <<up, putting, objects, sweep>>
      /\ Accept(up[u].token, up[u].key, ClientPayload[u]) /\ claimed' = claimed \ {up[u].key}
  BY DEF Complete
<1>2. up[u].stored /\ Granted(u)
  BY <1>1 DEF Records, GrantAt
<1>3. up[u].token # NoGrant
  <2>1. up[u].token[1] = up[u].key /\ up[u].key # 0
    BY <1>2 DEF Granted, signCompletion
  <2>2. NoGrant[1] = 0
    BY DEF NoGrant
  <2> QED
    BY <2>1, <2>2
<1>4. ClientPayload[u] \in Payloads
  BY UploadsAssumption
<1>5. PICK key : key = up[u].key
  OBVIOUS
<1> QED
  BY <1>1, <1>2, <1>3, <1>4, <1>5, AcceptKeeps

LEMMA ReportDirectlyKeeps ==
  ASSUME NEW u \in Uploads, NEW key \in Keys, NEW p \in Payloads, Typed, Records, Owed,
         ReportDirectly(u, key, p)
  PROVE  Typed' /\ Records' /\ Owed'
BY AcceptKeeps DEF ReportDirectly

LEMMA BrowserKeeps ==
  ASSUME NEW u \in Uploads, Typed, Records, Owed, Browser(u)
  PROVE  Typed' /\ Records' /\ Owed'
<1>1. CASE \E p \in Payloads, suffix \in BOOLEAN : Grant(u, p, suffix)
  BY <1>1, GrantKeeps, OwedStays
<1>2. CASE Refuse(u) \/ Put(u) \/ PutAnswered(u) \/ PutFails(u) \/ Return(u) \/ Close(u)
  BY <1>2, PassesOn, OwedStays
<1>3. CASE Stored(u)
  BY <1>3, StoredKeeps
<1>4. CASE NotStored(u) \/ Unreported(u)
  <2>1. /\ putting' \subseteq putting /\ reporting' \subseteq reporting
        /\ UNCHANGED <<up, objects, db, sweep, reported, claimed>>
    BY <1>4 DEF NotStored, Unreported
  <2>2. \A v \in Uploads : GrantAt(v)'
    BY <2>1 DEF Records, GrantAt, Granted
  <2> QED
    BY <2>1, <2>2, OwedStays DEF Typed, Records, GrantedText
<1>5. CASE Complete(u)
  BY <1>5, CompleteKeeps
<1>6. CASE \E key \in Keys, p \in Payloads : ReportDirectly(u, key, p)
  BY <1>6, ReportDirectlyKeeps
<1> QED
  BY <1>1, <1>2, <1>3, <1>4, <1>5, <1>6 DEF Browser

-----------------------------------------------------------------------------
(* A page is a prefix of what follows the cursor: the keys with fewer than *)
(* PageSize before them. What it leaves lies behind its largest key.       *)
LEMMA PageIsPrefix ==
  ASSUME IsFiniteSet(DOMAIN objects), DOMAIN objects \subseteq Nat, NEW cursor \in Nat,
         NEW page, page = list(cursor), NEW k \in DOMAIN objects, k > cursor, k \notin page.keys
  PROVE  page.hasMore /\ k > Largest(page.keys, cursor)
<1> DEFINE rest == After(cursor)
           Before(j) == {i \in rest : i < j}
<1>1. /\ page.keys = {j \in rest : Cardinality(Before(j)) < PageSize}
      /\ page.hasMore <=> page.keys # rest
  BY DEF list
<1>2. k \in rest /\ rest \subseteq Nat /\ IsFiniteSet(rest) /\ PageSize \in Nat
  BY FS_Subset, UploadsAssumption DEF After
<1> HIDE DEF rest
<1>3. \A j \in rest : IsFiniteSet(Before(j)) /\ Cardinality(Before(j)) \in Nat
  BY <1>2, FS_Subset, FS_CardinalityType
<1>4. \A j \in page.keys : j < k
  <2> SUFFICES ASSUME NEW j \in page.keys, ~(j < k) PROVE FALSE
    OBVIOUS
  <2>1. j \in rest /\ j \in Nat /\ k \in Nat /\ k <= j /\ Cardinality(Before(j)) < PageSize
    BY <1>1, <1>2
  <2>2. Before(k) \subseteq Before(j)
    BY <1>2, <2>1
  <2>3. Cardinality(Before(k)) <= Cardinality(Before(j))
    <3>1. IsFiniteSet(Before(j))
      BY <1>3, <2>1
    <3> HIDE DEF Before
    <3> QED
      BY <2>2, <3>1, FS_Subset
  <2>4. Cardinality(Before(k)) < PageSize
    <3> DEFINE m == Cardinality(Before(k))
               n == Cardinality(Before(j))
    <3>1. m \in Nat /\ n \in Nat /\ PageSize \in Nat
      BY <1>2, <1>3, <2>1
    <3>2. m <= n /\ n < PageSize
      BY <2>1, <2>3
    <3> HIDE DEF m, n
    <3>3. m < PageSize
      BY <3>1, <3>2
    <3> QED
      BY <3>3 DEF m
  <2> QED
    BY <1>1, <1>2, <2>4
<1>5. CASE page.keys = {}
  BY <1>1, <1>2, <1>5 DEF Largest
<1>6. CASE page.keys # {}
  <2>1. page.keys \subseteq rest
    BY <1>1
  <2>2. IsFiniteSet(page.keys) /\ page.keys \subseteq Nat
    BY <1>2, <2>1, FS_Subset
  <2>3. \E x \in page.keys : \A y \in page.keys : y <= x
    BY <1>6, <2>2, LargestOfMany
  <2>4. Largest(page.keys, cursor) \in page.keys
    BY <1>6, <2>3 DEF Largest
  <2> QED
    BY <1>1, <1>2, <1>4, <2>4
<1> QED
  BY <1>5, <1>6

LEMMA PageType ==
  ASSUME IsFiniteSet(DOMAIN objects), DOMAIN objects \subseteq Nat, NEW cursor \in Nat,
         NEW page, page = list(cursor)
  PROVE  page.keys \subseteq Nat /\ Largest(page.keys, cursor) \in Nat
<1>1. page.keys \subseteq DOMAIN objects
  BY DEF list, After
<1>2. IsFiniteSet(page.keys) /\ page.keys \subseteq Nat
  BY <1>1, FS_Subset
<1>3. CASE page.keys = {}
  BY <1>2, <1>3 DEF Largest
<1>4. CASE page.keys # {}
  <2>1. \E x \in page.keys : \A y \in page.keys : y <= x
    BY <1>2, <1>4, LargestOfMany
  <2> QED
    BY <1>2, <1>4, <2>1 DEF Largest
<1> QED
  BY <1>3, <1>4

(* The next page holds what is owed, unless it lies behind it.             *)
LEMMA ListPageKeeps ==
  ASSUME Typed, Records, Owed, ListPage
  PROVE  Typed' /\ Records' /\ Owed'
<1>1. PICK page : page = list(sweep.cursor)
  OBVIOUS
<1>2. /\ sweep.pc = "listing" /\ sweep.keys = {} /\ UNCHANGED <<up, putting, reporting, objects, db, reported, claimed>>
      /\ sweep' = [sweep EXCEPT !.keys = page.keys, !.cursor = Largest(page.keys, @),
                                !.pc = IF page.hasMore THEN "listing" ELSE "last"]
  BY <1>1 DEF ListPage
<1>3. sweep \in [pc : SweepPcs, cursor : Nat, keys : SUBSET Nat, owed : SUBSET Nat]
  BY DEF Typed
<1>4. IsFiniteSet(DOMAIN objects) /\ DOMAIN objects \subseteq Nat /\ sweep.cursor \in Nat
  BY <1>3 DEF Typed
<1>5. page.keys \subseteq Nat /\ Largest(page.keys, sweep.cursor) \in Nat
  BY <1>1, <1>4, PageType
<1>6. /\ sweep'.keys = page.keys /\ sweep'.cursor = Largest(page.keys, sweep.cursor)
      /\ sweep'.pc = IF page.hasMore THEN "listing" ELSE "last"
      /\ sweep'.owed = sweep.owed
  BY <1>2, <1>3
<1>7. sweep' \in [pc : SweepPcs, cursor : Nat, keys : SUBSET Nat, owed : SUBSET Nat]
  BY <1>2, <1>3, <1>5 DEF SweepPcs
<1>8. Typed'
  BY <1>2, <1>7 DEF Typed
<1>9. Records'
  BY <1>2 DEF Records, GrantAt, Granted, GrantedText
<1>10. ASSUME NEW k \in sweep.owed, k \notin DOMAIN db, k \notin page.keys
       PROVE  page.hasMore /\ k > Largest(page.keys, sweep.cursor)
  <2>1. k \in DOMAIN objects /\ k > sweep.cursor
    BY <1>2, <1>10 DEF Owed, Ahead
  <2> QED
    BY <1>1, <1>4, <1>10, <2>1, PageIsPrefix
<1>11. Owed'
  BY <1>2, <1>6, <1>10 DEF Owed, Ahead
<1> QED
  BY <1>8, <1>9, <1>11

-----------------------------------------------------------------------------
(* Deleting takes a key from the records and from what is owed, whatever   *)
(* the bucket does with it.                                                *)
LEMMA DeleteKeeps ==
  ASSUME NEW ks, Typed, Records, Owed, Delete(ks)
  PROVE  Typed' /\ Records' /\ Owed'
<1>1. PICK gone \in SUBSET ks : objects' = [k \in DOMAIN objects \ gone |-> objects[k]]
  BY DEF Delete
<1>2. UNCHANGED <<up, putting, reporting>> /\ reported' = reported \ ks /\ claimed' = claimed \ ks
  BY DEF Delete
<1>3. DOMAIN db' = DOMAIN db \ ks /\ \A j \in DOMAIN db \ ks : db'[j] = db[j]
  BY DEF Delete, del
<1>4. sweep \in [pc : SweepPcs, cursor : Nat, keys : SUBSET Nat, owed : SUBSET Nat]
  BY DEF Typed
<1>5. /\ sweep'.pc = sweep.pc /\ sweep'.cursor = sweep.cursor /\ sweep'.keys = sweep.keys
      /\ sweep'.owed = sweep.owed \ ks
      /\ sweep' \in [pc : SweepPcs, cursor : Nat, keys : SUBSET Nat, owed : SUBSET Nat]
  BY <1>4 DEF Delete
<1>6. DOMAIN objects' = DOMAIN objects \ gone /\ IsFiniteSet(DOMAIN objects')
  BY <1>1, FS_Subset DEF Typed
<1>7. Typed'
  BY <1>2, <1>5, <1>6 DEF Typed
<1>8. Records'
  BY <1>2, <1>3 DEF Records, GrantAt, Granted, GrantedText
<1>9. Owed'
  BY <1>3, <1>5, <1>6 DEF Owed, Ahead
<1> QED
  BY <1>7, <1>8, <1>9

(* The sweep adds a record where there is none, and takes the key off the  *)
(* page.                                                                   *)
LEMMA ReconcileKeeps ==
  ASSUME NEW k \in Keys, Typed, Records, Owed, Reconcile(k)
  PROVE  Typed' /\ Records' /\ Owed'
<1>1. k \in sweep.keys /\ UNCHANGED <<up, putting, reporting, objects, reported, claimed>>
  BY DEF Reconcile
<1>2. DOMAIN db' = DOMAIN db \cup {k} /\ \A j \in DOMAIN db : db'[j] = db[j]
  <2>1. db' = set(db, k, Value(Swept, TRUE), OnlyNew)
    BY DEF Reconcile
  <2> QED
    BY <2>1 DEF set, Accepts, OnlyNew, With
<1>3. sweep \in [pc : SweepPcs, cursor : Nat, keys : SUBSET Nat, owed : SUBSET Nat]
  BY DEF Typed
<1>4. /\ sweep'.pc = sweep.pc /\ sweep'.cursor = sweep.cursor /\ sweep'.keys = sweep.keys \ {k}
      /\ sweep'.owed = sweep.owed
      /\ sweep' \in [pc : SweepPcs, cursor : Nat, keys : SUBSET Nat, owed : SUBSET Nat]
  BY <1>3 DEF Reconcile
<1>5. Typed'
  BY <1>1, <1>4 DEF Typed
<1>6. Records'
  BY <1>1, <1>2 DEF Records, GrantAt, Granted, GrantedText
<1>7. Owed'
  BY <1>1, <1>2, <1>4 DEF Owed, Ahead
<1> QED
  BY <1>5, <1>6, <1>7

LEMMA AppServerKeeps ==
  ASSUME Typed, Records, Owed, AppServer
  PROVE  Typed' /\ Records' /\ Owed'
<1> DEFINE Sweeps == [pc : SweepPcs, cursor : Nat, keys : SUBSET Nat, owed : SUBSET Nat]
<1>1. ASSUME NEW k \in Nat \ {0}, NEW x, objects' = With(objects, k, x),
             UNCHANGED <<up, putting, reporting, db, sweep, reported, claimed>>
      PROVE  Typed' /\ Records' /\ Owed'
  <2>1. /\ DOMAIN objects' = DOMAIN objects \cup {k}
        /\ DOMAIN objects' \subseteq Nat \ {0} /\ IsFiniteSet(DOMAIN objects')
    BY <1>1, ObjectAdded DEF Typed
  <2>2. Typed'
    BY <1>1, <2>1 DEF Typed
  <2>3. Records'
    BY <1>1 DEF Records, GrantAt, Granted, GrantedText
  <2>4. Owed'
    BY <1>1, <2>1, OwedStays
  <2> QED
    BY <2>2, <2>3, <2>4
<1>2. CASE \E pathname \in {Pathname[u] : u \in Uploads}, suffix \in BOOLEAN : ServerPut(pathname, suffix)
  <2>1. PICK u \in Uploads, suffix \in BOOLEAN : ServerPut(Pathname[u], suffix)
    BY <1>2
  <2>2. Key(Pathname[u], suffix, Server) \in Nat \ {0}
    BY KeyType
  <2> QED
    BY <1>1, <2>1, <2>2 DEF ServerPut
<1>3. CASE \E from, to \in Keys : copy(from, to)
  <2>1. PICK from \in Keys, to \in Keys : copy(from, to)
    BY <1>3
  <2>2. to \in Nat \ {0}
    BY UploadsAssumption DEF Keys, Server
  <2> QED
    BY <1>1, <2>1, <2>2 DEF copy
<1>4. CASE \E ks \in SUBSET DOMAIN objects \ {{}} : Delete(ks)
  BY <1>4, DeleteKeeps
<1>5. CASE SweepStarts
  <2>1. sweep' = [pc |-> "listing", cursor |-> 0, keys |-> {}, owed |-> DOMAIN objects]
    BY <1>5 DEF SweepStarts
  <2>2. UNCHANGED <<up, putting, reporting, objects, db, reported, claimed>>
    BY <1>5 DEF SweepStarts
  <2>3. sweep' \in Sweeps
    BY <2>1 DEF Typed, SweepPcs
  <2>4. Typed'
    BY <2>2, <2>3 DEF Typed
  <2>5. Records'
    BY <2>2 DEF Records, GrantAt, Granted, GrantedText
  <2>6. Owed'
    <3>1. ASSUME NEW k \in DOMAIN objects PROVE k > 0
      BY <2>1 DEF Typed
    <3> QED
      BY <2>1, <2>2, <3>1 DEF Owed, Ahead
  <2> QED
    BY <2>4, <2>5, <2>6
<1>6. CASE ListPage
  BY <1>6, ListPageKeeps
<1>7. CASE \E k \in Keys : Reconcile(k)
  BY <1>7, ReconcileKeeps
<1>8. CASE SweepEnds
  <2>1. /\ sweep.pc = "last" /\ sweep.keys = {} /\ sweep' = [sweep EXCEPT !.pc = "swept"]
        /\ UNCHANGED <<up, putting, reporting, objects, db, reported, claimed>>
    BY <1>8 DEF SweepEnds
  <2>2. sweep \in Sweeps
    BY DEF Typed
  <2>3. /\ sweep' \in Sweeps /\ sweep'.pc = "swept" /\ sweep'.keys = {} /\ sweep'.owed = sweep.owed
    BY <2>1, <2>2 DEF SweepPcs
  <2>4. Typed'
    BY <2>1, <2>3 DEF Typed
  <2>5. Records'
    BY <2>1 DEF Records, GrantAt, Granted, GrantedText
  <2>6. Owed'
    BY <2>1, <2>3 DEF Owed, Ahead
  <2> QED
    BY <2>4, <2>5, <2>6
<1> QED
  BY <1>2, <1>3, <1>4, <1>5, <1>6, <1>7, <1>8 DEF AppServer

-----------------------------------------------------------------------------
(* The three together are inductive.                                       *)
LEMMA UploadsInvariant == Spec => [](Typed /\ Records /\ Owed)
<1>1. Typed /\ Records /\ Owed /\ [Next]_vars => (Typed /\ Records /\ Owed)'
  <2>1. CASE UNCHANGED vars
    BY <2>1 DEF vars, Typed, Records, GrantAt, Granted, GrantedText, Owed, Ahead
  <2> QED
    BY <2>1, BrowserKeeps, AppServerKeeps DEF Next
<1> QED
  BY <1>1, InitTyped, PTL DEF Spec

(* RecordIsGranted, for every value of the constants: what                 *)
(* onUploadCompleted recorded of an object reads back as a payload that    *)
(* the authorisation returned for that very key, whoever sent the report,  *)
(* and no sweep or later grant of another upload changes that.             *)
THEOREM RecordIsGrantedHolds == Spec => []RecordIsGranted
<1>1. Records => RecordIsGranted
  <2> SUFFICES ASSUME Records, NEW key \in reported
               PROVE  /\ key \in DOMAIN db
                      /\ \E u \in Uploads, payload \in Payloads :
                           /\ up[u].token = signCompletion(key, payload)
                           /\ get(db, key).text = payload.text
                           /\ payload.text \notin JsonTexts => get(db, key) = payload
                           /\ key \in claimed \/ up[u].stored
    BY DEF RecordIsGranted
  <2>1. key \in DOMAIN db /\ get(db, key) = Value(db[key], db[key] \notin JsonTexts)
    BY DEF Records, get, decode
  <2>2. PICK u \in Uploads, p \in Payloads :
          /\ up[u].token = signCompletion(key, p) /\ p.text = db[key]
          /\ key \in claimed \/ up[u].stored
    BY DEF Records, GrantedText
  <2>3. get(db, key).text = db[key]
    BY <2>1 DEF Value
  <2>4. ASSUME p.text \notin JsonTexts PROVE get(db, key) = p
    <3>1. p = Value(p.text, TRUE)
      BY <2>4, UploadsAssumption
    <3> QED
      BY <2>1, <2>2, <2>4, <3>1
  <2> QED
    BY <2>1, <2>2, <2>3, <2>4
<1> QED
  BY <1>1, UploadsInvariant, PTL

(* SweepCatchesUp: a sweep over list() that has ended has left out no      *)
(* object that was there when it began, whatever the size of its pages and *)
(* whatever browsers and the app's server did between two of them.         *)
THEOREM SweepCatchesUpHolds == Spec => []SweepCatchesUp
<1>1. Owed => SweepCatchesUp
  BY DEF Owed, SweepCatchesUp, Ahead
<1> QED
  BY <1>1, UploadsInvariant, PTL
=============================================================================
