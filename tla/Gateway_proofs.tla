---------------------------- MODULE Gateway_proofs --------------------------
(***************************************************************************)
(* The laws of the ledger, and proofs about the gateway for every number   *)
(* of runs, steps and crashes: what holds however many handlers overlap    *)
(* and whatever the disk does (the types, the write-ahead rule; and, in    *)
(* the last part, that what is recorded is real, that free steps follow    *)
(* the purchase, that an "ok" is on file), and what holds for callers that *)
(* wait for every answer (one server, never forgotten, its credentials     *)
(* kept, its record final).                                                *)
(***************************************************************************)
EXTENDS Gateway, SequenceTheorems, TLAPS

-----------------------------------------------------------------------------
(* The laws of the ledger, for rows of any kind with a key.                *)

(* An empty ledger says nothing about any key.                             *)
LEMMA PriorOfEmpty == \A k : Prior(<<>>, k) = {}
BY DEF Prior, IsLatest

(* findLast after an append: the new row if it is about the key, else what *)
(* it was before.  This is the comment in claim(), "latest row wins".      *)
LEMMA PriorOfAppend ==
  ASSUME NEW S, NEW rows \in Seq(S), NEW r \in S, NEW k
  PROVE  Prior(Append(rows, r), k) = IF r.key = k THEN {r} ELSE Prior(rows, k)
<1> DEFINE new == Append(rows, r)
<1>1. Len(rows) \in Nat /\ Len(new) = Len(rows) + 1
  OBVIOUS
<1>2. new[Len(rows) + 1] = r /\ \A i \in 1..Len(rows) : new[i] = rows[i]
  OBVIOUS
<1>3. CASE r.key = k
  <2>1. IsLatest(new, k, Len(rows) + 1)
    BY <1>1, <1>2, <1>3 DEF IsLatest
  <2>2. \A i : IsLatest(new, k, i) => i = Len(rows) + 1
    BY <1>1, <1>2, <1>3 DEF IsLatest
  <2> QED
    BY <1>1, <1>2, <1>3, <2>1, <2>2 DEF Prior
<1>4. CASE r.key # k
  <2>1. \A i : IsLatest(new, k, i) <=> IsLatest(rows, k, i)
    BY <1>1, <1>2, <1>4 DEF IsLatest
  <2>2. \A i : IsLatest(rows, k, i) => i \in 1..Len(rows)
    BY DEF IsLatest
  <2> QED
    BY <1>1, <1>2, <1>4, <2>1, <2>2 DEF Prior
<1> QED
  BY <1>3, <1>4

(* A key has at most one latest row.                                       *)
LEMMA PriorIsUnique ==
  ASSUME NEW S, NEW rows \in Seq(S), NEW k,
         NEW p \in Prior(rows, k), NEW q \in Prior(rows, k)
  PROVE  p = q
<1>1. PICK i \in 1..Len(rows) : IsLatest(rows, k, i) /\ p = rows[i]
  BY DEF Prior
<1>2. PICK j \in 1..Len(rows) : IsLatest(rows, k, j) /\ q = rows[j]
  BY DEF Prior
<1>3. i = j
  BY <1>1, <1>2 DEF IsLatest
<1> QED
  BY <1>1, <1>2, <1>3

(* The latest row of a key is a row of the ledger, about that key.         *)
LEMMA PriorIsARow ==
  ASSUME NEW rows, NEW k, NEW p \in Prior(rows, k)
  PROVE  \E i \in 1..Len(rows) : p = rows[i] /\ rows[i].key = k
BY DEF Prior, IsLatest

(* claim() decides: a key is free, in flight or committed, exactly one.    *)
LEMMA ClaimIsExclusive ==
  ASSUME NEW S, NEW rows \in Seq(S), NEW k,
         \A i \in 1..Len(rows) : rows[i].state \in States
  PROVE  /\ Free(rows, k) => ~InFlight(rows, k) /\ Committed(rows, k) = {}
         /\ InFlight(rows, k) => Committed(rows, k) = {}
         /\ Free(rows, k) \/ InFlight(rows, k) \/ Committed(rows, k) # {}
<1>1. \A p, q \in Prior(rows, k) : p = q
  BY PriorIsUnique
<1>2. \A p \in Prior(rows, k) : p.state \in States
  BY PriorIsARow
<1> QED
  BY <1>1, <1>2 DEF Free, InFlight, Committed, States

(* The write-ahead rule: while a key's INTENT is the last word on it, no   *)
(* further claim is granted, however many rows other keys add.             *)
THEOREM OpenIntentBlocks ==
  ASSUME NEW S, NEW rows \in Seq(S), NEW r \in S, NEW k, InFlight(rows, k), r.key # k
  PROVE  InFlight(Append(rows, r), k) /\ ~Free(Append(rows, r), k)
<1>1. Prior(Append(rows, r), k) = Prior(rows, k)
  BY PriorOfAppend
<1> QED
  BY <1>1 DEF InFlight, Free

-----------------------------------------------------------------------------
(* Types.                                                                  *)

LEMMA PriorType ==
  ASSUME NEW rows \in Seq(Row), NEW k, NEW p \in Prior(rows, k)
  PROVE  p \in Row /\ p.key = k
BY DEF Prior, IsLatest

(* The two ways a handler's own state changes in most steps.               *)
LEMMA GotoType ==
  ASSUME pc \in [Slots -> Labels], NEW s \in Slots, NEW l \in Labels, Goto(s, l)
  PROVE  pc' \in [Slots -> Labels]
BY DEF Goto

LEMMA AnswerType ==
  ASSUME TypeOK, NEW s \in Slots, NEW c \in Codes, NEW e \in Nat, Answer(s, c, e)
  PROVE  pc' \in [Slots -> Labels] /\ out' \in [Slots -> [code : Codes, eff : Nat]]
<1>1. "answered" \in Labels
  BY DEF Labels
<1>2. [code |-> c, eff |-> e] \in [code : Codes, eff : Nat]
  OBVIOUS
<1> QED
  BY <1>1, <1>2, GotoType DEF Answer, TypeOK

(* What a handler does with the rows it waited for.                        *)
LEMMA UseRowsType ==
  ASSUME TypeOK, NEW s \in Slots, NEW rows \in Seq(Row), UseRows(s, rows)
  PROVE  pc' \in [Slots -> Labels] /\ out' \in [Slots -> [code : Codes, eff : Nat]]
<1> DEFINE Goal == pc' \in [Slots -> Labels] /\ out' \in [Slots -> [code : Codes, eff : Nat]]
<1>1. \A k : \A p \in Committed(rows, k) : p.eff \in Nat
  BY PriorType DEF Committed, Row
<1>2. \A c \in Codes, e \in Nat : Answer(s, c, e) => Goal
  BY AnswerType
<1>3. \A l \in Labels : Goto(s, l) /\ UNCHANGED out => Goal
  BY GotoType DEF TypeOK
<1>4. {"OK", "NO_SERVER", "RUN_WINDOW_EXPIRED", "REPLAY", "IN_FLIGHT"} \subseteq Codes
  BY DEF Codes
<1>5. {"claim", "intent", "adopt"} \subseteq Labels
  BY DEF Labels
<1> HIDE DEF Goal
<1>6. PassGate(s, rows) => Goal
  BY <1>1, <1>2, <1>3, <1>4, <1>5 DEF PassGate, Purchases
<1>7. Claim(s, rows) => Goal
  BY <1>1, <1>2, <1>3, <1>4, <1>5 DEF Claim
<1> QED
  BY <1>6, <1>7 DEF UseRows, Goal

(* A handler past the gate was called for a step of the ledger.            *)
Stepping == \A s \in Slots :
  pc[s] \notin {"idle", "gate", "gateRead", "answered"} => req[s].tool \in Keys

LEMMA RowForType ==
  ASSUME TypeOK, Stepping, NEW s \in Slots, pc[s] \in {"intent", "commit", "release"}
  PROVE  RowFor(s, Written(s)) \in Row
<1>1. req[s].tool \in Keys /\ req[s].run \in Runs /\ out[s].eff \in Nat /\ now \in Nat
  BY DEF TypeOK, Stepping
<1>2. Written(s) \in States
  BY DEF Written, States
<1> QED
  BY <1>1, <1>2 DEF RowFor, Row

(* Stepping is kept because only a call for a step ever leaves the gate.   *)
LEMMA SteppingStep ==
  ASSUME TypeOK, Stepping, [Next]_vars
  PROVE  Stepping'
<1> USE DEF Stepping, TypeOK, Goto, Answer
<1>1. CASE UNCHANGED vars
  BY <1>1 DEF vars, handlerVars
<1>2. ASSUME NEW s \in Slots, NEW t \in Tools, NEW r \in Runs, Submit(s, t, r)
      PROVE  Stepping'
  BY <1>2 DEF Submit, Tools, Keys
<1>3. ASSUME NEW s \in Slots, NEW rows, UseRows(s, rows)
      PROVE  Stepping'
  BY <1>3 DEF UseRows, PassGate, Claim, Tools
<1>4. ASSUME NEW s \in Slots, Handler(s)
      PROVE  Stepping'
  <2>1. CASE RowsFromCache(s) \/ RowsReadFails(s) \/ RowsParsed(s)
    BY <2>1, <1>3 DEF RowsFromCache, RowsReadFails, RowsParsed
  <2>2. CASE RowsReadFile(s) \/ RowsUnparsable(s) \/ AppendToFile(s) \/ AppendToCache(s)
    BY <2>2 DEF RowsReadFile, RowsUnparsable, AppendToFile, AppendToCache
  <2>3. CASE ReadSecret(s) \/ SealSecret(s) \/ Send(s) \/ Succeeded(s) \/ Rejected(s)
    BY <2>3 DEF ReadSecret, SealSecret, Send, Succeeded, Rejected
  <2>4. CASE Ambiguous(s) \/ AdoptFound(s) \/ AdoptNothing(s) \/ Finish(s)
    BY <2>4 DEF Ambiguous, AdoptFound, AdoptNothing, Finish
  <2> QED
    BY <1>4, <2>1, <2>2, <2>3, <2>4 DEF Handler
<1>5. CASE Provider \/ Crash \/ Tick
  BY <1>5 DEF Provider, Execute, Lose, DeleteServer, Crash, Tick, handlerVars
<1> QED
  BY <1>1, <1>2, <1>4, <1>5 DEF Next

LEMMA InitType == Init => TypeOK /\ Stepping
<1> SUFFICES ASSUME Init PROVE TypeOK /\ Stepping
  OBVIOUS
<1>1. <<>> \in Seq(Row)
  OBVIOUS
<1>2. PICK r \in Runs : req = [s \in Slots |-> [tool |-> "peek", run |-> r, at |-> 0]]
  BY DEF Init
<1>3. req \in [Slots -> [tool : Tools, run : Runs, at : Nat]]
  BY <1>2 DEF Tools
<1> QED
  BY <1>1, <1>3 DEF Init, TypeOK, Stepping, Labels, Codes

LEMMA TypeStep ==
  ASSUME TypeOK, Stepping, [Next]_vars
  PROVE  TypeOK'
<1> USE DEF TypeOK, ledgerVars, sealed, handlerVars, provider
<1>1. CASE UNCHANGED vars
  BY <1>1 DEF vars
<1>2. ASSUME NEW s \in Slots, NEW t \in Tools, NEW r \in Runs, Submit(s, t, r)
      PROVE  TypeOK'
  <2>1. pc' \in [Slots -> Labels] /\ out' \in [Slots -> [code : Codes, eff : Nat]]
    <3>1. {"secrets", "gate"} \subseteq Labels /\ "EXPIRED" \in Codes
      BY DEF Labels, Codes
    <3> QED
      BY <1>2, <3>1, AnswerType, GotoType DEF Submit
  <2>2. req' \in [Slots -> [tool : Tools, run : Runs, at : Nat]]
    BY <1>2 DEF Submit
  <2> QED
    BY <1>2, <2>1, <2>2 DEF Submit
<1>3. ASSUME NEW s \in Slots, Handler(s)
      PROVE  TypeOK'
  <2> <<>> \in Seq(Row)
    OBVIOUS
  <2>1. CASE ReadSecret(s)
    <3>1. pc' \in [Slots -> Labels]
      BY <2>1, GotoType DEF ReadSecret, Labels
    <3>2. secret' \in [Slots -> Nat] /\ nextId' \in Nat
      <4>1. \E n \in {vault, nextId} : secret' = [secret EXCEPT ![s] = n]
        BY <2>1 DEF ReadSecret
      <4>2. nextId' \in {nextId, nextId + 1}
        BY <2>1 DEF ReadSecret
      <4> QED
        BY <4>1, <4>2
    <3>3. UNCHANGED <<now, crashes, ledgerVars, vault, req, view, call, out, provider>>
      BY <2>1 DEF ReadSecret
    <3>4. misread' \in BOOLEAN
      <4>1. misread' = misread \/ misread' = TRUE
        BY <2>1, Zenon DEF ReadSecret
      <4>2. misread \in BOOLEAN
        OBVIOUS
      <4> QED
        BY <4>1, <4>2, Zenon
    <3> QED
      BY <3>1, <3>2, <3>3, <3>4
  <2>2. CASE SealSecret(s)
    BY <2>2 DEF SealSecret, Goto, Labels
  <2>3. CASE RowsFromCache(s)
    <3>1. cache \in Seq(Row) /\ UseRows(s, cache)
      BY <2>3 DEF RowsFromCache
    <3> QED
      BY <2>3, <3>1, UseRowsType DEF RowsFromCache, UseRows
  <2>4. CASE RowsReadFile(s)
    BY <2>4 DEF RowsReadFile, Goto, Labels
  <2>5. CASE RowsReadFails(s)
    BY <2>5, UseRowsType DEF RowsReadFails, UseRows
  <2>6. CASE RowsParsed(s)
    BY <2>6, UseRowsType DEF RowsParsed, UseRows
  <2>7. CASE RowsUnparsable(s)
    BY <2>7 DEF RowsUnparsable, Goto, Answer, Labels, Codes
  <2>8. CASE AppendToFile(s)
    <3> DEFINE r == RowFor(s, Written(s))
    <3>1. r \in Row
      BY <2>8, RowForType DEF AppendToFile
    <3>2. <<r>> \in Seq(Row) /\ Append(file, r) \in Seq(Row)
      BY <3>1
    <3> QED
      BY <2>8, <3>2 DEF AppendToFile, Goto, Labels
  <2>9. CASE AppendToCache(s)
    <3>1. cache \in Seq(Row) => cache \o view[s] \in Seq(Row)
      BY ConcatProperties
    <3> QED
      BY <2>9, <3>1 DEF AppendToCache, Goto, Labels
  <2>10. CASE Send(s)
    <3>1. req[s].tool \in Keys /\ req[s].run \in Runs
      BY <2>10 DEF Send, Stepping
    <3> QED
      BY <2>10, <3>1 DEF Send, Goto, Labels, Requests
  <2> {"commit", "release", "answered", "idle"} \subseteq Labels
    BY DEF Labels
  <2> {"-", "OK", "PROVIDER_REJECTED", "PROVIDER_AMBIGUOUS", "IN_FLIGHT",
       "MULTIPLE_SERVERS"} \subseteq Codes
    BY DEF Codes
  <2>11. CASE Succeeded(s)
    BY <2>11, GotoType DEF Succeeded
  <2>12. CASE Rejected(s)
    BY <2>12, GotoType DEF Rejected
  <2>13. CASE Ambiguous(s)
    BY <2>13, GotoType DEF Ambiguous
  <2>14. CASE AdoptFound(s)
    <3>1. pc' \in [Slots -> Labels]
      BY <2>14, GotoType DEF AdoptFound
    <3>2. \E x \in Nat : out' = [out EXCEPT ![s] = [code |-> "OK", eff |-> x]]
      BY <2>14 DEF AdoptFound
    <3>3. UNCHANGED <<now, crashes, ledgerVars, sealed, req, view, secret, call, provider, nextId>>
      BY <2>14 DEF AdoptFound
    <3> QED
      BY <3>1, <3>2, <3>3
  <2>15. CASE AdoptNothing(s)
    <3>1. pc' \in [Slots -> Labels] /\ out' \in [Slots -> [code : Codes, eff : Nat]]
      BY <2>15, AnswerType DEF AdoptNothing
    <3>2. UNCHANGED <<now, crashes, ledgerVars, sealed, req, view, secret, call, provider, nextId>>
      BY <2>15 DEF AdoptNothing
    <3> QED
      BY <3>1, <3>2
  <2>16. CASE Finish(s)
    BY <2>16, GotoType DEF Finish
  <2> QED
    BY <1>3, <2>1, <2>2, <2>3, <2>4, <2>5, <2>6, <2>7, <2>8, <2>9, <2>10,
       <2>11, <2>12, <2>13, <2>14, <2>15, <2>16 DEF Handler
<1>4. CASE Provider
  BY <1>4 DEF Provider, Execute, Lose, DeleteServer, Requests
<1>5. CASE Crash
  <2>1. "idle" \in Labels /\ "-" \in Codes /\ <<>> \in Seq(Row)
    BY DEF Labels, Codes
  <2>2. pc' \in [Slots -> Labels] /\ view' \in [Slots -> Seq(Row)]
    BY <1>5, <2>1 DEF Crash
  <2>3. out' \in [Slots -> [code : Codes, eff : Nat]]
    BY <1>5, <2>1 DEF Crash
  <2>4. secret' \in [Slots -> Nat] /\ call' \in [Slots -> Nat]
    BY <1>5 DEF Crash
  <2>5. torn' \in BOOLEAN
    <3>1. torn \in BOOLEAN
      OBVIOUS
    <3>2. UNCHANGED torn \/ torn' = TRUE
      BY <1>5, Zenon DEF Crash
    <3> QED
      BY <3>1, <3>2, Zenon
  <2>6. cache' \in Seq(Row) \cup {NoRows} /\ crashes' \in Nat
    BY <1>5 DEF Crash
  <2> QED
    BY <1>5, <2>2, <2>3, <2>4, <2>5, <2>6 DEF Crash
<1>6. CASE Tick
  BY <1>6 DEF Tick
<1> QED
  BY <1>1, <1>2, <1>3, <1>4, <1>5, <1>6 DEF Next

(* Every variable keeps its type, whatever the constants.                  *)
THEOREM TypeCorrect == Spec => []TypeOK
<1>1. TypeOK /\ Stepping /\ [Next]_vars => (TypeOK /\ Stepping)'
  BY TypeStep, SteppingStep
<1> QED
  BY InitType, <1>1, PTL DEF Spec

-----------------------------------------------------------------------------
(* The write-ahead rule, for any number of handlers.                       *)

Announced(rows, k, r) == \E i \in 1..Len(rows) :
  rows[i].key = k /\ rows[i].run = r /\ rows[i].state = "INTENT"

(* Between its claim and its request a handler has an INTENT on file.      *)
ClaimOnFile == \A s \in Slots :
  pc[s] \in {"intentDone", "act"} => Announced(file, req[s].tool, req[s].run)

(* Appending never removes an announcement.                                *)
LEMMA AnnouncedStays ==
  ASSUME TypeOK, NEW r \in Row, NEW k, NEW u, Announced(file, k, u)
  PROVE  Announced(Append(file, r), k, u)
BY DEF TypeOK, Announced

(* Only two steps concern the rule; all others keep what it is about.      *)
LEMMA QuietStep ==
  ASSUME NEW s \in Slots, Handler(s), ~AppendToFile(s), ~Send(s)
  PROVE  /\ UNCHANGED <<file, made, req>> /\ wire' \subseteq wire
         /\ \A t \in Slots \ {s} : pc \in [Slots -> Labels] => pc'[t] = pc[t]
BY DEF Handler, ReadSecret, SealSecret, RowsFromCache, RowsReadFile, RowsReadFails,
       RowsParsed, RowsUnparsable, UseRows, PassGate, Claim, AppendToCache,
       Succeeded, Rejected, Ambiguous, AdoptFound, AdoptNothing, Finish,
       Goto, Answer, ledgerVars, provider

(* A quiet step brings no handler between its claim and its request.       *)
LEMMA QuietPc ==
  ASSUME TypeOK, NEW s \in Slots, Handler(s), ~AppendToFile(s), ~Send(s)
  PROVE  pc'[s] \in {"intentDone", "act"} => pc[s] = "intentDone"
BY DEF TypeOK, Handler, ReadSecret, SealSecret, RowsFromCache, RowsReadFile,
       RowsReadFails, RowsParsed, RowsUnparsable, UseRows, PassGate, Claim,
       AppendToCache, Succeeded, Rejected, Ambiguous, AdoptFound, AdoptNothing,
       Finish, Goto, Answer

LEMMA WriteAheadStep ==
  ASSUME TypeOK, Stepping, ClaimOnFile, WriteAhead, [Next]_vars
  PROVE  ClaimOnFile' /\ WriteAhead'
<1> DEFINE Kept == \A k, u : Announced(file, k, u) => Announced(file', k, u)
<1>1. WriteAhead <=> \A w \in wire \cup made : Announced(file, w.key, w.run)
  BY DEF WriteAhead, Announced
<1>2. WriteAhead' <=> \A w \in wire' \cup made' : Announced(file', w.key, w.run)
  BY DEF WriteAhead, Announced
<1>3. ASSUME NEW s \in Slots, AppendToFile(s)
      PROVE  ClaimOnFile' /\ WriteAhead'
  <2> DEFINE r == RowFor(s, Written(s))
  <2>1. r \in Row /\ file' = Append(file, r)
    BY <1>3, RowForType DEF AppendToFile
  <2>2. Kept
    BY <2>1, AnnouncedStays
  <2>3. UNCHANGED <<req, wire, made>> /\ \A t \in Slots \ {s} : pc'[t] = pc[t]
    BY <1>3 DEF AppendToFile, provider, Goto, TypeOK
  <2>4. pc'[s] \in {"intentDone", "act"} => pc[s] = "intent"
    BY <1>3 DEF AppendToFile, Goto, TypeOK
  <2>5. ASSUME pc[s] = "intent" PROVE Announced(file', req[s].tool, req[s].run)
    <3>1. r.key = req[s].tool /\ r.run = req[s].run /\ r.state = "INTENT"
      BY <2>5 DEF RowFor, Written
    <3>2. Len(file') = Len(file) + 1 /\ file'[Len(file) + 1] = r /\ Len(file) \in Nat
      BY <2>1 DEF TypeOK
    <3> QED
      BY <3>1, <3>2 DEF Announced
  <2> QED
    BY <1>1, <1>2, <2>2, <2>3, <2>4, <2>5 DEF ClaimOnFile
<1>4. ASSUME NEW s \in Slots, Send(s)
      PROVE  ClaimOnFile' /\ WriteAhead'
  <2>1. UNCHANGED <<file, req, made>>
    BY <1>4 DEF Send, ledgerVars
  <2>2. \A t \in Slots : pc'[t] = IF t = s THEN "await" ELSE pc[t]
    BY <1>4 DEF Send, Goto, TypeOK
  <2>3. Announced(file, req[s].tool, req[s].run)
    BY <1>4 DEF Send, ClaimOnFile
  <2>4. \A w \in wire' : w \in wire \/ (w.key = req[s].tool /\ w.run = req[s].run)
    BY <1>4 DEF Send
  <2> QED
    BY <1>1, <1>2, <2>1, <2>2, <2>3, <2>4 DEF ClaimOnFile
<1>5. ASSUME NEW s \in Slots, Handler(s), ~AppendToFile(s), ~Send(s)
      PROVE  ClaimOnFile' /\ WriteAhead'
  BY <1>1, <1>2, <1>5, QuietStep, QuietPc DEF ClaimOnFile, TypeOK
<1>6. ASSUME NEW s \in Slots, NEW t \in Tools, NEW r \in Runs, Submit(s, t, r)
      PROVE  ClaimOnFile' /\ WriteAhead'
  BY <1>1, <1>2, <1>6 DEF Submit, Goto, Answer, ClaimOnFile, TypeOK, ledgerVars, provider
<1>7. CASE Provider \/ Tick
  BY <1>1, <1>2, <1>7 DEF Provider, Execute, Lose, DeleteServer, Tick, ClaimOnFile,
     ledgerVars, handlerVars, provider
<1>8. CASE Crash
  BY <1>1, <1>2, <1>8 DEF Crash, ClaimOnFile, provider
<1>9. CASE UNCHANGED vars
  BY <1>1, <1>2, <1>9 DEF vars, ClaimOnFile, ledgerVars, handlerVars, provider
<1> QED
  BY <1>3, <1>4, <1>5, <1>6, <1>7, <1>8, <1>9 DEF Next

(* No provider is ever asked for anything the ledger file does not already *)
(* announce: for any number of overlapping handlers and any crash.         *)
THEOREM WriteAheadHolds == Spec => []WriteAhead
<1>1. Init => ClaimOnFile /\ WriteAhead
  BY DEF Init, ClaimOnFile, WriteAhead
<1>2. TypeOK /\ Stepping /\ ClaimOnFile /\ WriteAhead /\ [Next]_vars
        => (TypeOK /\ Stepping /\ ClaimOnFile /\ WriteAhead)'
  BY TypeStep, SteppingStep, WriteAheadStep
<1> QED
  BY InitType, <1>1, <1>2, PTL DEF Spec

-----------------------------------------------------------------------------
(* Callers that wait: one handler at a time, on a disk whose reads do not  *)
(* fail.  What follows needs both; the runs of MCGateway show it false     *)
(* without either.                                                         *)

Serial == (\A s, t \in Slots : s = t) /\ "readError" \notin Faults

(* Requests are told apart by their identifiers, on the wire and after.    *)
Identified ==
  /\ \A w \in wire \cup made : w.id < nextId
  /\ \A x, y \in wire : x.id = y.id => x = y
  /\ \A x \in wire, y \in made : x.id # y.id
  /\ \A x \in live : \E w \in Servers(made) : w.id = x
  /\ \A s \in Slots : pc[s] = "await" =>
       /\ call[s] < nextId
       /\ \A w \in wire \cup made : w.id = call[s] => w.key = req[s].tool

(* The cache is the file, up to the row a handler is appending.            *)
CacheExact ==
  /\ CacheIsFile
  /\ \A s \in Slots :
       /\ pc[s] \in {"intentDone", "settled"} => cache = NoRows \/ cache \o view[s] = file
       /\ pc[s] \in {"gateRead", "claimRead"} => view[s] = file

(* From its claim to its last append the purchase's INTENT is the latest   *)
(* row, and the handler knows whether a server can exist.                  *)
PurchaseExact == \A s \in Slots : req[s].tool = "P2" =>
  LET asked == Servers(wire \cup made) IN
  /\ pc[s] \in {"intent", "intentDone", "act", "release"} => asked = {}
  /\ pc[s] = "intent" => Free(file, "P2")
  /\ pc[s] \in {"intentDone", "act", "await", "commit", "release", "adopt"} =>
       InFlight(file, "P2")
  /\ pc[s] = "await" => \A x \in asked : x.id = call[s]
  /\ pc[s] = "commit" => /\ \A x \in asked : x.id = out[s].eff
                         /\ \E x \in Servers(made) : x.id = out[s].eff

(* Only a purchase comes to the adoption.                                  *)
AdoptIsPurchase == \A s \in Slots : pc[s] = "adopt" => req[s].tool = "P2"

(* The server a settled purchase names was bought.                         *)
SettledIsReal ==
  \A p \in Purchases(file) : \E w \in Servers(made) : w.id = p.eff

SerialInv ==
  /\ TypeOK /\ Stepping /\ Identified
  /\ CacheExact /\ PurchaseExact /\ AdoptIsPurchase /\ SettledIsReal
  /\ AtMostOneServer /\ NoServerForgotten

(* Where the rows may take a handler.                                      *)
LEMMA UseRowsPc ==
  ASSUME TypeOK, NEW s \in Slots, NEW rows, UseRows(s, rows)
  PROVE  /\ pc'[s] \in {"answered", "claim", "intent", "adopt"}
         /\ \A t \in Slots \ {s} : pc'[t] = pc[t]
<1>1. CASE PassGate(s, rows)
  BY <1>1 DEF PassGate, Goto, Answer, TypeOK
<1>2. CASE Claim(s, rows)
  BY <1>2 DEF Claim, Goto, Answer, TypeOK
<1> QED
  BY <1>1, <1>2 DEF UseRows

(* Steps of a handler that neither send nor create anything.               *)
LEMMA AwaitOnlyBySend ==
  ASSUME TypeOK, NEW s \in Slots, Handler(s), ~Send(s)
  PROVE  /\ pc'[s] # "await" /\ \A t \in Slots \ {s} : pc'[t] = pc[t] /\ call'[t] = call[t]
         /\ UNCHANGED <<req, made, live>> /\ wire' \subseteq wire
         /\ nextId' \in Nat /\ nextId' >= nextId
<1> USE DEF TypeOK, Goto, Answer, provider
<1>1. CASE ReadSecret(s) \/ SealSecret(s)
  <2>1. CASE ReadSecret(s)
    BY <2>1 DEF ReadSecret
  <2>2. CASE SealSecret(s)
    BY <2>2 DEF SealSecret
  <2> QED
    BY <1>1, <2>1, <2>2
<1>2. CASE RowsFromCache(s) \/ RowsReadFails(s) \/ RowsParsed(s)
  <2>1. PICK rows : UseRows(s, rows)
    BY <1>2 DEF RowsFromCache, RowsReadFails, RowsParsed
  <2>2. pc'[s] # "await" /\ \A t \in Slots \ {s} : pc'[t] = pc[t]
    BY <2>1, UseRowsPc
  <2>3. UNCHANGED <<req, call, wire, made, live, nextId>>
    BY <2>1 DEF UseRows
  <2> QED
    BY <2>2, <2>3
<1>3. CASE RowsReadFile(s) \/ RowsUnparsable(s) \/ AppendToFile(s) \/ AppendToCache(s)
  <2>1. CASE RowsReadFile(s)
    BY <2>1 DEF RowsReadFile
  <2>2. CASE RowsUnparsable(s)
    BY <2>2 DEF RowsUnparsable
  <2>3. CASE AppendToFile(s)
    BY <2>3 DEF AppendToFile
  <2>4. CASE AppendToCache(s)
    BY <2>4 DEF AppendToCache
  <2> QED
    BY <1>3, <2>1, <2>2, <2>3, <2>4
<1>4. CASE Succeeded(s) \/ Rejected(s) \/ Ambiguous(s)
  <2>1. CASE Succeeded(s)
    BY <2>1 DEF Succeeded
  <2>2. CASE Rejected(s)
    BY <2>2 DEF Rejected
  <2>3. CASE Ambiguous(s)
    BY <2>3 DEF Ambiguous
  <2> QED
    BY <1>4, <2>1, <2>2, <2>3
<1>5. CASE AdoptFound(s) \/ AdoptNothing(s) \/ Finish(s)
  <2>1. CASE AdoptFound(s)
    BY <2>1 DEF AdoptFound
  <2>2. CASE AdoptNothing(s)
    BY <2>2 DEF AdoptNothing
  <2>3. CASE Finish(s)
    BY <2>3 DEF Finish
  <2> QED
    BY <1>5, <2>1, <2>2, <2>3
<1> QED
  BY <1>1, <1>2, <1>3, <1>4, <1>5 DEF Handler

LEMMA IdentifiedStep ==
  ASSUME TypeOK, Stepping, Identified, [Next]_vars
  PROVE  Identified'
<1> USE DEF Identified, Servers
<1> wire \subseteq Requests /\ made \subseteq Requests /\ nextId \in Nat
  BY DEF TypeOK
<1> \A w \in Requests : w.id \in Nat
  BY DEF Requests
<1>1. ASSUME NEW s \in Slots, Handler(s), ~Send(s)
      PROVE  Identified'
  <2>1. /\ pc'[s] # "await"
        /\ \A t \in Slots \ {s} : pc'[t] = pc[t] /\ call'[t] = call[t]
        /\ UNCHANGED <<req, made, live>> /\ wire' \subseteq wire
        /\ nextId' \in Nat /\ nextId' >= nextId
    BY <1>1, AwaitOnlyBySend
  <2>2. \A w \in wire' \cup made' : w \in wire \cup made /\ w.id \in Nat
    BY <2>1
  <2>3. \A w \in wire' \cup made' : w.id < nextId'
    BY <2>1, <2>2
  <2>4. \A t \in Slots : pc'[t] = "await" =>
          pc[t] = "await" /\ call'[t] = call[t] /\ call[t] \in Nat
    BY <2>1 DEF TypeOK
  <2>5. \A t \in Slots : pc'[t] = "await" =>
          call'[t] < nextId' /\ \A w \in wire' \cup made' : w.id = call'[t] => w.key = req'[t].tool
    BY <2>1, <2>2, <2>4
  <2> QED
    BY <2>1, <2>3, <2>5
<1>2. ASSUME NEW s \in Slots, Send(s)
      PROVE  Identified'
  <2> DEFINE w0 == [id |-> nextId, key |-> req[s].tool, run |-> req[s].run, secret |-> secret[s]]
  <2>1. wire' = wire \cup {w0} /\ nextId' = nextId + 1 /\ UNCHANGED <<made, live, req>>
    BY <1>2 DEF Send
  <2>2. w0.id = nextId /\ w0.key = req[s].tool
    OBVIOUS
  <2> HIDE DEF w0
  <2>3. \A t \in Slots : /\ pc'[t] = IF t = s THEN "await" ELSE pc[t]
                         /\ call'[t] = IF t = s THEN nextId ELSE call[t]
    BY <1>2 DEF Send, Goto, TypeOK
  <2>4. \A t \in Slots : call[t] \in Nat
    BY DEF TypeOK
  <2>5. \A w \in wire' \cup made' : w.id < nextId'
    BY <2>1, <2>2
  <2>6. \A x, y \in wire' : x.id = y.id => x = y
    BY <2>1, <2>2
  <2>7. \A x \in wire', y \in made' : x.id # y.id
    BY <2>1, <2>2
  <2>8. ASSUME NEW t \in Slots, pc'[t] = "await"
        PROVE  call'[t] < nextId' /\ \A w \in wire' \cup made' : w.id = call'[t] => w.key = req'[t].tool
    BY <2>1, <2>2, <2>3, <2>4, <2>8
  <2> QED
    BY <2>1, <2>5, <2>6, <2>7, <2>8
<1>3. ASSUME NEW s \in Slots, NEW t \in Tools, NEW r \in Runs, Submit(s, t, r)
      PROVE  Identified'
  BY <1>3 DEF Submit, Goto, Answer, TypeOK, provider
<1>4. CASE Provider
  BY <1>4 DEF Provider, Execute, Lose, DeleteServer, handlerVars
<1>5. CASE Crash \/ Tick
  BY <1>5 DEF Crash, Tick, provider, handlerVars
<1>6. CASE UNCHANGED vars
  BY <1>6 DEF vars, provider, handlerVars
<1> QED
  BY <1>1, <1>2, <1>3, <1>4, <1>5, <1>6 DEF Next

(* One handler: what it remembers of the ledger is the ledger.             *)
LEMMA CacheStep ==
  ASSUME Serial, TypeOK, Stepping, CacheExact, [Next]_vars
  PROVE  CacheExact'
<1> USE DEF CacheExact, CacheIsFile
<1>1. ASSUME NEW s \in Slots, Handler(s)
      PROVE  CacheExact'
  <2> \A t \in Slots : t = s
    BY DEF Serial
  <2> pc \in [Slots -> Labels] /\ view \in [Slots -> Seq(Row)]
    BY DEF TypeOK
  <2>1. CASE ReadSecret(s) \/ SealSecret(s) \/ Send(s) \/ Succeeded(s) \/ Rejected(s)
    BY <2>1 DEF ReadSecret, SealSecret, Send, Succeeded, Rejected, Goto, ledgerVars
  <2>2. CASE Ambiguous(s) \/ AdoptFound(s) \/ AdoptNothing(s) \/ Finish(s) \/ RowsReadFile(s)
    BY <2>2 DEF Ambiguous, AdoptFound, AdoptNothing, Finish, RowsReadFile, Goto, Answer, ledgerVars
  <2>3. CASE RowsFromCache(s) \/ RowsParsed(s)
    BY <2>3 DEF RowsFromCache, RowsParsed, UseRows, PassGate, Claim, Goto, Answer
  <2>4. CASE RowsReadFails(s)
    BY <2>4 DEF RowsReadFails, Serial
  <2>5. CASE RowsUnparsable(s)
    BY <2>5 DEF RowsUnparsable, Goto, Answer, ledgerVars
  <2>6. CASE AppendToFile(s)
    <3> DEFINE r == RowFor(s, Written(s))
    <3>1. r \in Row
      BY <2>6, RowForType DEF AppendToFile
    <3>2. cache = NoRows \/ cache = file
      BY <2>6 DEF AppendToFile
    <3>3. file \o <<r>> = Append(file, r)
      BY <3>1 DEF TypeOK
    <3>4. file' = Append(file, r) /\ view'[s] = <<r>> /\ cache' = cache
      BY <2>6 DEF AppendToFile
    <3>5. pc'[s] \in {"intentDone", "settled"}
      BY <2>6 DEF AppendToFile, Goto
    <3> QED
      BY <3>2, <3>3, <3>4, <3>5
  <2>7. CASE AppendToCache(s)
    BY <2>7 DEF AppendToCache, Goto
  <2> QED
    BY <1>1, <2>1, <2>2, <2>3, <2>4, <2>5, <2>6, <2>7 DEF Handler
<1>2. ASSUME NEW s \in Slots, NEW t \in Tools, NEW r \in Runs, Submit(s, t, r)
      PROVE  CacheExact'
  BY <1>2 DEF Submit, Goto, Answer, TypeOK, ledgerVars
<1>3. CASE Provider \/ Tick \/ UNCHANGED vars
  BY <1>3 DEF Provider, Execute, Lose, DeleteServer, Tick, vars, ledgerVars, handlerVars
<1>4. CASE Crash
  BY <1>4 DEF Crash
<1> QED
  BY <1>1, <1>2, <1>3, <1>4 DEF Next

-----------------------------------------------------------------------------
(* The money, step by step.                                                *)

Money ==
  /\ PurchaseExact /\ AdoptIsPurchase /\ SettledIsReal
  /\ AtMostOneServer /\ NoServerForgotten

(* A step that touches neither ledger nor provider, and takes the handler  *)
(* to a place the invariant says nothing about.                            *)
LEMMA MoneyIdle ==
  ASSUME Serial, Money, NEW s \in Slots,
         UNCHANGED <<file, made, req>>, wire' \subseteq wire,
         pc'[s] \in {"intent", "intentDone", "act", "await", "release", "commit", "adopt"}
           => pc'[s] = "release" /\ req[s].tool # "P2"
  PROVE  Money'
BY DEF Serial, Money, PurchaseExact, AdoptIsPurchase, SettledIsReal, Purchases,
       AtMostOneServer, NoServerForgotten, Servers

LEMMA MoneyClaim ==
  ASSUME Serial, Money, TypeOK, NEW s \in Slots, UseRows(s, file)
  PROVE  Money'
<1>1. UNCHANGED <<file, made, req, wire>>
  BY DEF UseRows, provider
<1>2. CASE PassGate(s, file)
  <2>1. pc'[s] \in {"answered", "claim"}
    BY <1>2 DEF PassGate, Goto, Answer, TypeOK
  <2> QED
    BY <1>1, <2>1, MoneyIdle
<1>3. CASE Claim(s, file)
  <2>1. CASE pc'[s] = "intent"
    <3>1. Free(file, req[s].tool)
      BY <1>3, <2>1 DEF Claim, Goto, Answer, TypeOK
    <3>2. req[s].tool = "P2" => Servers(wire \cup made) = {}
      BY <3>1 DEF Money, NoServerForgotten, Free
    <3> QED
      BY <1>1, <2>1, <3>1, <3>2 DEF Serial, Money, PurchaseExact, AdoptIsPurchase,
         SettledIsReal, Purchases, AtMostOneServer, NoServerForgotten
  <2>2. CASE pc'[s] = "adopt"
    <3>1. req[s].tool = "P2" /\ InFlight(file, "P2")
      BY <1>3, <2>2 DEF Claim, Goto, Answer, TypeOK, InFlight
    <3> QED
      BY <1>1, <2>2, <3>1 DEF Serial, Money, PurchaseExact, AdoptIsPurchase,
         SettledIsReal, Purchases, AtMostOneServer, NoServerForgotten
  <2>3. CASE pc'[s] \notin {"intent", "adopt"}
    <3>1. pc'[s] = "answered"
      BY <1>3, <2>3 DEF Claim, Goto, Answer, TypeOK
    <3> QED
      BY <1>1, <3>1, MoneyIdle
  <2> QED
    BY <2>1, <2>2, <2>3
<1> QED
  BY <1>2, <1>3 DEF UseRows

LEMMA MoneyAppend ==
  ASSUME Serial, Money, TypeOK, Stepping, NEW s \in Slots, AppendToFile(s)
  PROVE  Money'
<1> DEFINE r == RowFor(s, Written(s))
<1>1. r \in Row /\ file' = Append(file, r) /\ UNCHANGED <<wire, made, req, out>>
  BY RowForType DEF AppendToFile, provider
<1>2. r.key = req[s].tool /\ r.state = Written(s)
  BY DEF RowFor
<1>3. Prior(file', "P2") = IF req[s].tool = "P2" THEN {r} ELSE Prior(file, "P2")
  BY <1>1, <1>2, PriorOfAppend DEF TypeOK
<1>4. pc'[s] = IF pc[s] = "intent" THEN "intentDone" ELSE "settled"
  BY DEF AppendToFile, Goto, TypeOK
<1>5. \A t \in Slots : t = s
  BY DEF Serial
<1> HIDE DEF r
<1>6. CASE req[s].tool # "P2"
  BY <1>1, <1>3, <1>4, <1>5, <1>6 DEF Money, PurchaseExact, AdoptIsPurchase, SettledIsReal,
     Purchases, Committed, AtMostOneServer, NoServerForgotten
<1>7. CASE req[s].tool = "P2" /\ pc[s] = "intent"
  <2>1. r.state = "INTENT"
    BY <1>2, <1>7 DEF Written
  <2>2. InFlight(file', "P2") /\ Committed(file', "P2") = {}
    BY <1>3, <1>7, <2>1 DEF InFlight, Committed
  <2>3. Servers(wire \cup made) = {}
    BY <1>7 DEF Money, PurchaseExact
  <2> QED
    BY <1>1, <1>4, <1>5, <1>7, <2>2, <2>3 DEF Money, PurchaseExact, AdoptIsPurchase,
       SettledIsReal, Purchases, AtMostOneServer, NoServerForgotten
<1>8. CASE req[s].tool = "P2" /\ pc[s] = "commit"
  <2>1. r.state = "COMMITTED" /\ r.eff = out[s].eff
    BY <1>8 DEF r, RowFor, Written
  <2>2. Prior(file', "P2") = {r} /\ Committed(file', "P2") = {r}
    BY <1>3, <1>8, <2>1 DEF Committed
  <2>3. /\ \A x \in Servers(wire \cup made) : x.id = out[s].eff
        /\ \E x \in Servers(made) : x.id = out[s].eff
    BY <1>8 DEF Money, PurchaseExact
  <2>4. PurchaseExact' /\ AdoptIsPurchase'
    BY <1>4, <1>5, <1>8 DEF PurchaseExact, AdoptIsPurchase
  <2>5. SettledIsReal'
    BY <1>1, <2>1, <2>2, <2>3 DEF SettledIsReal, Purchases
  <2>6. AtMostOneServer' /\ NoServerForgotten'
    BY <1>1, <2>1, <2>2, <2>3 DEF Money, AtMostOneServer, NoServerForgotten
  <2> QED
    BY <2>4, <2>5, <2>6 DEF Money
<1>9. CASE req[s].tool = "P2" /\ pc[s] = "release"
  <2>1. r.state = "FAILED"
    BY <1>2, <1>9 DEF Written
  <2>2. Committed(file', "P2") = {}
    BY <1>3, <1>9, <2>1 DEF Committed
  <2>3. Servers(wire \cup made) = {}
    BY <1>9 DEF Money, PurchaseExact
  <2> QED
    BY <1>1, <1>4, <1>5, <1>9, <2>2, <2>3 DEF Money, PurchaseExact, AdoptIsPurchase,
       SettledIsReal, Purchases, AtMostOneServer, NoServerForgotten
<1> QED
  BY <1>6, <1>7, <1>8, <1>9 DEF AppendToFile

LEMMA MoneySend ==
  ASSUME Serial, Money, TypeOK, Stepping, NEW s \in Slots, Send(s)
  PROVE  Money'
<1> DEFINE w0 == [id |-> nextId, key |-> req[s].tool, run |-> req[s].run, secret |-> secret[s]]
<1>1. wire' = wire \cup {w0} /\ UNCHANGED <<made, req, file>>
  BY DEF Send, ledgerVars
<1>2. w0.id = nextId /\ w0.key = req[s].tool
  OBVIOUS
<1> HIDE DEF w0
<1>3. pc[s] = "act" /\ pc'[s] = "await" /\ call'[s] = nextId
  BY DEF Send, Goto, TypeOK
<1>4. \A t \in Slots : t = s
  BY DEF Serial
<1>5. CASE req[s].tool # "P2"
  <2>1. Servers(wire' \cup made') = Servers(wire \cup made)
    BY <1>1, <1>2, <1>5 DEF Servers
  <2> QED
    BY <1>1, <1>3, <1>4, <1>5, <2>1 DEF Money, PurchaseExact, AdoptIsPurchase, SettledIsReal,
       Purchases, AtMostOneServer, NoServerForgotten
<1>6. CASE req[s].tool = "P2"
  <2>1. Servers(wire \cup made) = {} /\ InFlight(file, "P2")
    BY <1>3, <1>6 DEF Money, PurchaseExact
  <2>2. Servers(wire' \cup made') = {w0}
    BY <1>1, <1>2, <1>6, <2>1 DEF Servers
  <2>3. Servers(made') = Servers(made)
    BY <1>1
  <2> QED
    BY <1>1, <1>2, <1>3, <1>4, <1>6, <2>1, <2>2, <2>3 DEF Money, PurchaseExact,
       AdoptIsPurchase, SettledIsReal, Purchases, AtMostOneServer, NoServerForgotten, InFlight
<1> QED
  BY <1>5, <1>6

LEMMA MoneyOutcome ==
  ASSUME Serial, Money, TypeOK, Identified, NEW s \in Slots,
         Succeeded(s) \/ Rejected(s) \/ AdoptFound(s)
  PROVE  Money'
<1> DEFINE Goal == Money'
<1> USE DEF Money, PurchaseExact, AdoptIsPurchase, SettledIsReal, Purchases,
        AtMostOneServer, NoServerForgotten
<1>1. \A t \in Slots : t = s
  BY DEF Serial
<1>2. CASE Succeeded(s)
  <2>1. /\ pc[s] = "await" /\ pc'[s] = "commit" /\ out'[s].eff = call[s]
        /\ UNCHANGED <<wire, made, req, file>>
    BY <1>2 DEF Succeeded, Goto, TypeOK, provider, ledgerVars
  <2>2. PICK w \in made : w.id = call[s]
    BY <1>2 DEF Succeeded
  <2>3. req[s].tool = "P2" => w \in Servers(made)
    BY <2>1, <2>2 DEF Identified, Servers
  <2> QED
    BY <1>1, <2>1, <2>2, <2>3
<1>3. CASE Rejected(s)
  <2>1. /\ pc[s] = "await" /\ pc'[s] = "release"
        /\ UNCHANGED <<made, req, file>>
    BY <1>3 DEF Rejected, Goto, TypeOK, ledgerVars
  <2>2. PICK w \in wire : w.id = call[s] /\ wire' = wire \ {w}
    BY <1>3 DEF Rejected
  <2>3. Servers(wire' \cup made') \subseteq Servers(wire \cup made)
    BY <2>1, <2>2 DEF Servers
  <2>4. ASSUME req[s].tool = "P2" PROVE Servers(wire' \cup made') = {}
    <3>1. w \in Servers(wire \cup made)
      BY <2>1, <2>2, <2>4 DEF Identified, Servers
    <3>2. \A x \in Servers(wire \cup made) : x = w
      BY <3>1
    <3>3. w \notin wire' \cup made'
      BY <2>1, <2>2 DEF Identified
    <3> QED
      BY <2>3, <3>2, <3>3 DEF Servers
  <2> QED
    BY <1>1, <2>1, <2>3, <2>4
<1>4. CASE AdoptFound(s)
  <2>1. /\ pc[s] = "adopt" /\ pc'[s] = "commit"
        /\ UNCHANGED <<wire, made, req, file>>
    BY <1>4 DEF AdoptFound, Goto, TypeOK, provider, ledgerVars
  <2>2. PICK x \in live : out'[s].eff = x
    BY <1>4 DEF AdoptFound, TypeOK
  <2>3. PICK w \in Servers(made) : w.id = x
    BY DEF Identified
  <2>4. w \in Servers(wire \cup made)
    BY DEF Servers
  <2>5. \A y \in Servers(wire \cup made) : y.id = x
    BY <2>3, <2>4
  <2> QED
    BY <1>1, <2>1, <2>2, <2>3, <2>5
<1> QED
  BY <1>2, <1>3, <1>4

LEMMA MoneyStep ==
  ASSUME Serial, Money, TypeOK, Stepping, Identified, CacheExact, [Next]_vars
  PROVE  Money'
<1> DEFINE Critical == {"intent", "intentDone", "act", "await", "release", "commit", "adopt"}
<1>1. ASSUME NEW s \in Slots, Handler(s)
      PROVE  Money'
  <2>1. CASE ReadSecret(s) \/ SealSecret(s) \/ RowsReadFile(s) \/ RowsUnparsable(s)
    <3>1. UNCHANGED <<file, made, wire, req>> /\ pc'[s] \notin Critical
      BY <2>1 DEF ReadSecret, SealSecret, RowsReadFile, RowsUnparsable, Goto, Answer,
         TypeOK, ledgerVars, provider
    <3> QED
      BY <3>1, MoneyIdle
  <2>2. CASE Ambiguous(s) \/ AdoptNothing(s) \/ Finish(s)
    <3>1. /\ UNCHANGED <<file, made, wire, req>>
          /\ pc'[s] \in Critical => pc'[s] = "release" /\ req[s].tool # "P2"
      BY <2>2 DEF Ambiguous, AdoptNothing, Finish, Goto, Answer, TypeOK, ledgerVars, provider
    <3> QED
      BY <3>1, MoneyIdle
  <2>3. CASE RowsFromCache(s) \/ RowsParsed(s)
    <3>1. UseRows(s, file)
      BY <2>3 DEF RowsFromCache, RowsParsed, CacheExact, CacheIsFile, Serial
    <3> QED
      BY <3>1, MoneyClaim
  <2>4. CASE RowsReadFails(s)
    BY <2>4 DEF RowsReadFails, Serial
  <2>5. CASE AppendToCache(s)
    <3>1. /\ UNCHANGED <<file, made, wire, req>>
          /\ \/ pc[s] = "intentDone" /\ pc'[s] = "act"
             \/ pc'[s] = "answered"
      BY <2>5 DEF AppendToCache, Goto, TypeOK, provider
    <3> QED
      BY <3>1 DEF Serial, Money, PurchaseExact, AdoptIsPurchase, SettledIsReal, Purchases,
         AtMostOneServer, NoServerForgotten
  <2> QED
    BY <1>1, <2>1, <2>2, <2>3, <2>4, <2>5, MoneyAppend, MoneySend, MoneyOutcome DEF Handler
<1>2. ASSUME NEW s \in Slots, NEW t \in Tools, NEW r \in Runs, Submit(s, t, r)
      PROVE  Money'
  <2>1. UNCHANGED <<file, made, wire>> /\ pc'[s] \notin Critical
    BY <1>2 DEF Submit, Goto, Answer, TypeOK, ledgerVars, provider
  <2> QED
    BY <2>1 DEF Serial, Money, PurchaseExact, AdoptIsPurchase, SettledIsReal, Purchases,
       AtMostOneServer, NoServerForgotten
<1>3. CASE Provider
  <2>1. UNCHANGED <<file, pc, req, call, out>> /\ Servers(made) \subseteq Servers(made')
    BY <1>3 DEF Provider, Execute, Lose, DeleteServer, ledgerVars, handlerVars, Servers
  <2>2. Servers(wire' \cup made') \subseteq Servers(wire \cup made)
    BY <1>3 DEF Provider, Execute, Lose, DeleteServer, Servers
  <2> QED
    BY <2>1, <2>2 DEF Money, PurchaseExact, AdoptIsPurchase, SettledIsReal, Purchases,
       AtMostOneServer, NoServerForgotten
<1>4. CASE Crash
  BY <1>4 DEF Crash, Money, PurchaseExact, AdoptIsPurchase, SettledIsReal, Purchases,
     AtMostOneServer, NoServerForgotten, provider
<1>5. CASE Tick \/ UNCHANGED vars
  <2>1. UNCHANGED <<file, pc, req, call, out, wire, made>>
    BY <1>5 DEF Tick, vars, ledgerVars, handlerVars, provider
  <2> QED
    BY <2>1 DEF Money, PurchaseExact, AdoptIsPurchase, SettledIsReal, Purchases,
       AtMostOneServer, NoServerForgotten
<1> QED
  BY <1>1, <1>2, <1>3, <1>4, <1>5 DEF Next

LEMMA SerialInit == Init => SerialInv
<1> SUFFICES ASSUME Init PROVE SerialInv
  OBVIOUS
<1>1. Prior(<<>>, "P2") = {} /\ Servers({}) = {}
  BY PriorOfEmpty DEF Servers
<1>2. Identified /\ CacheExact
  BY DEF Init, Identified, CacheExact, CacheIsFile
<1>3. PurchaseExact /\ AdoptIsPurchase
  BY DEF Init, PurchaseExact, AdoptIsPurchase
<1>4. SettledIsReal /\ AtMostOneServer /\ NoServerForgotten
  BY <1>1 DEF Init, SettledIsReal, Purchases, Committed, AtMostOneServer, NoServerForgotten
<1> QED
  BY <1>2, <1>3, <1>4, InitType DEF SerialInv

LEMMA SerialStep ==
  ASSUME Serial, SerialInv, [Next]_vars
  PROVE  SerialInv'
<1>1. TypeOK' /\ Stepping'
  BY TypeStep, SteppingStep DEF SerialInv
<1>2. Identified' /\ CacheExact'
  BY IdentifiedStep, CacheStep DEF SerialInv
<1>3. Money'
  BY MoneyStep DEF SerialInv, Money
<1> QED
  BY <1>1, <1>2, <1>3 DEF SerialInv, Money

LEMMA SerialInvariant == ASSUME Serial PROVE Spec => []SerialInv
<1>1. SerialInv /\ [Next]_vars => SerialInv'
  BY SerialStep
<1> QED
  BY SerialInit, <1>1, PTL DEF Spec

(* For callers that wait, one mandate never buys two servers: for every    *)
(* set of runs and free steps, every number of crashes and of retries, and *)
(* however late the provider executes a request.                           *)
THEOREM OneServerWhenSerial == ASSUME Serial PROVE Spec => []AtMostOneServer
<1>1. SerialInv => AtMostOneServer
  BY DEF SerialInv
<1> QED
  BY <1>1, SerialInvariant, PTL

(* Under the same condition no server that exists or may still appear is   *)
(* ever missing from the ledger.                                           *)
THEOREM NoServerForgottenWhenSerial == ASSUME Serial PROVE Spec => []NoServerForgotten
<1>1. SerialInv => NoServerForgotten
  BY DEF SerialInv
<1> QED
  BY <1>1, SerialInvariant, PTL

(* The cache agrees with the file between appends.                         *)
THEOREM CacheIsFileWhenSerial == ASSUME Serial PROVE Spec => []CacheIsFile
<1>1. SerialInv => CacheIsFile
  BY DEF SerialInv, CacheExact
<1> QED
  BY <1>1, SerialInvariant, PTL

-----------------------------------------------------------------------------
(* The credentials of the machine.  As long as no read failed of what a    *)
(* request carries, what the vault holds is what every request for a       *)
(* server carries, and a purchase under way carries nothing else.          *)
Held == {"claim", "claimRead", "intent", "intentDone", "act"}

Matching ==
  /\ \A w \in Servers(wire \cup made) : w.secret = vault /\ vault # 0
  /\ \A s \in Slots :
       /\ pc[s] = "seal" => Servers(wire \cup made) = {} /\ secret[s] # 0
       /\ pc[s] \in Held /\ req[s].tool = "P2" => secret[s] = vault /\ vault # 0

Sealed ==
  /\ nextId # 0
  /\ \A x, y \in made : x.id = y.id => x = y
  /\ \A s \in Slots : pc[s] \in {"gate", "gateRead"} => req[s].tool # "P2"
  /\ misread \/ Matching

(* A step that creates nothing and brings no handler to where a purchase   *)
(* relies on its secret.                                                   *)
LEMMA SealedQuiet ==
  ASSUME Serial, TypeOK, Sealed, NEW s \in Slots, UNCHANGED <<sealed, made, req, nextId>>,
         wire' \subseteq wire,
         pc'[s] \in {"gate", "gateRead"} => pc[s] \in {"gate", "gateRead"},
         pc'[s] \in Held => (pc[s] \in Held \/ req[s].tool # "P2") /\ secret'[s] = secret[s],
         pc'[s] # "seal"
  PROVE  Sealed'
<1>1. \A t \in Slots : t = s
  BY DEF Serial
<1>2. Servers(wire' \cup made') \subseteq Servers(wire \cup made)
  BY DEF Servers
<1> QED
  BY <1>1, <1>2 DEF Sealed, Matching, sealed

LEMMA SealedStep ==
  ASSUME Serial, TypeOK, Stepping, Identified, Sealed, [Next]_vars
  PROVE  Sealed'
<1>1. ASSUME NEW s \in Slots, Handler(s) PROVE Sealed'
  <2>1. \A t \in Slots : t = s
    BY DEF Serial
  <2>2. CASE ReadSecret(s)
    <3>1. pc[s] = "secrets" /\ UNCHANGED <<vault, made, wire, req>>
      BY <2>2 DEF ReadSecret, provider
    <3>2. CASE /\ vault # 0 /\ secret'[s] = vault /\ pc'[s] = "claim"
               /\ UNCHANGED <<nextId, misread>>
      BY <2>1, <3>1, <3>2 DEF Sealed, Matching, Held
    <3>3. CASE secret'[s] = nextId /\ pc'[s] = "seal" /\ nextId' = nextId + 1
      <4>1. nextId' # 0
        BY <3>3 DEF TypeOK
      <4>2. CASE misread'
        BY <2>1, <3>1, <3>3, <4>1, <4>2 DEF Sealed, Held
      <4>3. CASE ~misread'
        <5>1. ~misread /\ \A w \in Servers(wire \cup made) : w.secret # vault
          BY <2>2, <3>3, <4>3 DEF ReadSecret, Goto, TypeOK
        <5>2. Matching /\ Servers(wire \cup made) = {}
          BY <5>1 DEF Sealed, Matching
        <5> QED
          BY <2>1, <3>1, <3>3, <4>1, <5>2 DEF Sealed, Matching, Held
      <4> QED
        BY <4>2, <4>3
    <3> QED
      BY <2>2, <3>2, <3>3 DEF ReadSecret, Goto, TypeOK
  <2>3. CASE SealSecret(s)
    <3>1. /\ pc[s] = "seal" /\ UNCHANGED <<misread, made, wire, req, nextId, secret>>
          /\ pc'[s] = "claim" /\ vault' = secret[s]
      BY <2>3 DEF SealSecret, provider, Goto, TypeOK
    <3>2. misread \/ (Servers(wire \cup made) = {} /\ secret[s] # 0)
      BY <3>1 DEF Sealed, Matching
    <3> QED
      BY <2>1, <3>1, <3>2 DEF Sealed, Matching, Held
  <2>4. CASE RowsFromCache(s) \/ RowsReadFails(s) \/ RowsParsed(s)
    <3>1. PICK rows : UseRows(s, rows)
      BY <2>4 DEF RowsFromCache, RowsReadFails, RowsParsed
    <3>2. UNCHANGED <<sealed, made, wire, req, nextId, secret>>
      BY <3>1 DEF UseRows, provider
    <3>3. CASE PassGate(s, rows)
      <4>1. pc[s] \in {"gate", "gateRead"} /\ pc'[s] \in {"answered", "claim"}
        BY <3>3 DEF PassGate, Goto, Answer, TypeOK
      <4>2. req[s].tool # "P2"
        BY <4>1 DEF Sealed
      <4> QED
        BY <3>2, <4>1, <4>2, SealedQuiet
    <3>4. CASE Claim(s, rows)
      <4>1. pc[s] \in {"claim", "claimRead"} /\ pc'[s] \in {"answered", "claim", "intent", "adopt"}
        BY <3>1, <3>4, UseRowsPc DEF Claim
      <4> QED
        BY <3>2, <4>1, SealedQuiet DEF Held
    <3> QED
      BY <3>1, <3>3, <3>4 DEF UseRows
  <2>5. CASE Send(s)
    <3> DEFINE w0 == [id |-> nextId, key |-> req[s].tool, run |-> req[s].run, secret |-> secret[s]]
    <3>1. /\ pc[s] = "act" /\ pc'[s] = "await" /\ UNCHANGED <<sealed, made, req>>
          /\ wire' = wire \cup {w0} /\ nextId' = nextId + 1
      BY <2>5 DEF Send, Goto, TypeOK
    <3>2. w0.secret = secret[s] /\ w0.key = req[s].tool
      OBVIOUS
    <3> HIDE DEF w0
    <3>3. \A w \in Servers(wire' \cup made') : w \in Servers(wire \cup made) \/ (w = w0 /\ req[s].tool = "P2")
      BY <3>1, <3>2 DEF Servers
    <3>4. misread \/ \A w \in Servers(wire' \cup made') : w.secret = vault' /\ vault' # 0
      BY <3>1, <3>2, <3>3 DEF Sealed, Matching, Held, sealed
    <3>5. nextId' # 0
      BY <3>1 DEF TypeOK
    <3> QED
      BY <2>1, <3>1, <3>4, <3>5 DEF Sealed, Matching, Held, sealed
  <2>6. CASE RowsReadFile(s) \/ AppendToFile(s) \/ AppendToCache(s)
    <3>1. UNCHANGED <<sealed, made, wire, req, nextId, secret>>
      BY <2>6 DEF RowsReadFile, AppendToFile, AppendToCache, provider
    <3>2. \/ pc[s] = "gate" /\ pc'[s] = "gateRead"
          \/ pc[s] \in Held /\ pc'[s] \in Held
          \/ pc'[s] \in {"settled", "answered"}
      BY <2>6 DEF RowsReadFile, AppendToFile, AppendToCache, Goto, TypeOK, Held
    <3> QED
      BY <3>1, <3>2, SealedQuiet DEF Held
  <2>7. CASE RowsUnparsable(s) \/ Succeeded(s) \/ Ambiguous(s) \/ AdoptFound(s) \/ AdoptNothing(s) \/ Finish(s)
    <3>1. UNCHANGED <<sealed, made, wire, req, nextId>>
      BY <2>7 DEF RowsUnparsable, Succeeded, Ambiguous, AdoptFound, AdoptNothing, Finish, provider
    <3>2. pc'[s] \in {"answered", "commit", "release", "idle"}
      BY <2>7 DEF RowsUnparsable, Succeeded, Ambiguous, AdoptFound, AdoptNothing, Finish,
         Goto, Answer, TypeOK
    <3> QED
      BY <3>1, <3>2, SealedQuiet DEF Held
  <2>8. CASE Rejected(s)
    <3>1. UNCHANGED <<sealed, made, req, nextId>> /\ wire' \subseteq wire /\ pc'[s] = "release"
      BY <2>8 DEF Rejected, Goto, TypeOK
    <3> QED
      BY <3>1, SealedQuiet DEF Held
  <2> QED
    BY <1>1, <2>2, <2>3, <2>4, <2>5, <2>6, <2>7, <2>8 DEF Handler
<1>2. ASSUME NEW s \in Slots, NEW t \in Tools, NEW r \in Runs, Submit(s, t, r)
      PROVE  Sealed'
  <2>1. UNCHANGED <<sealed, made, wire, nextId, secret>> /\ req'[s].tool = t
    BY <1>2 DEF Submit, provider, TypeOK
  <2>2. pc'[s] \in {"answered", "secrets"} \/ (t # "P2" /\ pc'[s] = "gate")
    BY <1>2 DEF Submit, Goto, Answer, TypeOK
  <2>3. \A u \in Slots : u = s
    BY DEF Serial
  <2> QED
    BY <2>1, <2>2, <2>3 DEF Sealed, Matching, Held, sealed
<1>3. CASE Provider
  <2>1. UNCHANGED <<pc, req, secret, sealed, nextId>>
    BY <1>3 DEF Provider, Execute, Lose, DeleteServer, handlerVars
  <2>2. Servers(wire' \cup made') \subseteq Servers(wire \cup made)
    BY <1>3 DEF Provider, Execute, Lose, DeleteServer, Servers
  <2>3. \A x, y \in made' : x.id = y.id => x = y
    <3>1. made' = made \/ \E w \in wire : made' = made \cup {w}
      BY <1>3 DEF Provider, Execute, Lose, DeleteServer
    <3> QED
      BY <3>1 DEF Sealed, Identified
  <2> QED
    BY <2>1, <2>2, <2>3 DEF Sealed, Matching, sealed
<1>4. CASE Crash
  BY <1>4 DEF Crash, Sealed, Matching, Held, provider, sealed
<1>5. CASE Tick \/ UNCHANGED vars
  BY <1>5 DEF Tick, vars, Sealed, Matching, provider, handlerVars, sealed
<1> QED
  BY <1>1, <1>2, <1>3, <1>4, <1>5 DEF Next

(* The credentials in the vault open the server the ledger names, however  *)
(* often the process dies between minting, sealing and buying, and however *)
(* often a read of the vault fails before a request carries them.          *)
THEOREM CredentialFitsWhenSerial == ASSUME Serial PROVE Spec => []CredentialFits
<1> DEFINE Inv == SerialInv /\ Sealed
<1>1. Init => Inv
  <2>1. Init => Sealed
    BY DEF Init, Sealed, Matching, Held, Servers
  <2> QED
    BY <2>1, SerialInit
<1>2. Inv /\ [Next]_vars => Inv'
  BY SerialStep, SealedStep DEF SerialInv
<1>3. Inv => CredentialFits
  <2> SUFFICES ASSUME Inv, ~misread, NEW p \in Purchases(file), NEW w \in made, w.id = p.eff
               PROVE  w.secret = vault
    BY DEF CredentialFits, VaultOpensServer
  <2>1. PICK x \in Servers(made) : x.id = p.eff
    BY DEF SerialInv, SettledIsReal
  <2>2. w = x /\ x \in Servers(wire \cup made)
    BY <2>1 DEF Sealed, Servers
  <2> QED
    BY <2>1, <2>2 DEF Sealed, Matching
<1> QED
  BY <1>1, <1>2, <1>3, PTL DEF Spec

-----------------------------------------------------------------------------
(* How a step moves the record of the purchase: an append of a row about   *)
(* it, and nothing else; and then the record was not settled.              *)
LEMMA QuietFile ==
  ASSUME [Next]_vars, ~\E s \in Slots : AppendToFile(s)
  PROVE  UNCHANGED file
<1>1. ASSUME NEW s \in Slots, Handler(s) PROVE UNCHANGED file
  <2>1. ~Send(s) => UNCHANGED file
    BY <1>1, QuietStep
  <2> QED
    BY <2>1 DEF Send, ledgerVars
<1>2. ASSUME NEW s \in Slots, NEW t \in Tools, NEW r \in Runs, Submit(s, t, r)
      PROVE  UNCHANGED file
  BY <1>2 DEF Submit, ledgerVars
<1> QED
  BY <1>1, <1>2 DEF Next, Provider, Execute, Lose, DeleteServer, Crash, Tick, vars, ledgerVars

(* The ledger file puts the purchase in exactly one of claim()'s cases.    *)
LEMMA FileDecides ==
  ASSUME TypeOK
  PROVE  /\ Free(file, "P2") => ~InFlight(file, "P2") /\ Committed(file, "P2") = {}
         /\ InFlight(file, "P2") => Committed(file, "P2") = {}
<1>1. file \in Seq(Row)
  BY DEF TypeOK
<1>2. ASSUME NEW i \in 1..Len(file) PROVE file[i].state \in States
  <2>1. file[i] \in Row
    BY <1>1, ElementOfSeq
  <2> QED
    BY <2>1 DEF Row
<1> QED
  BY <1>1, <1>2, ClaimIsExclusive

LEMMA RecordStep ==
  ASSUME Serial, SerialInv, [Next]_vars
  PROVE  \/ Prior(file, "P2")' = Prior(file, "P2")
         \/ \E s \in Slots : /\ AppendToFile(s) /\ req[s].tool = "P2"
                             /\ Prior(file, "P2")' = {RowFor(s, Written(s))}
                             /\ Committed(file, "P2") = {}
<1>1. ASSUME NEW s \in Slots, AppendToFile(s)
      PROVE  \/ Prior(file, "P2")' = Prior(file, "P2")
             \/ /\ req[s].tool = "P2" /\ Prior(file, "P2")' = {RowFor(s, Written(s))}
                /\ Committed(file, "P2") = {}
  <2> DEFINE r == RowFor(s, Written(s))
  <2>1. r \in Row /\ file' = Append(file, r)
    BY <1>1, RowForType DEF AppendToFile, SerialInv
  <2>2. r.key = req[s].tool
    BY DEF RowFor
  <2>3. Prior(file', "P2") = IF req[s].tool = "P2" THEN {r} ELSE Prior(file, "P2")
    BY <2>1, <2>2, PriorOfAppend DEF SerialInv, TypeOK
  <2>4. ASSUME req[s].tool = "P2" PROVE Committed(file, "P2") = {}
    <3>1. Free(file, "P2") \/ InFlight(file, "P2")
      BY <1>1, <2>4 DEF AppendToFile, SerialInv, PurchaseExact
    <3> QED
      BY <3>1, FileDecides DEF SerialInv
  <2> QED
    BY <2>3, <2>4
<1>2. ASSUME ~\E s \in Slots : AppendToFile(s)
      PROVE  UNCHANGED file
  BY <1>2, QuietFile
<1> QED
  BY <1>1, <1>2

(* A recorded purchase never changes, so later steps act on the server     *)
(* that was bought and the run window cannot be moved.                     *)
THEOREM RecordIsFinalWhenSerial == ASSUME Serial PROVE Spec => RecordIsFinal
<1>1. SerialInv /\ [Next]_vars =>
        [Purchases(file) # {} => Purchases(file)' = Purchases(file)]_vars
  BY RecordStep DEF Purchases, Committed
<1> QED
  BY <1>1, SerialInvariant, PTL DEF Spec, RecordIsFinal

-----------------------------------------------------------------------------
(* The gateway implements module Purchase.                                 *)

LEMMA AppendRefines ==
  ASSUME Serial, SerialInv, NEW s \in Slots, AppendToFile(s)
  PROVE  Abstract!Next \/ UNCHANGED <<RecordOf(file), Servers(made)>>
<1> DEFINE r == RowFor(s, Written(s))
<1>1. r \in Row /\ file' = Append(file, r) /\ made' = made
  BY RowForType DEF AppendToFile, SerialInv, provider
<1>2. r.key = req[s].tool /\ r.state = Written(s)
  BY DEF RowFor
<1>3. Prior(file', "P2") = IF req[s].tool = "P2" THEN {r} ELSE Prior(file, "P2")
  BY <1>1, <1>2, PriorOfAppend DEF SerialInv, TypeOK
<1>4. UNCHANGED Servers(made) /\ Servers(made) \subseteq Servers(wire \cup made)
  BY <1>1 DEF Servers
<1> HIDE DEF r
<1>5. CASE req[s].tool # "P2"
  BY <1>3, <1>4, <1>5 DEF RecordOf, InFlight, Purchases, Committed
<1>6. CASE req[s].tool = "P2" /\ pc[s] = "intent"
  <2>1. RecordOf(file) = "none" /\ Servers(made) = {}
    BY <1>4, <1>6, FileDecides DEF SerialInv, PurchaseExact, RecordOf, Purchases
  <2>2. RecordOf(file') = "open"
    BY <1>2, <1>3, <1>6 DEF RecordOf, InFlight, Written
  <2> QED
    BY <1>4, <2>1, <2>2 DEF Abstract!Next, Abstract!Open
<1>7. CASE req[s].tool = "P2" /\ pc[s] = "commit"
  <2>1. RecordOf(file) = "open" /\ Servers(made) # {}
    BY <1>7 DEF SerialInv, PurchaseExact, RecordOf
  <2>2. RecordOf(file') = "settled"
    BY <1>2, <1>3, <1>7 DEF RecordOf, InFlight, Purchases, Committed, Written
  <2> QED
    BY <1>4, <2>1, <2>2 DEF Abstract!Next, Abstract!Settle
<1>8. CASE req[s].tool = "P2" /\ pc[s] = "release"
  <2>1. RecordOf(file) = "open" /\ Servers(made) = {}
    BY <1>4, <1>8 DEF SerialInv, PurchaseExact, RecordOf
  <2>2. RecordOf(file') = "none"
    BY <1>2, <1>3, <1>8 DEF RecordOf, InFlight, Purchases, Committed, Written
  <2> QED
    BY <1>4, <2>1, <2>2 DEF Abstract!Next, Abstract!Release
<1> QED
  BY <1>5, <1>6, <1>7, <1>8 DEF AppendToFile

LEMMA ExecuteRefines ==
  ASSUME Serial, SerialInv, NEW w \in wire, Execute(w)
  PROVE  Abstract!Next \/ UNCHANGED <<RecordOf(file), Servers(made)>>
<1>1. file' = file /\ made' = made \cup {w}
  BY DEF Execute, ledgerVars
<1>2. CASE w.key # "P2"
  BY <1>1, <1>2 DEF Servers
<1>3. CASE w.key = "P2"
  <2>1. w \in Servers(wire \cup made)
    BY <1>3 DEF Servers
  <2>2. Servers(made) = {}
    BY <2>1 DEF SerialInv, Identified, AtMostOneServer, Servers
  <2>3. Servers(made') = {w}
    BY <1>1, <1>3, <2>2 DEF Servers
  <2>4. RecordOf(file) = "open"
    BY <2>1, <2>2 DEF SerialInv, NoServerForgotten, SettledIsReal, Purchases, Committed,
       RecordOf, InFlight
  <2> QED
    BY <1>1, <2>2, <2>3, <2>4 DEF Abstract!Next, Abstract!Buy
<1> QED
  BY <1>2, <1>3

LEMMA QuietMade ==
  ASSUME [Next]_vars, ~\E w \in wire : Execute(w)
  PROVE  made' = made
<1>1. ASSUME NEW s \in Slots, Handler(s), ~AppendToFile(s), ~Send(s) PROVE made' = made
  BY <1>1, QuietStep
<1>2. ASSUME NEW s \in Slots, AppendToFile(s) \/ Send(s) PROVE made' = made
  BY <1>2 DEF AppendToFile, Send, provider
<1>3. ASSUME NEW s \in Slots, NEW t \in Tools, NEW r \in Runs, Submit(s, t, r)
      PROVE  made' = made
  BY <1>3 DEF Submit, provider
<1> QED
  BY <1>1, <1>2, <1>3 DEF Next, Provider, Lose, DeleteServer, Crash, Tick, vars, provider

(* With callers that wait, the gateway keeps the promise of Purchase: the  *)
(* record is open before a server appears, one server appears, only an     *)
(* empty claim is released, and what is settled stays.                     *)
THEOREM GatewayImplementsPurchase == ASSUME Serial PROVE Spec => ImplementsPurchase
<1>1. Init => Abstract!Init
  <2>1. Prior(<<>>, "P2") = {} /\ Servers({}) = {}
    BY PriorOfEmpty DEF Servers
  <2> QED
    BY <2>1 DEF Init, Abstract!Init, RecordOf, InFlight, Purchases, Committed
<1>2. SerialInv /\ [Next]_vars => [Abstract!Next]_<<RecordOf(file), Servers(made)>>
  <2> SUFFICES ASSUME SerialInv, [Next]_vars
               PROVE  Abstract!Next \/ UNCHANGED <<RecordOf(file), Servers(made)>>
    OBVIOUS
  <2>1. CASE \E s \in Slots : AppendToFile(s)
    BY <2>1, AppendRefines
  <2>2. CASE \E w \in wire : Execute(w)
    BY <2>2, ExecuteRefines
  <2>3. CASE (~\E s \in Slots : AppendToFile(s)) /\ ~\E w \in wire : Execute(w)
    BY <2>3, QuietFile, QuietMade DEF RecordOf, Servers
  <2> QED
    BY <2>1, <2>2, <2>3
<1> QED
  BY <1>1, <1>2, SerialInvariant, PTL DEF Spec, ImplementsPurchase, Abstract!PurchaseSpec

-----------------------------------------------------------------------------
(* What holds however many handlers overlap, reads fail and lines are torn *)
(* out: the rows a handler goes by are rows of the file, which only grows. *)

OnFile(f, row) == \E i \in 1..Len(f) : f[i] = row
Known(f, rows) == \A i \in 1..Len(rows) : OnFile(f, rows[i])

RowsKnown ==
  /\ cache # NoRows => Known(file, cache)
  /\ \A s \in Slots : Known(file, view[s])

LEMMA FileGrows ==
  ASSUME TypeOK, Stepping, [Next]_vars
  PROVE  \A row : OnFile(file, row) => OnFile(file', row)
<1>1. ASSUME NEW s \in Slots, AppendToFile(s)
      PROVE  \A row : OnFile(file, row) => OnFile(file', row)
  <2>1. PICK r \in Row : file' = Append(file, r)
    BY <1>1, RowForType DEF AppendToFile
  <2>2. /\ Len(file) \in Nat /\ Len(file') = Len(file) + 1
        /\ \A i \in 1..Len(file) : file'[i] = file[i]
    BY <2>1 DEF TypeOK
  <2> QED
    BY <2>2 DEF OnFile
<1> QED
  BY <1>1, QuietFile

LEMMA KnownStays ==
  ASSUME TypeOK, Stepping, [Next]_vars, NEW rows, Known(file, rows)
  PROVE  Known(file', rows)
BY FileGrows DEF Known

LEMMA PriorOnFile ==
  ASSUME NEW f, NEW rows, Known(f, rows), NEW k, NEW p \in Prior(rows, k)
  PROVE  OnFile(f, p) /\ p.key = k
<1>1. PICK i \in 1..Len(rows) : p = rows[i] /\ rows[i].key = k
  BY PriorIsARow
<1> QED
  BY <1>1 DEF Known

(* The rows that come to a handler are known.                              *)
LEMMA RowsKnownStep ==
  ASSUME TypeOK, Stepping, RowsKnown, [Next]_vars
  PROVE  RowsKnown'
<1>1. /\ cache # NoRows => Known(file', cache)
      /\ \A s \in Slots : Known(file', view[s])
  BY KnownStays DEF RowsKnown
<1>2. Known(file', <<>>)
  BY DEF Known
<1>3. view \in [Slots -> Seq(Row)] /\ file \in Seq(Row)
  BY DEF TypeOK
<1>4. ASSUME NEW s \in Slots, Handler(s)
      PROVE  RowsKnown'
  <2>1. CASE UNCHANGED <<cache, view>>
    BY <1>1, <2>1 DEF RowsKnown
  <2>2. CASE RowsReadFile(s)
    <3>1. Known(file', file) /\ view' = [view EXCEPT ![s] = file] /\ cache' = cache
      BY <2>2 DEF RowsReadFile, ledgerVars, Known, OnFile
    <3> QED
      BY <1>1, <1>3, <3>1 DEF RowsKnown
  <2>3. CASE RowsReadFails(s) \/ RowsParsed(s) \/ RowsUnparsable(s)
    <3>1. cache' \in {<<>>, cache, view[s]} /\ \A t \in Slots : view'[t] \in {<<>>, view[t]}
      BY <1>3, <2>3 DEF RowsReadFails, RowsParsed, RowsUnparsable, ledgerVars
    <3> QED
      BY <1>1, <1>2, <3>1 DEF RowsKnown
  <2>4. CASE AppendToFile(s)
    <3> DEFINE r == RowFor(s, Written(s))
    <3>1. r \in Row /\ file' = Append(file, r)
      BY <2>4, RowForType DEF AppendToFile
    <3>2. OnFile(file', r)
      BY <1>3, <3>1 DEF OnFile
    <3>3. Known(file', <<r>>)
      BY <3>2 DEF Known
    <3>4. view' = [view EXCEPT ![s] = <<r>>] /\ cache' = cache
      BY <2>4 DEF AppendToFile
    <3> QED
      BY <1>1, <1>3, <3>3, <3>4 DEF RowsKnown
  <2>5. CASE AppendToCache(s)
    <3>1. ASSUME cache # NoRows PROVE Known(file', cache \o view[s])
      <4>1. cache \in Seq(Row) /\ view[s] \in Seq(Row)
        BY <1>3, <3>1 DEF TypeOK
      <4> QED
        BY <1>1, <3>1, <4>1 DEF Known
    <3>2. cache' = IF cache = NoRows THEN NoRows ELSE cache \o view[s]
      BY <2>5 DEF AppendToCache
    <3>3. view' = [view EXCEPT ![s] = <<>>]
      BY <2>5 DEF AppendToCache
    <3> QED
      BY <1>1, <1>2, <1>3, <3>1, <3>2, <3>3 DEF RowsKnown
  <2> QED
    BY <1>4, <2>1, <2>2, <2>3, <2>4, <2>5 DEF Handler, ReadSecret, SealSecret, RowsFromCache,
       Send, Succeeded, Rejected, Ambiguous, AdoptFound, AdoptNothing, Finish, ledgerVars
<1>5. CASE Crash
  BY <1>2, <1>5 DEF Crash, RowsKnown
<1>6. CASE UNCHANGED <<cache, view>>
  BY <1>1, <1>6 DEF RowsKnown
<1> QED
  BY <1>4, <1>5, <1>6 DEF Next, Submit, Provider, Execute, Lose, DeleteServer, Tick, vars,
     ledgerVars, handlerVars

-----------------------------------------------------------------------------
(* What is recorded is what the provider created.                          *)

CommitIsReal == \A s \in Slots :
  pc[s] = "commit" => \E w \in made : w.id = out[s].eff /\ w.key = req[s].tool

(* A handler comes to its commit by an answer or by a server it found.     *)
LEMMA CommitPc ==
  ASSUME TypeOK, NEW s \in Slots, Handler(s), ~Succeeded(s), ~AdoptFound(s)
  PROVE  /\ pc'[s] # "commit"
         /\ \A t \in Slots \ {s} : pc'[t] = pc[t] /\ out'[t] = out[t]
         /\ UNCHANGED <<req, made>>
<1> USE DEF TypeOK, Goto, Answer, provider
<1>1. CASE RowsFromCache(s) \/ RowsReadFails(s) \/ RowsParsed(s)
  <2>1. PICK rows : UseRows(s, rows)
    BY <1>1 DEF RowsFromCache, RowsReadFails, RowsParsed
  <2>2. pc'[s] # "commit" /\ \A t \in Slots \ {s} : pc'[t] = pc[t]
    BY <2>1, UseRowsPc
  <2>3. \A t \in Slots \ {s} : out'[t] = out[t]
    BY <2>1 DEF UseRows, PassGate, Claim
  <2> QED
    BY <2>1, <2>2, <2>3 DEF UseRows
<1>2. CASE ReadSecret(s) \/ SealSecret(s) \/ RowsReadFile(s) \/ RowsUnparsable(s)
  BY <1>2 DEF ReadSecret, SealSecret, RowsReadFile, RowsUnparsable
<1>3. CASE AppendToFile(s) \/ AppendToCache(s) \/ Send(s)
  BY <1>3 DEF AppendToFile, AppendToCache, Send
<1>4. CASE Rejected(s) \/ Ambiguous(s)
  BY <1>4 DEF Rejected, Ambiguous
<1>5. CASE AdoptNothing(s) \/ Finish(s)
  BY <1>5 DEF AdoptNothing, Finish
<1> QED
  BY <1>1, <1>2, <1>3, <1>4, <1>5 DEF Handler

(* Only a purchase comes to the adoption.                                  *)
LEMMA AdoptIsPurchaseStep ==
  ASSUME TypeOK, AdoptIsPurchase, [Next]_vars
  PROVE  AdoptIsPurchase'
<1> USE DEF AdoptIsPurchase, TypeOK, Goto, Answer
<1>1. ASSUME NEW s \in Slots, NEW rows, UseRows(s, rows) PROVE AdoptIsPurchase'
  BY <1>1 DEF UseRows, PassGate, Claim
<1>2. ASSUME NEW s \in Slots, Handler(s) PROVE AdoptIsPurchase'
  <2>1. CASE RowsFromCache(s) \/ RowsReadFails(s) \/ RowsParsed(s)
    BY <2>1, <1>1 DEF RowsFromCache, RowsReadFails, RowsParsed
  <2>2. CASE ReadSecret(s) \/ SealSecret(s) \/ RowsReadFile(s) \/ RowsUnparsable(s)
    BY <2>2 DEF ReadSecret, SealSecret, RowsReadFile, RowsUnparsable
  <2>3. CASE AppendToFile(s) \/ AppendToCache(s) \/ Send(s) \/ Succeeded(s)
    BY <2>3 DEF AppendToFile, AppendToCache, Send, Succeeded
  <2>4. CASE Rejected(s) \/ Ambiguous(s) \/ AdoptFound(s) \/ AdoptNothing(s) \/ Finish(s)
    BY <2>4 DEF Rejected, Ambiguous, AdoptFound, AdoptNothing, Finish
  <2> QED
    BY <1>2, <2>1, <2>2, <2>3, <2>4 DEF Handler
<1>3. ASSUME NEW s \in Slots, NEW t \in Tools, NEW r \in Runs, Submit(s, t, r)
      PROVE  AdoptIsPurchase'
  BY <1>3 DEF Submit
<1>4. CASE Provider \/ Crash \/ Tick \/ UNCHANGED vars
  BY <1>4 DEF Provider, Execute, Lose, DeleteServer, Crash, Tick, vars, handlerVars
<1> QED
  BY <1>2, <1>3, <1>4 DEF Next

LEMMA CommitIsRealStep ==
  ASSUME TypeOK, Identified, AdoptIsPurchase, CommitIsReal, [Next]_vars
  PROVE  CommitIsReal'
<1> USE DEF CommitIsReal
<1>1. ASSUME NEW s \in Slots, Succeeded(s) \/ AdoptFound(s) PROVE CommitIsReal'
  <2>1. /\ UNCHANGED <<req, made>>
        /\ \A t \in Slots \ {s} : pc'[t] = pc[t] /\ out'[t] = out[t]
    BY <1>1 DEF Succeeded, AdoptFound, Goto, TypeOK, provider
  <2>2. \E w \in made : w.id = out'[s].eff /\ w.key = req[s].tool
    <3>1. CASE Succeeded(s)
      <4>1. pc[s] = "await" /\ out'[s].eff = call[s] /\ \E w \in made : w.id = call[s]
        BY <3>1 DEF Succeeded, TypeOK
      <4> QED
        BY <4>1 DEF Identified
    <3>2. CASE AdoptFound(s)
      <4>1. req[s].tool = "P2" /\ \E x \in live : out'[s].eff = x
        BY <3>2 DEF AdoptFound, AdoptIsPurchase, TypeOK
      <4> QED
        BY <4>1 DEF Identified, Servers
    <3> QED
      BY <1>1, <3>1, <3>2
  <2> QED
    BY <2>1, <2>2
<1>2. ASSUME NEW s \in Slots, Handler(s), ~Succeeded(s), ~AdoptFound(s) PROVE CommitIsReal'
  BY <1>2, CommitPc
<1>3. ASSUME NEW s \in Slots, NEW t \in Tools, NEW r \in Runs, Submit(s, t, r)
      PROVE  CommitIsReal'
  <2>1. pc'[s] # "commit" /\ made' = made
    BY <1>3 DEF Submit, Goto, Answer, TypeOK, provider
  <2>2. \A q \in Slots \ {s} : pc'[q] = pc[q] /\ out'[q] = out[q] /\ req'[q] = req[q]
    BY <1>3 DEF Submit, Goto, Answer, TypeOK
  <2> QED
    BY <2>1, <2>2
<1>4. CASE Provider \/ Crash \/ Tick \/ UNCHANGED vars
  BY <1>4 DEF Provider, Execute, Lose, DeleteServer, Crash, Tick, vars, handlerVars, provider
<1> QED
  BY <1>1, <1>2, <1>3, <1>4 DEF Next

LEMMA CommittedIsRealStep ==
  ASSUME TypeOK, Stepping, CommitIsReal, CommittedIsReal, [Next]_vars
  PROVE  CommittedIsReal'
<1>1. made \subseteq made'
  BY QuietMade DEF Execute
<1>2. ASSUME NEW s \in Slots, AppendToFile(s) PROVE CommittedIsReal'
  <2> DEFINE r == RowFor(s, Written(s))
  <2>1. r \in Row /\ file' = Append(file, r)
    BY <1>2, RowForType DEF AppendToFile
  <2>2. r.state = "COMMITTED" => pc[s] = "commit" /\ r.eff = out[s].eff /\ r.key = req[s].tool
    BY DEF RowFor, Written
  <2>3. r.state = "COMMITTED" => \E w \in made : w.id = r.eff /\ w.key = r.key
    BY <2>2 DEF CommitIsReal
  <2> HIDE DEF r
  <2>4. /\ Len(file) \in Nat /\ Len(file') = Len(file) + 1 /\ file'[Len(file) + 1] = r
        /\ \A i \in 1..Len(file) : file'[i] = file[i]
    BY <2>1 DEF TypeOK
  <2> QED
    BY <1>1, <2>3, <2>4 DEF CommittedIsReal
<1>3. CASE ~\E s \in Slots : AppendToFile(s)
  BY <1>1, <1>3, QuietFile DEF CommittedIsReal
<1> QED
  BY <1>2, <1>3

(* Nothing is on file as done that the provider has not done, for any      *)
(* number of overlapping handlers: what is recorded was answered or found. *)
THEOREM CommittedIsRealHolds == Spec => []CommittedIsReal
<1> DEFINE Inv == TypeOK /\ Stepping /\ Identified /\ AdoptIsPurchase /\ CommitIsReal /\ CommittedIsReal
<1>1. Init => Inv
  <2>1. Init => Identified /\ AdoptIsPurchase /\ CommitIsReal /\ CommittedIsReal
    BY DEF Init, Identified, AdoptIsPurchase, CommitIsReal, CommittedIsReal
  <2> QED
    BY <2>1, InitType
<1>2. Inv /\ [Next]_vars => Inv'
  BY TypeStep, SteppingStep, IdentifiedStep, AdoptIsPurchaseStep, CommitIsRealStep,
     CommittedIsRealStep
<1> QED
  BY <1>1, <1>2, PTL DEF Spec

-----------------------------------------------------------------------------
(* Free steps come after the purchase.                                     *)

Bought(f) == \E i \in 1..Len(f) : f[i].key = "P2" /\ f[i].state = "COMMITTED"

(* A handler past the gate has seen the purchase; one that reads the vault *)
(* is the purchase itself.                                                 *)
Admitted == \A s \in Slots :
  /\ pc[s] \in {"secrets", "seal"} => req[s].tool = "P2"
  /\ pc[s] \in {"claim", "claimRead", "intent", "intentDone", "act"} /\ req[s].tool # "P2"
       => Bought(file)

LEMMA BoughtStays ==
  ASSUME TypeOK, Stepping, [Next]_vars, Bought(file)
  PROVE  Bought(file')
<1>1. PICK i \in 1..Len(file) : file[i].key = "P2" /\ file[i].state = "COMMITTED"
  BY DEF Bought
<1>2. OnFile(file', file[i])
  BY FileGrows DEF OnFile
<1> QED
  BY <1>1, <1>2 DEF OnFile, Bought

LEMMA GateShowsPurchase ==
  ASSUME NEW f, NEW rows, Known(f, rows), Purchases(rows) # {}
  PROVE  Bought(f)
<1>1. PICK p \in Prior(rows, "P2") : p.state = "COMMITTED"
  BY DEF Purchases, Committed
<1>2. OnFile(f, p) /\ p.key = "P2"
  BY PriorOnFile
<1> QED
  BY <1>1, <1>2 DEF OnFile, Bought

LEMMA AdmittedRows ==
  ASSUME TypeOK, Admitted, NEW s \in Slots, NEW rows, UseRows(s, rows), Known(file, rows)
  PROVE  Admitted'
<1>1. UNCHANGED <<file, req>> /\ \A t \in Slots \ {s} : pc'[t] = pc[t]
  BY UseRowsPc DEF UseRows
<1>2. CASE PassGate(s, rows)
  <2>1. pc'[s] = "answered" \/ (pc'[s] = "claim" /\ Purchases(rows) # {})
    BY <1>2 DEF PassGate, Goto, Answer, TypeOK
  <2> QED
    BY <1>1, <2>1, GateShowsPurchase DEF Admitted
<1>3. CASE Claim(s, rows)
  <2>1. pc[s] \in {"claim", "claimRead"} /\ pc'[s] \in {"answered", "intent", "adopt"}
    BY <1>3 DEF Claim, Goto, Answer, TypeOK
  <2> QED
    BY <1>1, <2>1 DEF Admitted
<1> QED
  BY <1>2, <1>3 DEF UseRows

LEMMA AdmittedStep ==
  ASSUME TypeOK, Stepping, RowsKnown, Admitted, [Next]_vars
  PROVE  Admitted'
<1>1. Bought(file) => Bought(file')
  BY BoughtStays
<1>2. ASSUME NEW s \in Slots, Handler(s) PROVE Admitted'
  <2>1. CASE RowsFromCache(s) \/ RowsReadFails(s) \/ RowsParsed(s)
    <3>1. PICK rows : UseRows(s, rows) /\ Known(file, rows)
      BY <2>1 DEF RowsFromCache, RowsReadFails, RowsParsed, RowsKnown, Known
    <3> QED
      BY <3>1, AdmittedRows
  <2>2. CASE ReadSecret(s) \/ SealSecret(s) \/ RowsReadFile(s) \/ RowsUnparsable(s)
    BY <1>1, <2>2 DEF Admitted, ReadSecret, SealSecret, RowsReadFile, RowsUnparsable, Goto, Answer,
       TypeOK
  <2>3. CASE AppendToFile(s) \/ AppendToCache(s) \/ Send(s) \/ Succeeded(s)
    BY <1>1, <2>3 DEF Admitted, AppendToFile, AppendToCache, Send, Succeeded, Goto, TypeOK
  <2>4. CASE Rejected(s) \/ Ambiguous(s) \/ AdoptFound(s) \/ AdoptNothing(s) \/ Finish(s)
    BY <1>1, <2>4 DEF Admitted, Rejected, Ambiguous, AdoptFound, AdoptNothing, Finish, Goto, Answer,
       TypeOK
  <2> QED
    BY <1>2, <2>1, <2>2, <2>3, <2>4 DEF Handler
<1>3. ASSUME NEW s \in Slots, NEW t \in Tools, NEW r \in Runs, Submit(s, t, r)
      PROVE  Admitted'
  BY <1>1, <1>3 DEF Admitted, Submit, Goto, Answer, TypeOK
<1>4. CASE Provider \/ Crash \/ Tick \/ UNCHANGED vars
  BY <1>1, <1>4 DEF Admitted, Provider, Execute, Lose, DeleteServer, Crash, Tick, vars, handlerVars
<1> QED
  BY <1>2, <1>3, <1>4 DEF Next

LEMMA FreeStepsStep ==
  ASSUME TypeOK, Stepping, Admitted, FreeStepsFollowPurchase, [Next]_vars
  PROVE  FreeStepsFollowPurchase'
<1>1. Bought(file) => Bought(file')
  BY BoughtStays
<1>2. ASSUME NEW s \in Slots, Send(s) PROVE FreeStepsFollowPurchase'
  <2>1. \A w \in wire' \cup made' : w \in wire \cup made \/ w.key = req[s].tool
    BY <1>2 DEF Send
  <2>2. req[s].tool \in FreeSteps => Bought(file)
    BY <1>2, GatewayAssumption DEF Send, Admitted
  <2> QED
    BY <1>1, <2>1, <2>2 DEF FreeStepsFollowPurchase, Bought
<1>3. CASE ~\E s \in Slots : Send(s)
  <2>1. ASSUME NEW s \in Slots, Handler(s) PROVE wire' \cup made' \subseteq wire \cup made
    BY <1>3, <2>1, AwaitOnlyBySend
  <2>2. wire' \cup made' \subseteq wire \cup made
    BY <2>1 DEF Next, Submit, Provider, Execute, Lose, DeleteServer, Crash, Tick, vars, provider
  <2> QED
    BY <1>1, <2>2 DEF FreeStepsFollowPurchase, Bought
<1> QED
  BY <1>2, <1>3

(* Nothing is sent to the machine before its purchase is on file: a gate   *)
(* that goes by an old copy of the ledger is late, never early.            *)
THEOREM FreeStepsFollowPurchaseHolds == Spec => []FreeStepsFollowPurchase
<1> DEFINE Inv == TypeOK /\ Stepping /\ RowsKnown /\ Admitted /\ FreeStepsFollowPurchase
<1>1. Init => Inv
  <2>1. Init => RowsKnown /\ Admitted /\ FreeStepsFollowPurchase
    BY DEF Init, RowsKnown, Known, Admitted, FreeStepsFollowPurchase
  <2> QED
    BY <2>1, InitType
<1>2. Inv /\ [Next]_vars => Inv'
  BY TypeStep, SteppingStep, RowsKnownStep, AdmittedStep, FreeStepsStep
<1> QED
  BY <1>1, <1>2, PTL DEF Spec

-----------------------------------------------------------------------------
(* An "ok" is about something the file holds.                              *)

Durable(f, k, e) == \E i \in 1..Len(f) :
  f[i].key = k /\ f[i].state = "COMMITTED" /\ f[i].eff = e

(* The answer "ok" is on file from the append on; what is given up is not  *)
(* answered "ok".                                                          *)
OkOnFile == \A s \in Slots :
  /\ pc[s] = "release" => out[s].code # "OK"
  /\ pc[s] \in {"settled", "answered"} /\ out[s].code = "OK" /\ req[s].tool \in Keys
       => Durable(file, req[s].tool, out[s].eff)

LEMMA DurableStays ==
  ASSUME TypeOK, Stepping, [Next]_vars, NEW k, NEW e, Durable(file, k, e)
  PROVE  Durable(file', k, e)
<1>1. PICK i \in 1..Len(file) : file[i].key = k /\ file[i].state = "COMMITTED" /\ file[i].eff = e
  BY DEF Durable
<1>2. OnFile(file', file[i])
  BY FileGrows DEF OnFile
<1> QED
  BY <1>1, <1>2 DEF OnFile, Durable

LEMMA OkRows ==
  ASSUME TypeOK, OkOnFile, NEW s \in Slots, NEW rows, UseRows(s, rows), Known(file, rows)
  PROVE  OkOnFile'
<1>1. /\ UNCHANGED <<file, req>> /\ pc'[s] \in {"answered", "claim", "intent", "adopt"}
      /\ \A t \in Slots \ {s} : pc'[t] = pc[t] /\ out'[t] = out[t]
  <2>1. \A t \in Slots \ {s} : out'[t] = out[t]
    BY DEF UseRows, PassGate, Claim, Answer, TypeOK
  <2> QED
    BY <2>1, UseRowsPc DEF UseRows
<1>2. ASSUME pc'[s] = "answered", out'[s].code = "OK", req[s].tool \in Keys
      PROVE  Durable(file, req[s].tool, out'[s].eff)
  <2>1. CASE PassGate(s, rows)
    <3>1. req[s].tool # "peek"
      BY <1>2, GatewayAssumption DEF Keys
    <3> QED
      BY <1>2, <2>1, <3>1 DEF PassGate, Goto, Answer, TypeOK
  <2>2. CASE Claim(s, rows)
    <3>1. PICK p \in Committed(rows, req[s].tool) : out'[s].eff = p.eff
      BY <1>2, <2>2 DEF Claim, Goto, Answer, TypeOK
    <3>2. OnFile(file, p) /\ p.key = req[s].tool /\ p.state = "COMMITTED"
      BY PriorOnFile DEF Committed
    <3> QED
      BY <3>1, <3>2 DEF OnFile, Durable
  <2> QED
    BY <2>1, <2>2 DEF UseRows
<1> QED
  BY <1>1, <1>2 DEF OkOnFile

(* A handler that neither settles nor answers "ok" disturbs nothing.       *)
LEMMA OkQuiet ==
  ASSUME TypeOK, OkOnFile, NEW s \in Slots, UNCHANGED <<file, req>>, NEW l, NEW c, NEW e,
         pc' = [pc EXCEPT ![s] = l],
         \/ UNCHANGED out /\ l \notin {"release", "settled", "answered"}
         \/ out' = [out EXCEPT ![s] = [code |-> c, eff |-> e]]
            /\ (c # "OK" \/ l \notin {"release", "settled", "answered"})
  PROVE  OkOnFile'
<1>1. pc'[s] = l /\ \A t \in Slots \ {s} : pc'[t] = pc[t] /\ out'[t] = out[t]
  BY DEF TypeOK
<1>2. l \in {"release", "settled", "answered"} => out'[s].code # "OK"
  BY DEF TypeOK
<1>3. ASSUME NEW t \in Slots
      PROVE  /\ pc'[t] = "release" => out'[t].code # "OK"
             /\ pc'[t] \in {"settled", "answered"} /\ out'[t].code = "OK" /\ req'[t].tool \in Keys
                  => Durable(file', req'[t].tool, out'[t].eff)
  <2>1. CASE t = s
    BY <1>1, <1>2, <2>1
  <2>2. CASE t # s
    BY <1>1, <2>2 DEF OkOnFile
  <2> QED
    BY <2>1, <2>2
<1> QED
  BY <1>3 DEF OkOnFile

LEMMA OkStep ==
  ASSUME TypeOK, Stepping, RowsKnown, OkOnFile, [Next]_vars
  PROVE  OkOnFile'
<1>1. \A k, e : Durable(file, k, e) => Durable(file', k, e)
  BY DurableStays
<1>2. ASSUME NEW s \in Slots, Handler(s) PROVE OkOnFile'
  <2>1. CASE RowsFromCache(s) \/ RowsReadFails(s) \/ RowsParsed(s)
    <3>1. PICK rows : UseRows(s, rows) /\ Known(file, rows)
      BY <2>1 DEF RowsFromCache, RowsReadFails, RowsParsed, RowsKnown, Known
    <3> QED
      BY <3>1, OkRows
  <2>2. CASE ReadSecret(s) \/ SealSecret(s) \/ RowsReadFile(s) \/ Send(s)
    <3>1. UNCHANGED <<file, req, out>>
      BY <2>2 DEF ReadSecret, SealSecret, RowsReadFile, Send, ledgerVars
    <3>2. PICK l \in {"claim", "seal", "gateRead", "claimRead", "await"} : pc' = [pc EXCEPT ![s] = l]
      BY <2>2 DEF ReadSecret, SealSecret, RowsReadFile, Send, Goto
    <3> QED
      BY <3>1, <3>2, OkQuiet
  <2>3. CASE AppendToFile(s)
    <3> DEFINE r == RowFor(s, Written(s))
    <3>1. r \in Row /\ file' = Append(file, r) /\ UNCHANGED <<req, out>>
      BY <2>3, RowForType DEF AppendToFile
    <3>2. \A t \in Slots : pc'[t] = IF t = s THEN IF pc[s] = "intent" THEN "intentDone" ELSE "settled"
                                    ELSE pc[t]
      BY <2>3 DEF AppendToFile, Goto, TypeOK
    <3>3. pc[s] = "commit" => r.key = req[s].tool /\ r.state = "COMMITTED" /\ r.eff = out[s].eff
      BY DEF RowFor, Written
    <3> HIDE DEF r
    <3>4. file'[Len(file) + 1] = r /\ Len(file') = Len(file) + 1 /\ Len(file) \in Nat
      BY <3>1 DEF TypeOK
    <3>5. pc[s] = "commit" => Durable(file', req[s].tool, out[s].eff)
      BY <3>3, <3>4 DEF Durable
    <3>6. pc[s] \in {"intent", "commit", "release"}
      BY <2>3 DEF AppendToFile
    <3>7. ASSUME NEW t \in Slots
          PROVE  /\ pc'[t] = "release" => out'[t].code # "OK"
                 /\ pc'[t] \in {"settled", "answered"} /\ out'[t].code = "OK" /\ req'[t].tool \in Keys
                      => Durable(file', req'[t].tool, out'[t].eff)
      <4>1. CASE t = s
        <5>1. pc'[t] = "settled" => pc[s] \in {"commit", "release"}
          BY <3>2, <3>6, <4>1
        <5>2. pc'[t] \in {"intentDone", "settled"}
          BY <3>2, <4>1
        <5> QED
          BY <3>1, <3>5, <4>1, <5>1, <5>2 DEF OkOnFile
      <4>2. CASE t # s
        BY <1>1, <3>1, <3>2, <4>2 DEF OkOnFile
      <4> QED
        BY <4>1, <4>2
    <3> QED
      BY <3>7 DEF OkOnFile
  <2>4. CASE AppendToCache(s)
    <3>1. UNCHANGED <<req, out, file>> /\ pc[s] \in {"intentDone", "settled"}
      BY <2>4 DEF AppendToCache
    <3>2. \A t \in Slots : pc'[t] = IF t = s THEN IF pc[s] = "intentDone" THEN "act" ELSE "answered"
                                    ELSE pc[t]
      BY <2>4 DEF AppendToCache, Goto, TypeOK
    <3> QED
      BY <3>1, <3>2 DEF OkOnFile
  <2>5. CASE Succeeded(s) \/ AdoptFound(s)
    <3>1. UNCHANGED <<file, req>> /\ pc' = [pc EXCEPT ![s] = "commit"]
      BY <2>5 DEF Succeeded, AdoptFound, Goto, ledgerVars
    <3>2. PICK e : out' = [out EXCEPT ![s] = [code |-> "OK", eff |-> e]]
      BY <2>5 DEF Succeeded, AdoptFound
    <3> QED
      BY <3>1, <3>2, OkQuiet
  <2>6. CASE RowsUnparsable(s) \/ Rejected(s) \/ Ambiguous(s) \/ AdoptNothing(s) \/ Finish(s)
    <3>1. UNCHANGED <<file, req>>
      BY <2>6 DEF RowsUnparsable, Rejected, Ambiguous, AdoptNothing, Finish, ledgerVars
    <3>2. PICK l : pc' = [pc EXCEPT ![s] = l]
      BY <2>6 DEF RowsUnparsable, Rejected, Ambiguous, AdoptNothing, Finish, Goto, Answer
    <3>3. PICK c, e : c # "OK" /\ out' = [out EXCEPT ![s] = [code |-> c, eff |-> e]]
      BY <2>6 DEF RowsUnparsable, Rejected, Ambiguous, AdoptNothing, Finish, Answer
    <3> QED
      BY <3>1, <3>2, <3>3, OkQuiet
  <2> QED
    BY <1>2, <2>1, <2>2, <2>3, <2>4, <2>5, <2>6 DEF Handler
<1>3. ASSUME NEW s \in Slots, NEW t \in Tools, NEW r \in Runs, Submit(s, t, r)
      PROVE  OkOnFile'
  BY <1>1, <1>3 DEF OkOnFile, Submit, Goto, Answer, TypeOK
<1>4. CASE Provider \/ Crash \/ Tick \/ UNCHANGED vars
  <2>1. CASE Crash
    <3>1. \A s \in Slots : pc'[s] = "idle"
      BY <2>1 DEF Crash
    <3> QED
      BY <3>1 DEF OkOnFile
  <2>2. CASE Provider \/ Tick \/ UNCHANGED vars
    <3>1. UNCHANGED <<pc, out, req>>
      BY <2>2 DEF Provider, Execute, Lose, DeleteServer, Tick, vars, handlerVars
    <3> QED
      BY <1>1, <3>1 DEF OkOnFile
  <2> QED
    BY <1>4, <2>1, <2>2
<1> QED
  BY <1>2, <1>3, <1>4 DEF Next

(* An answer "ok" to a call with an effect is about a row on file, so that *)
(* no crash forgets what the caller was told.                              *)
THEOREM OkIsDurableHolds == Spec => []OkIsDurable
<1> DEFINE Inv == TypeOK /\ Stepping /\ RowsKnown /\ OkOnFile
<1>1. Init => Inv
  <2>1. Init => RowsKnown /\ OkOnFile
    BY DEF Init, RowsKnown, Known, OkOnFile
  <2> QED
    BY <2>1, InitType
<1>2. Inv /\ [Next]_vars => Inv'
  BY TypeStep, SteppingStep, RowsKnownStep, OkStep
<1>3. Inv => OkIsDurable
  BY DEF OkOnFile, OkIsDurable, Durable
<1> QED
  BY <1>1, <1>2, <1>3, PTL DEF Spec
=============================================================================
