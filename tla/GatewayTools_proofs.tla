------------------------ MODULE GatewayTools_proofs -------------------------
(***************************************************************************)
(* Proofs about the gateway's handoff, environment and DNS tools, for      *)
(* every number of calls under way together, of mandates, domains, runs,   *)
(* writes that arrive late and crashes: what a human was told stays true,  *)
(* a domain only points where the Auditor has passed, a rollback restores  *)
(* what it found, and an application gets its own, latest environment.     *)
(***************************************************************************)
EXTENDS GatewayTools, FiniteSetTheorems, TLAPS

-----------------------------------------------------------------------------
(* The laws of the ledger, those that are used here (all of them, with     *)
(* what follows for claim(), are in Gateway_proofs).                       *)

(* findLast after an append: the new row if it is about the key, else what *)
(* it was before.  This is the comment in claim(), "latest row wins".      *)
LEMMA PriorOfAppend ==
  ASSUME NEW S, NEW rows \in Seq(S), NEW r \in S, NEW k
  PROVE  Prior(Append(rows, r), k) = IF r.key = k THEN {r} ELSE Prior(rows, k)
<1> DEFINE new == Append(rows, r)
<1>1. Len(rows) \in Nat /\ Len(new) = Len(rows) + 1
  OBVIOUS
<1>2. new[Len(rows) + 1] = r /\ \A i \in 1..Len(rows) : new[i] = rows[i]
  OBVIOUS
<1>3. CASE r.key = k
  <2>1. IsLatest(new, k, Len(rows) + 1)
    BY <1>1, <1>2, <1>3 DEF IsLatest
  <2>2. \A i : IsLatest(new, k, i) => i = Len(rows) + 1
    BY <1>1, <1>2, <1>3 DEF IsLatest
  <2> QED
    BY <1>1, <1>2, <1>3, <2>1, <2>2 DEF Prior
<1>4. CASE r.key # k
  <2>1. \A i : IsLatest(new, k, i) <=> IsLatest(rows, k, i)
    BY <1>1, <1>2, <1>4 DEF IsLatest
  <2>2. \A i : IsLatest(rows, k, i) => i \in 1..Len(rows)
    BY DEF IsLatest
  <2> QED
    BY <1>1, <1>2, <1>4, <2>1, <2>2 DEF Prior
<1> QED
  BY <1>3, <1>4

(* A key has at most one latest row.                                       *)
LEMMA PriorIsUnique ==
  ASSUME NEW S, NEW rows \in Seq(S), NEW k,
         NEW p \in Prior(rows, k), NEW q \in Prior(rows, k)
  PROVE  p = q
<1>1. PICK i \in 1..Len(rows) : IsLatest(rows, k, i) /\ p = rows[i]
  BY DEF Prior
<1>2. PICK j \in 1..Len(rows) : IsLatest(rows, k, j) /\ q = rows[j]
  BY DEF Prior
<1>3. i = j
  BY <1>1, <1>2 DEF IsLatest
<1> QED
  BY <1>1, <1>2, <1>3

-----------------------------------------------------------------------------
(* Types.  The fields of a call depend on where it stands.                 *)

Undo == [record : Nat, domain : Domains, previous : {None} \cup ARecord, from : Nat, to : Nat]
Envs == [project : Projects, version : Nat]
Write == [domain : Domains, record : Nat, content : Homes \cup {None}]

Row == [key : Ids \X {"P2"}, run : Runs, state : {"COMMITTED"}, detail : Homes]
  \cup [key : Ids \X {"P8"}, run : Runs, state : {"COMMITTED"}, detail : Undo]
  \cup [key : Ids \X {"P2", "P8"}, run : Runs, state : {"INTENT", "FAILED"}, detail : {None}]

PrepareCall == [at : {"secrets", "sealing"}, step : {"P2"}, mandate : Ids]
RegisterCall == [at : {"prior", "claim", "intend", "settle"}, mandate : Ids, step : {"P2"},
                 run : Runs, detail : Homes]
UpsertCall == [at : {"claim", "intend", "look", "release"}, mandate : Ids, step : {"P8"},
               run : Runs, domain : Domains, detail : Homes]
WriteCall == [at : {"write", "release"}, mandate : Ids, step : {"P8"}, run : Runs, domain : Domains,
              record : Nat, content : Homes, seen : {None} \cup ARecord, from : Nat]
SettleCall == [at : {"settle"}, mandate : Ids, step : {"P8"}, run : Runs, detail : Undo]
RestoreCall == [at : {"restore"}, domain : Domains, record : Nat, content : Homes \cup {None},
                step : {"rollback"}, from : Nat, to : Nat]
ReadCall == [at : {"read"}, step : {"env"}, mandate : Ids, project : Projects]
BlobCall == [at : {"blob", "blobbing"}, step : {"env"}, mandate : Ids, project : Projects, version : Nat]
OpenCall == [at : {"open"}, step : {"env"}, mandate : Ids, floor : Nat]
LoadCall == [at : {"load"}, step : {"env"}, mandate : Ids, floor : Nat, envs : Envs]

Calls == {Idle} \cup PrepareCall \cup RegisterCall \cup UpsertCall \cup WriteCall \cup SettleCall
         \cup RestoreCall \cup ReadCall \cup BlobCall \cup OpenCall \cup LoadCall

Typed ==
  /\ file \in Seq(Row)
  /\ coolify \in [Ids -> Nat \cup {None, Torn}]
  /\ blob \in [Ids -> {None, Torn} \cup Envs]
  /\ zone \in [Domains -> Seq(SUBSET ARecord)] /\ \A d \in Domains : zone[d] # <<>>
  /\ vercel \in Nat /\ nextId \in Nat
  /\ app \in [Ids -> {None} \cup [envs : Envs, floor : Nat, crossed : BOOLEAN]]
  /\ call \in [Slots -> Calls]
  /\ wire \subseteq Write
  /\ handed \subseteq [mandate : Ids, secret : Nat]
  /\ confirmed \subseteq [mandate : Ids, ip : Homes]
  /\ exported \in [Ids -> Nat]

-----------------------------------------------------------------------------
(* What a human was told.                                                  *)

Operating(s) == call[s].at # "idle" /\ call[s].step = "P2"

(* The operator's calls come one at a time, so that a secret being minted  *)
(* and a registration between its check and its commit are alone.          *)
Alone == \A s, x \in Slots : Operating(s) /\ Operating(x) => s = x

Undisturbed(s) ==
  /\ At(s, "sealing") => coolify[call[s].mandate] = Torn
  /\ At(s, "claim") /\ call[s].step = "P2" =>
       \A p \in ServerRow(call[s].mandate) : p.run = call[s].run => p.detail = call[s].detail
  /\ At(s, "intend") /\ call[s].step = "P2" => Free(file, Key(s))
  /\ At(s, "settle") /\ call[s].step = "P2" => InFlight(file, Key(s))

Handoff == Alone /\ \A s \in Slots : Undisturbed(s)

-----------------------------------------------------------------------------
(* Where a domain may point.                                               *)

Under == {call[s] : s \in Slots}
Rows  == {file[i] : i \in DOMAIN file}
IsCutover(r) == r.key[2] = "P8" /\ r.state = "COMMITTED"

Judged(d, home) ==
  \/ home = Old
  \/ \E m \in Mandates :
       /\ m.domain = d /\ [signed |-> TRUE, verdict |-> "PASS", mandate |-> m.id, ip |-> home] \in Verdicts
       /\ \E p \in ServerRow(m.id) : p.detail = home

JudgedOrNone(d, r) == r # None => Judged(d, r.content)

JudgedCall(c) ==
  /\ c.at \in {"claim", "intend", "look"} /\ c.step = "P8" => Judged(c.domain, c.detail)
  /\ c.at = "write" => Judged(c.domain, c.content) /\ JudgedOrNone(c.domain, c.seen)
  /\ c.at = "settle" /\ c.step = "P8" => JudgedOrNone(c.detail.domain, c.detail.previous)
  /\ c.at = "restore" => (c.content # None => Judged(c.domain, c.content))

JudgedRow(r)   == IsCutover(r) => JudgedOrNone(r.detail.domain, r.detail.previous)
JudgedWrite(w) == w.content # None => Judged(w.domain, w.content)

(* Nothing that is written, recorded or put back points anywhere else.     *)
Cutover ==
  /\ \A d \in Domains : \A r \in Current(d) : Judged(d, r.content)
  /\ \A w \in wire : JudgedWrite(w)
  /\ \A r \in Rows : JudgedRow(r)
  /\ \A c \in Under : JudgedCall(c)

-----------------------------------------------------------------------------
(* What a rollback puts back.                                              *)

(* The set after a write of a record with that id, or after its deletion.  *)
Put(set, record, content) ==
  {x \in set : x.id # record} \cup (IF content = None THEN {} ELSE {[id |-> record, content |-> content]})

(* An upsert knows what it saw: the record it patches, or that there was   *)
(* none when it makes one.                                                 *)
Saw(set, record, seen) ==
  IF seen = None THEN set = {} /\ record = 0 ELSE seen \in set /\ record = seen.id

(* A write that came right after what it had read is undone by putting     *)
(* back what was read.                                                     *)
Undoes(d, from, to, record, content) ==
  /\ from \in 1..Len(zone[d]) /\ to \in 1..Len(zone[d]) /\ record # 0
  /\ to = from + 1 => zone[d][from] = Put(zone[d][to], record, content)

UndoesRow(u) ==
  Undoes(u.domain, u.from, u.to, u.record, IF u.previous = None THEN None ELSE u.previous.content)

RollbackCall(c) ==
  /\ c.at = "write" => /\ c.from \in 1..Len(zone[c.domain])
                       /\ Saw(zone[c.domain][c.from], c.record, c.seen)
  /\ c.at = "settle" /\ c.step = "P8" => UndoesRow(c.detail)
  /\ c.at = "restore" => Undoes(c.domain, c.from, c.to, c.record, c.content)

RollbackRow(r) == IsCutover(r) => UndoesRow(r.detail)

(* The records of a domain have names of their own, all given out before.  *)
Named(set, next) ==
  /\ \A q, r \in set : q.id = r.id => q = r
  /\ \A r \in set : r.id \in 1..(next - 1)

Rollbacks ==
  /\ \A d \in Domains : \A i \in 1..Len(zone[d]) : Named(zone[d][i], nextId)
  /\ nextId > 0
  /\ \A r \in Rows : RollbackRow(r)
  /\ \A c \in Under : RollbackCall(c)
  /\ undone # None => undone.domain \in Domains /\ undone.at \in 1..Len(zone[undone.domain])
                      /\ undone.from \in 1..Len(zone[undone.domain])

-----------------------------------------------------------------------------
(* Which environment an application gets.                                  *)

ProjectOf(i, p) == \A m \in Mandates : m.id = i => p = m.project

Exporting(c) == c.at \in {"read", "blob", "blobbing"}

(* What is stored of a mandate and what its application got.               *)
EnvironmentOf(i) ==
  /\ exported[i] <= vercel
  /\ blob[i] \notin {None, Torn} => /\ ProjectOf(i, blob[i].project)
                                    /\ blob[i].version >= exported[i] \/ i \in crossed
  /\ app[i] # None => /\ ProjectOf(i, app[i].envs.project)
                      /\ app[i].envs.version >= app[i].floor \/ app[i].crossed

(* An export that overlaps no other has read what is at least as new as    *)
(* anything an export has answered before.                                 *)
EnvironmentCall(c) ==
  /\ Exporting(c) => ProjectOf(c.mandate, c.project)
  /\ c.at \in {"blob", "blobbing"} => /\ c.version <= vercel
                                      /\ c.version >= exported[c.mandate] \/ c.mandate \in crossed
  /\ c.at = "open" => c.floor <= exported[c.mandate]
  /\ c.at = "load" => /\ ProjectOf(c.mandate, c.envs.project)
                      /\ c.envs.version >= c.floor \/ c.mandate \in crossed

(* Exports of a mandate that overlap are told.                             *)
OneExport ==
  \A s, x \in Slots :
    Exporting(call[s]) /\ Exporting(call[x]) /\ call[s].mandate = call[x].mandate =>
      s = x \/ call[s].mandate \in crossed

Environments ==
  /\ \A i \in Ids : EnvironmentOf(i)
  /\ \A c \in Under : EnvironmentCall(c)
  /\ OneExport

-----------------------------------------------------------------------------
(* Proofs of the types.                                                    *)

(* A token that is let in carries one of the issuer's mandates.            *)
LEMMA AdmittedToken ==
  ASSUME NEW t \in Tokens, NEW phase, Admitted(t, phase)
  PROVE  t.mandate \in Mandates /\ t.mandate.id \in Ids
<1>1. t.signed
  BY DEF Admitted, verifyMandate
<1> QED
  BY <1>1, GatewayToolsAssumption DEF Ids

(* A step of a call changes that call only.                                *)
LEMMA StepCall ==
  ASSUME call \in [Slots -> Calls], NEW s \in Slots, NEW c \in Calls, Step(s, c) \/ Begin(s, c)
  PROVE  /\ call' \in [Slots -> Calls]
         /\ call'[s] = c /\ \A x \in Slots \ {s} : call'[x] = call[x]
BY DEF Step, Begin

(* The label of a call fixes the fields it has.                            *)
LEMMA KindOf ==
  ASSUME NEW c \in Calls
  PROVE  /\ c.at = "idle" => c = Idle
         /\ c.at \in {"secrets", "sealing"} => c \in PrepareCall
         /\ c.at = "prior" => c \in RegisterCall
         /\ c.at \in {"claim", "intend"} => c \in RegisterCall \cup UpsertCall
         /\ c.at = "settle" => c \in RegisterCall \cup SettleCall
         /\ c.at = "look" => c \in UpsertCall
         /\ c.at = "write" => c \in WriteCall
         /\ c.at = "release" => c \in UpsertCall \cup WriteCall
         /\ c.at = "restore" => c \in RestoreCall
         /\ c.at = "read" => c \in ReadCall
         /\ c.at \in {"blob", "blobbing"} => c \in BlobCall
         /\ c.at = "open" => c \in OpenCall
         /\ c.at = "load" => c \in LoadCall
<1>1. /\ c.at = "idle" => c = Idle
      /\ c.at \in {"secrets", "sealing"} => c \in PrepareCall
      /\ c.at = "prior" => c \in RegisterCall
      /\ c.at \in {"claim", "intend"} => c \in RegisterCall \cup UpsertCall
  BY DEF Calls, Idle, PrepareCall, RegisterCall, UpsertCall, WriteCall, SettleCall,
         RestoreCall, ReadCall, BlobCall, OpenCall, LoadCall
<1>2. /\ c.at = "settle" => c \in RegisterCall \cup SettleCall
      /\ c.at = "look" => c \in UpsertCall
      /\ c.at = "write" => c \in WriteCall
      /\ c.at = "release" => c \in UpsertCall \cup WriteCall
  BY DEF Calls, Idle, PrepareCall, RegisterCall, UpsertCall, WriteCall, SettleCall,
         RestoreCall, ReadCall, BlobCall, OpenCall, LoadCall
<1>3. /\ c.at = "restore" => c \in RestoreCall
      /\ c.at = "read" => c \in ReadCall
      /\ c.at \in {"blob", "blobbing"} => c \in BlobCall
      /\ c.at = "open" => c \in OpenCall
      /\ c.at = "load" => c \in LoadCall
  BY DEF Calls, Idle, PrepareCall, RegisterCall, UpsertCall, WriteCall, SettleCall,
         RestoreCall, ReadCall, BlobCall, OpenCall, LoadCall
<1> QED
  BY <1>1, <1>2, <1>3

(* The same of the call in a slot, in the handoff lane and at a domain.    *)
LEMMA CallAt ==
  ASSUME call \in [Slots -> Calls], NEW s \in Slots
  PROVE  /\ call[s].at = "idle" => call[s] = Idle
         /\ call[s].at \in {"secrets", "sealing"} => call[s] \in PrepareCall
         /\ call[s].at = "prior" => call[s] \in RegisterCall
         /\ call[s].at \in {"claim", "intend"} => call[s] \in RegisterCall \cup UpsertCall
         /\ call[s].at = "settle" => call[s] \in RegisterCall \cup SettleCall
         /\ call[s].at = "look" => call[s] \in UpsertCall
         /\ call[s].at = "write" => call[s] \in WriteCall
         /\ call[s].at = "release" => call[s] \in UpsertCall \cup WriteCall
<1>1. PICK c \in Calls : c = call[s]
  OBVIOUS
<1> QED
  BY <1>1, KindOf

(* The same of the call in a slot, at a rollback and with an environment.  *)
LEMMA CallIn ==
  ASSUME call \in [Slots -> Calls], NEW s \in Slots
  PROVE  /\ call[s].at = "restore" => call[s] \in RestoreCall
         /\ call[s].at = "read" => call[s] \in ReadCall
         /\ call[s].at \in {"blob", "blobbing"} => call[s] \in BlobCall
         /\ call[s].at = "open" => call[s] \in OpenCall
         /\ call[s].at = "load" => call[s] \in LoadCall
<1>1. PICK c \in Calls : c = call[s]
  OBVIOUS
<1> QED
  BY <1>1, KindOf

(* The order in which the mandates that have a server are on file.         *)
LEMMA SetToSeqType ==
  ASSUME NEW S, IsFiniteSet(S)
  PROVE  Cardinality(S) \in Nat /\ SetToSeq(S) \in [1..Cardinality(S) -> S]
<1>1. Cardinality(S) \in Nat /\ ExistsBijection(1..Cardinality(S), S)
  BY FS_CardinalityType
<1>2. \E f \in [1..Cardinality(S) -> S] : IsInjective(f)
  BY <1>1 DEF ExistsBijection, Bijection, Injection
<1> QED
  BY <1>1, <1>2 DEF SetToSeq

(* The gateway starts with the servers that were bought before, and        *)
(* nothing else on file.                                                   *)
LEMMA InitTyped == Init => Typed
<1> SUFFICES ASSUME Init PROVE Typed
  OBVIOUS
<1>1. file \in Seq(Row)
  <2> DEFINE order == SetToSeq(DOMAIN Bought)
  <2>1. PICK n \in Nat : order \in [1..n -> DOMAIN Bought]
    BY SetToSeqType, GatewayToolsAssumption
  <2>2. PICK r \in Runs :
          file = [i \in DOMAIN order |->
                   [key |-> <<order[i], "P2">>, run |-> r, state |-> "COMMITTED", detail |-> Bought[order[i]]]]
    BY DEF Init
  <2> HIDE DEF order
  <2>3. \A m \in DOMAIN Bought : m \in Ids /\ Bought[m] \in Homes
    BY GatewayToolsAssumption DEF Homes
  <2>4. \A i \in 1..n : file[i] \in Row
    <3> SUFFICES ASSUME NEW i \in 1..n PROVE file[i] \in Row
      OBVIOUS
    <3>1. order[i] \in Ids /\ Bought[order[i]] \in Homes
      BY <2>1, <2>3
    <3>2. file[i] = [key |-> <<order[i], "P2">>, run |-> r, state |-> "COMMITTED", detail |-> Bought[order[i]]]
      BY <2>1, <2>2
    <3>3. <<order[i], "P2">> \in Ids \X {"P2"}
      BY <3>1
    <3> QED
      BY <3>1, <3>2, <3>3 DEF Row
  <2>5. file = [i \in 1..n |-> file[i]]
    BY <2>1, <2>2
  <2> QED
    BY <2>4, <2>5
<1>2. zone \in [Domains -> Seq(SUBSET ARecord)] /\ \A d \in Domains : zone[d] # <<>>
  <2>1. PICK first \in {{}, {[id |-> 1, content |-> Old]}} : zone = [d \in Domains |-> <<first>>]
    BY DEF Init
  <2>2. first \in SUBSET ARecord
    BY <2>1 DEF ARecord, Homes
  <2>3. <<first>> \in Seq(SUBSET ARecord) /\ <<first>> # <<>>
    BY <2>2
  <2> QED
    BY <2>1, <2>3
<1>3. call \in [Slots -> Calls]
  BY DEF Init, Calls
<1> QED
  BY <1>1, <1>2, <1>3 DEF Init, Typed

-----------------------------------------------------------------------------
(* Every step keeps the types.                                             *)

(* A committed row says where a server is, or how to undo a cutover.       *)
LEMMA CommittedRow ==
  ASSUME file \in Seq(Row), NEW i
  PROVE  /\ \A p \in Committed(file, <<i, "P2">>) : p.run \in Runs /\ p.detail \in Homes
         /\ \A p \in Committed(file, <<i, "P8">>) :
              /\ p.run \in Runs /\ p.detail \in Undo
              /\ \E j \in DOMAIN file : p = file[j] /\ file[j].key[2] = "P8" /\ file[j].state = "COMMITTED"
<1>1. \A r \in Row : r.state = "COMMITTED" /\ r.key[2] = "P2" => r.run \in Runs /\ r.detail \in Homes
  BY DEF Row
<1>2. \A r \in Row : r.state = "COMMITTED" /\ r.key[2] = "P8" => r.run \in Runs /\ r.detail \in Undo
  BY DEF Row
<1>3. ASSUME NEW k, NEW p \in Committed(file, k)
      PROVE  \E j \in DOMAIN file : p = file[j] /\ file[j] \in Row /\ file[j].key = k /\ file[j].state = "COMMITTED"
  BY <1>3 DEF Committed, Prior, IsLatest
<1>4. <<i, "P2">>[2] = "P2" /\ <<i, "P8">>[2] = "P8"
  OBVIOUS
<1>5. ASSUME NEW p \in Committed(file, <<i, "P2">>) PROVE p.run \in Runs /\ p.detail \in Homes
  BY <1>1, <1>3, <1>4
<1>6. ASSUME NEW p \in Committed(file, <<i, "P8">>)
      PROVE  /\ p.run \in Runs /\ p.detail \in Undo
             /\ \E j \in DOMAIN file : p = file[j] /\ file[j].key[2] = "P8" /\ file[j].state = "COMMITTED"
  BY <1>2, <1>3, <1>4
<1> QED
  BY <1>5, <1>6

(* A row that is noted is one of the kinds of rows.                        *)
LEMMA NoteType ==
  ASSUME file \in Seq(Row), NEW s \in Slots, NEW state, NEW detail, Note(s, state, detail),
         call[s].mandate \in Ids, call[s].run \in Runs, call[s].step \in {"P2", "P8"},
         \/ state \in {"INTENT", "FAILED"} /\ detail = None
         \/ state = "COMMITTED" /\ call[s].step = "P2" /\ detail \in Homes
         \/ state = "COMMITTED" /\ call[s].step = "P8" /\ detail \in Undo
  PROVE  file' \in Seq(Row)
<1> DEFINE r == [key |-> Key(s), run |-> call[s].run, state |-> state, detail |-> detail]
<1>1. Key(s) \in Ids \X {call[s].step}
  BY DEF Key
<1>2. r \in Row
  BY <1>1 DEF Row
<1> QED
  BY <1>2 DEF Note

(* What a write does to the records of its domain.                         *)
LEMMA ApplyType ==
  ASSUME Typed, NEW w \in Write, Apply(w)
  PROVE  /\ zone' \in [Domains -> Seq(SUBSET ARecord)] /\ \A d \in Domains : zone'[d] # <<>>
         /\ nextId' \in Nat
<1> DEFINE rest == {r \in Current(w.domain) : r.id # w.record}
           id   == IF w.record = 0 THEN nextId ELSE w.record
           made == IF w.content = None THEN {} ELSE {[id |-> id, content |-> w.content]}
<1>1. w.domain \in Domains /\ w.record \in Nat /\ w.content \in Homes \cup {None}
  BY DEF Write
<1>2. /\ zone \in [Domains -> Seq(SUBSET ARecord)] /\ \A d \in Domains : zone[d] # <<>>
      /\ nextId \in Nat
  BY DEF Typed
<1>3. Current(w.domain) \in SUBSET ARecord
  BY <1>1, <1>2 DEF Current, Last
<1>4. id \in Nat /\ rest \subseteq ARecord
  BY <1>1, <1>2, <1>3
<1>5. made \subseteq ARecord
  BY <1>1, <1>4 DEF ARecord
<1>6. /\ zone' = [zone EXCEPT ![w.domain] = Append(@, rest \cup made)]
      /\ nextId' = IF w.record = 0 THEN nextId + 1 ELSE nextId
  BY DEF Apply
<1> HIDE DEF rest, made, id
<1>7. rest \cup made \in SUBSET ARecord
  BY <1>4, <1>5
<1>8. ASSUME NEW d \in Domains
      PROVE  Append(zone[d], rest \cup made) \in Seq(SUBSET ARecord) /\ Append(zone[d], rest \cup made) # <<>>
  BY <1>2, <1>7
<1>9. zone' \in [Domains -> Seq(SUBSET ARecord)]
  BY <1>1, <1>2, <1>6, <1>8
<1>10. \A d \in Domains : zone'[d] # <<>>
  BY <1>1, <1>2, <1>6, <1>8
<1> QED
  BY <1>2, <1>6, <1>9, <1>10

(* What a call asks of the DNS provider is a write.                        *)
LEMMA WriteOfType ==
  ASSUME call \in [Slots -> Calls], NEW s \in Slots, call[s].at \in {"write", "restore"}
  PROVE  WriteOf(s) \in Write
<1>1. call[s] \in WriteCall \/ call[s] \in RestoreCall
  BY CallAt, CallIn
<1> QED
  BY <1>1 DEF WriteCall, RestoreCall, WriteOf, Write

(* What a caller asks for.                                                 *)
LEMMA TypeOfRequest ==
  ASSUME Typed, NEW s \in Slots, NEW t \in Tokens, Operator(s, t) \/ Agent(s, t)
  PROVE  Typed'
<1> USE DEF Typed, vault, clock, history
<1>1. CASE Prepare(s, t)
  <2>1. t.mandate.id \in Ids
    BY <1>1, AdmittedToken DEF Prepare, Allowed
  <2>2. [at |-> "secrets", step |-> "P2", mandate |-> t.mandate.id] \in Calls
    BY <2>1 DEF Calls, PrepareCall
  <2> QED
    BY <1>1, <2>2, StepCall DEF Prepare
<1>2. ASSUME NEW r \in Runs, NEW ip \in Addresses, Register(s, t, r, ip)
      PROVE  Typed'
  <2>1. t.mandate.id \in Ids /\ ip \in Homes
    BY <1>2, AdmittedToken DEF Register, Allowed, Homes
  <2>2. [at |-> "prior", mandate |-> t.mandate.id, step |-> "P2", run |-> r, detail |-> ip] \in Calls
    BY <2>1 DEF Calls, RegisterCall
  <2> QED
    BY <1>2, <2>2, StepCall DEF Register
<1>3. ASSUME NEW p \in Projects, Export(s, t, p)
      PROVE  Typed'
  <2>1. t.mandate.id \in Ids
    BY <1>3, AdmittedToken DEF Export, Allowed
  <2>2. [at |-> "read", step |-> "env", mandate |-> t.mandate.id, project |-> p] \in Calls
    BY <2>1 DEF Calls, ReadCall
  <2> QED
    BY <1>3, <2>2, StepCall DEF Export
<1>4. CASE BulkUpdate(s, t)
  <2>1. t.mandate.id \in Ids /\ exported[t.mandate.id] \in Nat
    BY <1>4, AdmittedToken DEF BulkUpdate, Allowed
  <2>2. [at |-> "open", step |-> "env", mandate |-> t.mandate.id, floor |-> exported[t.mandate.id]] \in Calls
    BY <2>1 DEF Calls, OpenCall
  <2> QED
    BY <1>4, <2>2, StepCall DEF BulkUpdate
<1>5. CASE Rollback(s, t)
  <2>1. PICK p \in Committed(file, <<t.mandate.id, "P8">>) :
          Begin(s, [at |-> "restore", domain |-> p.detail.domain, record |-> p.detail.record,
                    content |-> IF p.detail.previous = None THEN None ELSE p.detail.previous.content,
                    step |-> "rollback", from |-> p.detail.from, to |-> p.detail.to])
    BY <1>5 DEF Rollback
  <2>2. p.detail \in Undo
    BY CommittedRow
  <2>3. p.detail.previous = None \/ p.detail.previous.content \in Homes
    BY <2>2 DEF Undo, ARecord
  <2>4. [at |-> "restore", domain |-> p.detail.domain, record |-> p.detail.record,
         content |-> IF p.detail.previous = None THEN None ELSE p.detail.previous.content,
         step |-> "rollback", from |-> p.detail.from, to |-> p.detail.to] \in RestoreCall
    BY <2>2, <2>3 DEF RestoreCall, Undo
  <2> QED
    BY <1>5, <2>1, <2>4, StepCall DEF Rollback, Calls
<1>6. ASSUME NEW r \in Runs, NEW d \in Domains, NEW v \in Verdicts, Upsert(s, t, r, d, v)
      PROVE  Typed'
  <2>1. PICK p \in ServerRow(t.mandate.id) :
          Begin(s, [at |-> "claim", mandate |-> t.mandate.id, step |-> "P8", run |-> r,
                    domain |-> d, detail |-> p.detail])
    BY <1>6 DEF Upsert
  <2>2. t.mandate.id \in Ids /\ p.detail \in Homes
    BY <1>6, AdmittedToken, CommittedRow DEF Upsert, ServerRow
  <2>3. [at |-> "claim", mandate |-> t.mandate.id, step |-> "P8", run |-> r,
         domain |-> d, detail |-> p.detail] \in Calls
    BY <2>2 DEF Calls, UpsertCall
  <2> QED
    BY <1>6, <2>1, <2>3, StepCall DEF Upsert
<1> QED
  BY <1>1, <1>2, <1>3, <1>4, <1>5, <1>6 DEF Operator, Agent

(* The handlers of the handoff lane and of once().                         *)
LEMMA TypeOfOnce ==
  ASSUME Typed, NEW s \in Slots,
         \/ CoolifySecrets(s) \/ SealSecret(s) \/ PriorAddress(s)
         \/ Claim(s) \/ Intend(s) \/ Settle(s) \/ Release(s)
  PROVE  Typed'
<1> USE DEF Typed, vault, clock, history
<1> DEFINE c == call[s]
<1>0. Idle \in Calls
  BY DEF Calls
<1>1. CASE CoolifySecrets(s)
  <2>1. c \in PrepareCall /\ c.mandate \in Ids
    BY <1>1, CallAt DEF CoolifySecrets, At, PrepareCall
  <2>2. [c EXCEPT !.at = "sealing"] \in Calls
    BY <2>1 DEF PrepareCall, Calls
  <2>3. call' \in [Slots -> Calls]
    BY <1>0, <1>1, <2>2, StepCall DEF CoolifySecrets, End
  <2>4. coolify' \in [Ids -> Nat \cup {None, Torn}]
    BY <1>1, <2>1 DEF CoolifySecrets
  <2>5. handed' \subseteq [mandate : Ids, secret : Nat]
    <3>1. coolify[c.mandate] \notin {None, Torn} => coolify[c.mandate] \in Nat
      BY <2>1
    <3> QED
      BY <1>1, <2>1, <3>1 DEF CoolifySecrets
  <2> QED
    BY <1>1, <2>3, <2>4, <2>5 DEF CoolifySecrets
<1>2. CASE SealSecret(s)
  <2>1. c.mandate \in Ids
    BY <1>2, CallAt DEF SealSecret, At, PrepareCall
  <2> QED
    BY <1>0, <1>2, <2>1, StepCall DEF SealSecret, End
<1>3. CASE PriorAddress(s)
  <2>1. c \in RegisterCall
    BY <1>3, CallAt DEF PriorAddress, At
  <2>2. [c EXCEPT !.at = "claim"] \in Calls
    BY <2>1 DEF RegisterCall, Calls
  <2> QED
    BY <1>0, <1>3, <2>2, StepCall DEF PriorAddress, End
<1>4. CASE Claim(s)
  <2>1. c \in RegisterCall \cup UpsertCall
    BY <1>4, CallAt DEF Claim, At
  <2>2. [c EXCEPT !.at = "intend"] \in Calls
    BY <2>1 DEF RegisterCall, UpsertCall, Calls
  <2>3. confirmed' \subseteq [mandate : Ids, ip : Homes]
    BY <1>4, <2>1 DEF Claim, Confirm, RegisterCall, UpsertCall
  <2> QED
    BY <1>0, <1>4, <2>2, <2>3, StepCall DEF Claim, End
<1>5. CASE Intend(s)
  <2>1. c \in RegisterCall \cup UpsertCall
    BY <1>5, CallAt DEF Intend, At
  <2>2. [c EXCEPT !.at = IF c.step = "P2" THEN "settle" ELSE "look"] \in Calls
    <3>1. CASE c \in RegisterCall
      BY <3>1 DEF RegisterCall, Calls
    <3>2. CASE c \in UpsertCall
      BY <3>2 DEF UpsertCall, Calls
    <3> QED
      BY <2>1, <3>1, <3>2
  <2>3. file' \in Seq(Row)
    BY <1>5, <2>1, NoteType DEF Intend, RegisterCall, UpsertCall
  <2> QED
    BY <1>5, <2>2, <2>3, StepCall DEF Intend
<1>6. CASE Settle(s)
  <2>1. c \in RegisterCall \cup SettleCall
    BY <1>6, CallAt DEF Settle, At
  <2>2. file' \in Seq(Row)
    BY <1>6, <2>1, NoteType DEF Settle, RegisterCall, SettleCall
  <2>3. confirmed' \subseteq [mandate : Ids, ip : Homes]
    BY <1>6, <2>1 DEF Settle, Confirm, RegisterCall, SettleCall
  <2> QED
    BY <1>0, <1>6, <2>2, <2>3, StepCall DEF Settle, End
<1>7. CASE Release(s)
  <2>1. c \in UpsertCall \cup WriteCall
    BY <1>7, CallAt DEF Release, At
  <2>2. file' \in Seq(Row)
    BY <1>7, <2>1, NoteType DEF Release, UpsertCall, WriteCall
  <2> QED
    BY <1>0, <1>7, <2>2, StepCall DEF Release, End
<1> QED
  BY <1>1, <1>2, <1>3, <1>4, <1>5, <1>6, <1>7

(* The handlers of the environment and of the domain.                      *)
LEMMA TypeOfEnvs ==
  ASSUME Typed, NEW s \in Slots,
         ReadEnvs(s) \/ SealEnvs(s) \/ SealedEnvs(s) \/ OpenBlob(s) \/ Load(s)
  PROVE  Typed'
<1> USE DEF Typed, vault, clock, history
<1> DEFINE c == call[s]
<1>0. Idle \in Calls
  BY DEF Calls
<1>1. CASE ReadEnvs(s)
  <2>1. c \in ReadCall
    BY <1>1, CallIn DEF ReadEnvs, At
  <2>2. [at |-> "blob", step |-> "env", mandate |-> c.mandate, project |-> c.project, version |-> vercel] \in Calls
    BY <2>1 DEF ReadCall, BlobCall, Calls
  <2> QED
    BY <1>0, <1>1, <2>2, StepCall DEF ReadEnvs, End
<1>2. CASE SealEnvs(s)
  <2>1. c \in BlobCall
    BY <1>2, CallIn DEF SealEnvs, At
  <2>2. [c EXCEPT !.at = "blobbing"] \in Calls /\ c.mandate \in Ids
    BY <2>1 DEF BlobCall, Calls
  <2> QED
    BY <1>2, <2>2, StepCall DEF SealEnvs
<1>3. CASE SealedEnvs(s)
  <2>1. c \in BlobCall
    BY <1>3, CallIn DEF SealedEnvs, At
  <2>2. c.mandate \in Ids /\ c.version \in Nat /\ [project |-> c.project, version |-> c.version] \in Envs
    BY <2>1 DEF BlobCall, Envs
  <2> QED
    BY <1>0, <1>3, <2>2, StepCall DEF SealedEnvs, End
<1>4. CASE OpenBlob(s)
  <2>1. c \in OpenCall
    BY <1>4, CallIn DEF OpenBlob, At
  <2>2. c.mandate \in Ids
    BY <2>1 DEF OpenCall
  <2>3. blob[c.mandate] \notin {None, Torn} =>
          [at |-> "load", step |-> "env", mandate |-> c.mandate, floor |-> c.floor, envs |-> blob[c.mandate]] \in Calls
    BY <2>1, <2>2 DEF OpenCall, LoadCall, Calls
  <2> QED
    BY <1>0, <1>4, <2>3, StepCall DEF OpenBlob, End
<1>5. CASE Load(s)
  <2>1. c \in LoadCall
    BY <1>5, CallIn DEF Load, At
  <2>2. /\ c.mandate \in Ids
        /\ [envs |-> c.envs, floor |-> c.floor, crossed |-> c.mandate \in crossed]
             \in [envs : Envs, floor : Nat, crossed : BOOLEAN]
    BY <2>1 DEF LoadCall
  <2>3. app' \in [Ids -> {None} \cup [envs : Envs, floor : Nat, crossed : BOOLEAN]]
    BY <1>5, <2>2 DEF Load
  <2> QED
    BY <1>0, <1>5, <2>3, StepCall DEF Load, End
<1> QED
  BY <1>1, <1>2, <1>3, <1>4, <1>5

(* The handlers that change a domain keep the types.                       *)
LEMMA TypeOfDns ==
  ASSUME Typed, NEW s \in Slots, Look(s) \/ Written(s) \/ Restored(s) \/ GiveUp(s)
  PROVE  Typed'
<1> USE DEF Typed, vault, clock, history
<1> DEFINE c == call[s]
<1>0. Idle \in Calls
  BY DEF Calls
<1>1. CASE Look(s)
  <2>1. c \in UpsertCall
    BY <1>1, CallAt DEF Look, At
  <2>2. [c EXCEPT !.at = "release"] \in Calls
    BY <2>1 DEF UpsertCall, Calls
  <2>3. c.domain \in Domains /\ Len(zone[c.domain]) \in Nat /\ Current(c.domain) \subseteq ARecord
    BY <2>1 DEF UpsertCall, Current, Last
  <2>4. ASSUME NEW seen \in IF Current(c.domain) = {} THEN {None} ELSE Current(c.domain)
        PROVE  [at |-> "write", mandate |-> c.mandate, step |-> "P8", run |-> c.run,
                domain |-> c.domain, record |-> IF seen = None THEN 0 ELSE seen.id,
                content |-> c.detail, seen |-> seen, from |-> Len(zone[c.domain])] \in Calls
    <3>1. seen \in {None} \cup ARecord
      BY <2>3, <2>4
    <3>2. (IF seen = None THEN 0 ELSE seen.id) \in Nat
      BY <3>1 DEF ARecord
    <3>3. [at |-> "write", mandate |-> c.mandate, step |-> "P8", run |-> c.run,
           domain |-> c.domain, record |-> IF seen = None THEN 0 ELSE seen.id,
           content |-> c.detail, seen |-> seen, from |-> Len(zone[c.domain])] \in WriteCall
      BY <2>1, <2>3, <3>1, <3>2 DEF UpsertCall, WriteCall
    <3> QED
      BY <3>3 DEF Calls
  <2>5. call' \in [Slots -> Calls]
    BY <1>1, <2>2, <2>4, StepCall DEF Look
  <2> QED
    BY <1>1, <2>5 DEF Look
<1>2. CASE Written(s)
  <2>1. c \in WriteCall
    BY <1>2, CallAt DEF Written, At
  <2>2. [c EXCEPT !.at = "release"] \in Calls
    BY <2>1 DEF WriteCall, Calls
  <2>3. WriteOf(s) \in Write
    BY <1>2, WriteOfType DEF Written, At
  <2>4. Len(zone[c.domain]) + 1 \in Nat /\ (IF c.record = 0 THEN nextId ELSE c.record) \in Nat
    BY <2>1 DEF WriteCall
  <2>5. [at |-> "settle", mandate |-> c.mandate, step |-> "P8", run |-> c.run,
         detail |-> [record |-> IF c.record = 0 THEN nextId ELSE c.record,
                     domain |-> c.domain, previous |-> c.seen,
                     from |-> c.from, to |-> Len(zone[c.domain]) + 1]] \in SettleCall
    BY <2>1, <2>4 DEF WriteCall, SettleCall, Undo
  <2>6. CASE Applies(WriteOf(s))
    <3>1. call' \in [Slots -> Calls]
      BY <1>2, <2>5, <2>6, StepCall DEF Written, Calls
    <3>2. Apply(WriteOf(s))
      BY <1>2, <2>6 DEF Written
    <3> QED
      BY <1>2, <2>3, <3>1, <3>2, ApplyType DEF Written
  <2>7. CASE ~Applies(WriteOf(s))
    BY <1>2, <2>2, <2>7, StepCall DEF Written
  <2> QED
    BY <2>6, <2>7
<1>3. CASE Restored(s)
  <2>1. WriteOf(s) \in Write
    BY <1>3, WriteOfType DEF Restored, At
  <2>2. call' \in [Slots -> Calls]
    BY <1>0, <1>3, StepCall DEF Restored, End
  <2> QED
    BY <1>3, <2>1, <2>2, ApplyType DEF Restored
<1>4. CASE GiveUp(s)
  <2>1. WriteOf(s) \in Write
    BY <1>4, WriteOfType DEF GiveUp
  <2>2. At(s, "write") => [c EXCEPT !.at = "release"] \in Calls
    <3>1. At(s, "write") => c \in WriteCall
      BY CallAt DEF At
    <3> QED
      BY <3>1 DEF WriteCall, Calls
  <2>3. call' \in [Slots -> Calls]
    BY <1>0, <1>4, <2>2, StepCall DEF GiveUp, End
  <2> QED
    BY <1>4, <2>1, <2>3 DEF GiveUp
<1> QED
  BY <1>1, <1>2, <1>3, <1>4

(* Every step of the gateway and of the world around it keeps the types.   *)
LEMMA TypedStep ==
  ASSUME Typed, [Next]_vars
  PROVE  Typed'
<1> USE DEF vault, clock, history
<1>1. CASE UNCHANGED vars
  BY <1>1 DEF vars, Typed
<1>2. ASSUME NEW s \in Slots, Handler(s)
      PROVE  Typed'
  BY <1>2, TypeOfOnce, TypeOfEnvs, TypeOfDns DEF Handler
<1>3. ASSUME NEW s \in Slots, NEW t \in Tokens, Operator(s, t) \/ Agent(s, t)
      PROVE  Typed'
  BY <1>3, TypeOfRequest
<1>4. ASSUME NEW w \in wire, Late(w)
      PROVE  Typed'
  BY <1>4, ApplyType DEF Late, Typed
<1>5. ASSUME NEW m, BlobExpires(m) \/ Expire(m) \/ Close(m)
      PROVE  Typed'
  <2>1. CASE BlobExpires(m)
    <3>1. blob' \in [Ids -> {None, Torn} \cup Envs]
      BY <2>1 DEF BlobExpires, Typed
    <3> QED
      BY <2>1, <3>1 DEF BlobExpires, Typed
  <2>2. CASE Expire(m) \/ Close(m)
    BY <2>2 DEF Expire, Close, Typed
  <2> QED
    BY <1>5, <2>1, <2>2
<1>6. CASE VercelEdited
  BY <1>6 DEF VercelEdited, Typed
<1>7. CASE GatewayDies
  <2>1. \A x \in Slots : call[x].at \in {"write", "restore"} => WriteOf(x) \in Write
    BY WriteOfType DEF Typed
  <2>2. wire' \subseteq Write
    BY <1>7, <2>1 DEF GatewayDies, Typed
  <2>3. call' \in [Slots -> Calls]
    BY <1>7 DEF GatewayDies, Calls
  <2> QED
    BY <1>7, <2>2, <2>3 DEF GatewayDies, Typed
<1> QED
  BY <1>1, <1>2, <1>3, <1>4, <1>5, <1>6, <1>7 DEF Next, Environment

-----------------------------------------------------------------------------
(* What a human was told stays true.                                       *)

(* A row is appended to the history of its own step, and to no other.      *)
LEMMA NotePrior ==
  ASSUME file \in Seq(Row), NEW s, NEW state, NEW detail, Note(s, state, detail)
  PROVE  \A k : Prior(file', k) =
           IF Key(s) = k THEN {[key |-> Key(s), run |-> call[s].run, state |-> state, detail |-> detail]}
           ELSE Prior(file, k)
<1> DEFINE r == [key |-> Key(s), run |-> call[s].run, state |-> state, detail |-> detail]
<1>1. file' = Append(file, r)
  BY DEF Note
<1>2. r.key = Key(s)
  OBVIOUS
<1> HIDE DEF r
<1>3. file \in Seq(Row \cup {r})
  OBVIOUS
<1>4. \A k : Prior(Append(file, r), k) = IF r.key = k THEN {r} ELSE Prior(file, k)
  BY <1>3, PriorOfAppend
<1>5. \A k : Prior(file', k) = IF Key(s) = k THEN {r} ELSE Prior(file, k)
  BY <1>1, <1>2, <1>4
<1> QED
  BY <1>5 DEF r

(* The record of the servers is what it was.                               *)
ServersKept == \A i : Prior(file', <<i, "P2">>) = Prior(file, <<i, "P2">>)

(* A row that is noted for a cutover is not about the server of a mandate. *)
LEMMA NoteKeepsServers ==
  ASSUME file \in Seq(Row), NEW s, NEW state, NEW detail, Note(s, state, detail), call[s].step = "P8"
  PROVE  ServersKept
<1>1. \A i : Key(s) # <<i, "P2">>
  BY DEF Key
<1> QED
  BY <1>1, NotePrior DEF ServersKept

(* A step that leaves the file alone says nothing new of a server.         *)
LEMMA UnchangedKeepsServers == file' = file => ServersKept
BY DEF ServersKept

(* The row that says where the server of a mandate is stays.               *)
LEMMA KeptRow == ServersKept => \A i : ServerRow(i)' = ServerRow(i)
BY DEF ServersKept, ServerRow, Committed

(* A step of a call that is not the operator's.                            *)
LEMMA HandoffQuiet ==
  ASSUME Typed, Typed', Handoff, ServersKept, coolify' = coolify,
         \A x \in Slots : call'[x] = call[x] \/ ~Operating(x)'
  PROVE  Handoff'
<1>1. Alone'
  BY DEF Handoff, Alone, Operating
<1>2. ASSUME NEW x \in Slots PROVE Undisturbed(x)'
  <2>1. CASE call'[x] = call[x]
    <3>1. Undisturbed(x)
      BY DEF Handoff
    <3>2. call[x].step = "P2" => Prior(file', Key(x)) = Prior(file, Key(x))
      BY DEF ServersKept, Key
    <3>3. Key(x)' = Key(x)
      BY <2>1 DEF Key
    <3> QED
      <4>1. At(x, "sealing")' => coolify'[call'[x].mandate] = Torn
        BY <2>1, <3>1 DEF Undisturbed, At
      <4>2. PICK c : c = call[x]
        OBVIOUS
      <4>3. At(x, "claim")' /\ call'[x].step = "P2" =>
              \A p \in ServerRow(call[x].mandate)' : p.run = call'[x].run => p.detail = call'[x].detail
        <5>1. ServerRow(c.mandate)' = ServerRow(c.mandate)
          BY KeptRow
        <5>2. c.at = "claim" /\ c.step = "P2" =>
                \A p \in ServerRow(c.mandate) : p.run = c.run => p.detail = c.detail
          BY <3>1, <4>2 DEF Undisturbed, At
        <5> QED
          BY <2>1, <4>2, <5>1, <5>2 DEF At, ServerRow
      <4>4. At(x, "intend")' /\ call'[x].step = "P2" => Free(file, Key(x))'
        BY <2>1, <3>1, <3>2, <3>3 DEF Undisturbed, At, Free
      <4>5. At(x, "settle")' /\ call'[x].step = "P2" => InFlight(file, Key(x))'
        BY <2>1, <3>1, <3>2, <3>3 DEF Undisturbed, At, InFlight
      <4> QED
        BY <4>1, <4>3, <4>4, <4>5 DEF Undisturbed
  <2>2. CASE ~Operating(x)'
    <3>1. call'[x].at = "sealing" => call'[x].step = "P2"
      <4>1. PICK c \in Calls : c = call'[x]
        BY DEF Typed
      <4> QED
        BY <4>1, KindOf DEF PrepareCall
    <3> QED
      BY <2>2, <3>1 DEF Undisturbed, At, Operating
  <2> QED
    BY <2>1, <2>2
<1> QED
  BY <1>1, <1>2 DEF Handoff

(* A step of the operator's call, the only one there is.                   *)
LEMMA HandoffAlone ==
  ASSUME Typed, Typed', NEW s \in Slots, Undisturbed(s)',
         \A x \in Slots \ {s} : call'[x] = call[x] /\ ~Operating(x)
  PROVE  Handoff'
<1>1. \A x \in Slots \ {s} : ~Operating(x)'
  BY DEF Operating
<1>2. ASSUME NEW x \in Slots \ {s} PROVE Undisturbed(x)'
  <2>1. call'[x].at = "sealing" => call'[x].step = "P2"
    BY CallAt DEF Typed, PrepareCall
  <2> QED
    BY <1>1, <2>1 DEF Undisturbed, At, Operating
<1> QED
  BY <1>1, <1>2 DEF Handoff, Alone

(* While one call is the operator's, no other is.                          *)
LEMMA NobodyElse ==
  ASSUME Handoff, NEW s \in Slots, Operating(s)
  PROVE  \A x \in Slots \ {s} : ~Operating(x)
BY DEF Handoff, Alone

(* A new call of the operator's is the only one.                           *)
LEMMA NobodyYet ==
  ASSUME Typed, OneOperator
  PROVE  \A x \in Slots : ~Operating(x)
BY CallAt DEF Typed, OneOperator, Operating, Idle

(* once(), when the call is the operator's.                                *)
LEMMA HandoffOnce ==
  ASSUME Typed, Typed', Handoff, NEW s \in Slots, call[s].step = "P2",
         Claim(s) \/ Intend(s) \/ Settle(s)
  PROVE  Handoff'
<1>1. call[s] \in RegisterCall
  BY CallAt DEF Typed, Claim, Intend, Settle, At, UpsertCall, SettleCall
<1>2. /\ \A x \in Slots \ {s} : ~Operating(x)
  BY <1>1, NobodyElse DEF Claim, Intend, Settle, At, Operating
<1>3. /\ DOMAIN call = Slots /\ call \in [Slots -> Calls]
  BY DEF Typed
<1>4. CASE Claim(s)
  <2>1. /\ \A x \in Slots \ {s} : call'[x] = call[x]
        /\ \/ call'[s] = Idle
           \/ Free(file, Key(s)) /\ call'[s] = [call[s] EXCEPT !.at = "intend"]
        /\ file' = file
    BY <1>3, <1>4 DEF Claim, Step, End
  <2>2. Undisturbed(s)'
    <3>1. CASE call'[s] = Idle
      BY <3>1 DEF Undisturbed, At, Idle
    <3>2. CASE Free(file, Key(s)) /\ call'[s] = [call[s] EXCEPT !.at = "intend"]
      <4>1. call'[s].at = "intend" /\ call'[s].mandate = call[s].mandate /\ call'[s].step = call[s].step
        BY <1>1, <3>2 DEF RegisterCall
      <4>2. Key(s)' = Key(s)
        BY <4>1 DEF Key
      <4>3. Free(file, Key(s))'
        BY <2>1, <3>2, <4>2
      <4> QED
        BY <4>1, <4>3 DEF Undisturbed, At
    <3> QED
      BY <2>1, <3>1, <3>2
  <2> QED
    BY <1>2, <2>1, <2>2, HandoffAlone
<1>5. CASE Intend(s)
  <2>1. /\ \A x \in Slots \ {s} : call'[x] = call[x]
        /\ call'[s] = [call[s] EXCEPT !.at = "settle"]
    BY <1>3, <1>5 DEF Intend, Step
  <2>2. call'[s].at = "settle" /\ call'[s].mandate = call[s].mandate /\ call'[s].step = call[s].step
    BY <1>1, <2>1 DEF RegisterCall
  <2>3. Key(s)' = Key(s)
    BY <2>2 DEF Key
  <2>4. Prior(file', Key(s)) = {[key |-> Key(s), run |-> call[s].run, state |-> "INTENT", detail |-> None]}
    BY <1>5, NotePrior DEF Intend, Typed
  <2>5. InFlight(file, Key(s))'
    BY <2>3, <2>4 DEF InFlight
  <2>6. Undisturbed(s)'
    BY <2>2, <2>5 DEF Undisturbed, At
  <2> QED
    BY <1>2, <2>1, <2>6, HandoffAlone
<1>6. CASE Settle(s)
  <2>1. call'[s] = Idle /\ \A x \in Slots \ {s} : call'[x] = call[x]
    BY <1>3, <1>6 DEF Settle, Step, End
  <2>2. Undisturbed(s)'
    BY <2>1 DEF Undisturbed, At, Idle
  <2> QED
    BY <1>2, <2>1, <2>2, HandoffAlone
<1> QED
  BY <1>4, <1>5, <1>6

(* A step of another's leaves alone what the operator's calls rely on.     *)
NotOperator ==
  /\ ServersKept /\ coolify' = coolify /\ handed' = handed /\ confirmed' = confirmed
  /\ \A x \in Slots : call'[x] = call[x] \/ ~Operating(x)'

(* A step of a call that is not the operator's leaves the handoff lane     *)
(* alone.                                                                  *)
LEMMA NotOperatorCall ==
  ASSUME Typed, NEW s \in Slots, NEW c, Step(s, c) \/ Begin(s, c), c.at = "idle" \/ c.step # "P2",
         file' = file, coolify' = coolify, handed' = handed, confirmed' = confirmed
  PROVE  NotOperator
<1>1. call'[s] = c /\ \A x \in Slots \ {s} : call'[x] = call[x]
  BY DEF Step, Begin, Typed
<1> QED
  BY <1>1, UnchangedKeepsServers DEF NotOperator, Operating

(* A new call of an agent is not the operator's.                           *)
LEMMA RequestIsNotOperator ==
  ASSUME Typed, NEW s \in Slots, NEW t \in Tokens, Agent(s, t)
  PROVE  NotOperator
<1> USE DEF vault, history
<1>1. ASSUME NEW p \in Projects, Export(s, t, p)
      PROVE  NotOperator
  BY <1>1, NotOperatorCall DEF Export
<1>2. CASE BulkUpdate(s, t)
  BY <1>2, NotOperatorCall DEF BulkUpdate
<1>3. CASE Rollback(s, t)
  <2>1. PICK p : Begin(s, [at |-> "restore", domain |-> p.detail.domain, record |-> p.detail.record,
                           content |-> IF p.detail.previous = None THEN None ELSE p.detail.previous.content,
                           step |-> "rollback", from |-> p.detail.from, to |-> p.detail.to])
    BY <1>3 DEF Rollback
  <2> QED
    BY <1>3, <2>1, NotOperatorCall DEF Rollback
<1>4. ASSUME NEW r \in Runs, NEW d \in Domains, NEW v \in Verdicts, Upsert(s, t, r, d, v)
      PROVE  NotOperator
  <2>1. PICK p : Begin(s, [at |-> "claim", mandate |-> t.mandate.id, step |-> "P8", run |-> r,
                           domain |-> d, detail |-> p.detail])
    BY <1>4 DEF Upsert
  <2> QED
    BY <1>4, <2>1, NotOperatorCall DEF Upsert
<1> QED
  BY <1>1, <1>2, <1>3, <1>4 DEF Agent

(* once(), when the call is not the operator's.                            *)
LEMMA OnceIsNotOperator ==
  ASSUME Typed, NEW s \in Slots, call[s].step # "P2",
         Claim(s) \/ Intend(s) \/ Settle(s) \/ Release(s)
  PROVE  NotOperator
<1> USE DEF vault, history
<1>1. call \in [Slots -> Calls] /\ file \in Seq(Row)
  BY DEF Typed
<1>2. CASE Claim(s)
  <2>1. call[s] \in UpsertCall
    BY <1>1, <1>2, CallAt DEF Claim, At, RegisterCall
  <2>2. confirmed' = confirmed
    BY <1>2 DEF Claim, Confirm
  <2>3. [call[s] EXCEPT !.at = "intend"].step # "P2"
    BY <2>1 DEF UpsertCall
  <2> QED
    BY <1>2, <2>2, <2>3, NotOperatorCall DEF Claim, End, Idle
<1>3. CASE Intend(s)
  <2>1. call[s] \in UpsertCall /\ call[s].step = "P8"
    BY <1>1, <1>3, CallAt DEF Intend, At, RegisterCall, UpsertCall
  <2>2. call'[s] = [call[s] EXCEPT !.at = "look"] /\ \A x \in Slots \ {s} : call'[x] = call[x]
    BY <1>1, <1>3, <2>1 DEF Intend, Step
  <2>3. call'[s].step # "P2"
    BY <2>1, <2>2 DEF UpsertCall
  <2>4. ServersKept
    BY <1>1, <1>3, <2>1, NoteKeepsServers DEF Intend
  <2> QED
    BY <1>3, <2>2, <2>3, <2>4 DEF Intend, NotOperator, Operating
<1>4. CASE Settle(s)
  <2>1. call[s].step = "P8"
    BY <1>1, <1>4, CallAt DEF Settle, At, RegisterCall, SettleCall
  <2>2. call'[s].at = "idle" /\ \A x \in Slots \ {s} : call'[x] = call[x]
    BY <1>1, <1>4 DEF Settle, End, Step, Idle
  <2>3. ServersKept
    BY <1>1, <1>4, <2>1, NoteKeepsServers DEF Settle
  <2>4. confirmed' = confirmed
    BY <1>4 DEF Settle, Confirm
  <2> QED
    BY <1>4, <2>2, <2>3, <2>4 DEF Settle, NotOperator, Operating
<1>5. CASE Release(s)
  <2>1. call[s].step = "P8"
    BY <1>1, <1>5, CallAt DEF Release, At, UpsertCall, WriteCall
  <2>2. call'[s].at = "idle" /\ \A x \in Slots \ {s} : call'[x] = call[x]
    BY <1>1, <1>5 DEF Release, End, Step, Idle
  <2>3. ServersKept
    BY <1>1, <1>5, <2>1, NoteKeepsServers DEF Release
  <2> QED
    BY <1>5, <2>2, <2>3 DEF Release, NotOperator, Operating
<1> QED
  BY <1>2, <1>3, <1>4, <1>5

(* A step of an export or of a load is not the operator's.                 *)
LEMMA EnvIsNotOperator ==
  ASSUME Typed, NEW s \in Slots,
         ReadEnvs(s) \/ SealEnvs(s) \/ SealedEnvs(s) \/ OpenBlob(s) \/ Load(s)
  PROVE  NotOperator
<1> USE DEF vault, history
<1>1. call \in [Slots -> Calls] /\ Idle.at = "idle"
  BY DEF Typed, Idle
<1>2. CASE ReadEnvs(s)
  BY <1>1, <1>2, NotOperatorCall DEF ReadEnvs, End
<1>3. CASE SealEnvs(s)
  <2>1. call[s] \in BlobCall
    BY <1>1, <1>3, CallIn DEF SealEnvs, At
  <2>2. [call[s] EXCEPT !.at = "blobbing"].step # "P2"
    BY <2>1 DEF BlobCall
  <2> QED
    BY <1>3, <2>2, NotOperatorCall DEF SealEnvs
<1>4. CASE SealedEnvs(s)
  BY <1>1, <1>4, NotOperatorCall DEF SealedEnvs, End
<1>5. CASE OpenBlob(s)
  BY <1>1, <1>5, NotOperatorCall DEF OpenBlob, End
<1>6. CASE Load(s)
  BY <1>1, <1>6, NotOperatorCall DEF Load, End
<1> QED
  BY <1>2, <1>3, <1>4, <1>5, <1>6

(* A step at a domain is not the operator's.                               *)
LEMMA DnsIsNotOperator ==
  ASSUME Typed, NEW s \in Slots, Look(s) \/ Written(s) \/ Restored(s) \/ GiveUp(s)
  PROVE  NotOperator
<1> USE DEF vault, history
<1>1. call \in [Slots -> Calls] /\ Idle.at = "idle"
  BY DEF Typed, Idle
<1>2. call[s].at \in {"look", "write"} => [call[s] EXCEPT !.at = "release"].step # "P2"
  <2>1. ASSUME call[s].at \in {"look", "write"}
        PROVE  call[s] \in UpsertCall \cup WriteCall
    BY <1>1, <2>1, CallAt
  <2> QED
    BY <2>1 DEF UpsertCall, WriteCall
<1>3. CASE Look(s)
  <2>1. call[s].at = "look" /\ file' = file /\ coolify' = coolify /\ handed' = handed /\ confirmed' = confirmed
    BY <1>3 DEF Look, At
  <2>2. \/ \E seen : Step(s, [at |-> "write", mandate |-> call[s].mandate, step |-> "P8", run |-> call[s].run,
                     domain |-> call[s].domain, record |-> IF seen = None THEN 0 ELSE seen.id,
                     content |-> call[s].detail, seen |-> seen, from |-> Len(zone[call[s].domain])])
        \/ Step(s, [call[s] EXCEPT !.at = "release"])
    BY <1>3 DEF Look
  <2>3. \A seen : [at |-> "write", mandate |-> call[s].mandate, step |-> "P8", run |-> call[s].run,
                   domain |-> call[s].domain, record |-> IF seen = None THEN 0 ELSE seen.id,
                   content |-> call[s].detail, seen |-> seen, from |-> Len(zone[call[s].domain])].step # "P2"
    OBVIOUS
  <2> QED
    BY <1>2, <2>1, <2>2, <2>3, NotOperatorCall
<1>4. CASE Written(s)
  BY <1>2, <1>4, NotOperatorCall DEF Written, At
<1>5. CASE Restored(s)
  BY <1>1, <1>5, NotOperatorCall DEF Restored, End
<1>6. CASE GiveUp(s)
  BY <1>1, <1>2, <1>6, NotOperatorCall DEF GiveUp, End, At
<1> QED
  BY <1>3, <1>4, <1>5, <1>6

(* Nor does the world around the gateway, or its crash, touch the handoff  *)
(* lane.                                                                   *)
LEMMA WorldIsNotOperator ==
  ASSUME Typed, Environment \/ UNCHANGED vars
  PROVE  NotOperator
<1> USE DEF vars, vault, clock, history, NotOperator
<1>1. ASSUME NEW w \in wire, Late(w)
      PROVE  NotOperator
  BY <1>1, UnchangedKeepsServers DEF Late
<1>2. ASSUME NEW m, BlobExpires(m) \/ Expire(m) \/ Close(m)
      PROVE  NotOperator
  BY <1>2, UnchangedKeepsServers DEF BlobExpires, Expire, Close
<1>3. CASE GatewayDies
  BY <1>3, UnchangedKeepsServers DEF GatewayDies, Operating, Idle
<1>4. CASE VercelEdited \/ UNCHANGED vars
  BY <1>4, UnchangedKeepsServers DEF VercelEdited
<1> QED
  BY <1>1, <1>2, <1>3, <1>4 DEF Environment

(* The steps there are, the operator's first.                              *)
OperatorStep(s) ==
  \/ \E t \in Tokens : Prepare(s, t) \/ \E r \in Runs, ip \in Addresses : Register(s, t, r, ip)
  \/ CoolifySecrets(s) \/ SealSecret(s) \/ PriorAddress(s)
  \/ call[s].step = "P2" /\ (Claim(s) \/ Intend(s) \/ Settle(s))

(* Every step is one of the operator's calls, or none of its.              *)
LEMMA Steps ==
  ASSUME Typed, [Next]_vars
  PROVE  NotOperator \/ \E s \in Slots : OperatorStep(s)
<1>1. CASE UNCHANGED vars \/ Environment
  BY <1>1, WorldIsNotOperator
<1>2. ASSUME NEW s \in Slots, NEW t \in Tokens, Operator(s, t) \/ Agent(s, t)
      PROVE  NotOperator \/ OperatorStep(s)
  BY <1>2, RequestIsNotOperator DEF Operator, OperatorStep
<1>3. ASSUME NEW s \in Slots, Handler(s)
      PROVE  NotOperator \/ OperatorStep(s)
  <2>1. Release(s) => call[s].step # "P2"
    BY CallAt DEF Release, At, UpsertCall, WriteCall, Typed
  <2> QED
    BY <1>3, <2>1, OnceIsNotOperator, EnvIsNotOperator, DnsIsNotOperator DEF Handler, OperatorStep
<1> QED
  BY <1>1, <1>2, <1>3 DEF Next

(* Every step keeps the operator's calls alone and what they go by true.   *)
LEMMA HandoffStep ==
  ASSUME Typed, Typed', Handoff, [Next]_vars
  PROVE  Handoff'
<1> USE DEF vault, clock, history
<1>0. call \in [Slots -> Calls]
  BY DEF Typed
<1>1. CASE NotOperator
  BY <1>1, HandoffQuiet DEF NotOperator
<1>2. ASSUME NEW s \in Slots, OperatorStep(s)
      PROVE  Handoff'
  <2>1. ASSUME NEW t \in Tokens, Prepare(s, t)
        PROVE  Handoff'
    <3>1. \A x \in Slots \ {s} : call'[x] = call[x] /\ ~Operating(x)
      BY <1>0, <2>1, NobodyYet DEF Prepare, Begin
    <3>2. call'[s].at = "secrets"
      BY <1>0, <2>1 DEF Prepare, Begin
    <3> QED
      BY <3>1, <3>2, HandoffAlone DEF Undisturbed, At
  <2>2. ASSUME NEW t \in Tokens, NEW r \in Runs, NEW ip \in Addresses, Register(s, t, r, ip)
        PROVE  Handoff'
    <3>1. \A x \in Slots \ {s} : call'[x] = call[x] /\ ~Operating(x)
      BY <1>0, <2>2, NobodyYet DEF Register, Begin
    <3>2. call'[s].at = "prior"
      BY <1>0, <2>2 DEF Register, Begin
    <3> QED
      BY <3>1, <3>2, HandoffAlone DEF Undisturbed, At
  <2>3. CASE CoolifySecrets(s)
    <3>1. call[s] \in PrepareCall
      BY <1>0, <2>3, CallAt DEF CoolifySecrets, At
    <3>2. \A x \in Slots \ {s} : ~Operating(x)
      BY <2>3, <3>1, NobodyElse DEF CoolifySecrets, At, Operating, PrepareCall
    <3>3. \A x \in Slots \ {s} : call'[x] = call[x]
      BY <1>0, <2>3 DEF CoolifySecrets, Step, End
    <3>4. \/ coolify' = [coolify EXCEPT ![call[s].mandate] = Torn] /\ call'[s] = [call[s] EXCEPT !.at = "sealing"]
          \/ call'[s] = Idle
      BY <1>0, <2>3 DEF CoolifySecrets, Step, End
    <3>5. Undisturbed(s)'
      <4>1. CASE call'[s] = Idle
        BY <4>1 DEF Undisturbed, At, Idle
      <4>2. CASE /\ coolify' = [coolify EXCEPT ![call[s].mandate] = Torn]
                 /\ call'[s] = [call[s] EXCEPT !.at = "sealing"]
        <5>1. call'[s].at = "sealing" /\ call'[s].mandate = call[s].mandate /\ call[s].mandate \in Ids
          BY <3>1, <4>2 DEF PrepareCall
        <5>2. coolify'[call[s].mandate] = Torn
          BY <4>2, <5>1 DEF Typed
        <5> QED
          BY <5>1, <5>2 DEF Undisturbed, At
      <4> QED
        BY <3>4, <4>1, <4>2
    <3> QED
      BY <3>2, <3>3, <3>5, HandoffAlone
  <2>4. CASE SealSecret(s)
    <3>1. call[s] \in PrepareCall
      BY <1>0, <2>4, CallAt DEF SealSecret, At
    <3>2. \A x \in Slots \ {s} : ~Operating(x)
      BY <2>4, <3>1, NobodyElse DEF SealSecret, At, Operating, PrepareCall
    <3>3. call'[s] = Idle /\ \A x \in Slots \ {s} : call'[x] = call[x]
      BY <1>0, <2>4 DEF SealSecret, Step, End
    <3> QED
      BY <3>2, <3>3, HandoffAlone DEF Undisturbed, At, Idle
  <2>5. CASE PriorAddress(s)
    <3>1. call[s] \in RegisterCall
      BY <1>0, <2>5, CallAt DEF PriorAddress, At
    <3>2. \A x \in Slots \ {s} : ~Operating(x)
      BY <2>5, <3>1, NobodyElse DEF PriorAddress, At, Operating, RegisterCall
    <3>3. \A x \in Slots \ {s} : call'[x] = call[x]
      BY <1>0, <2>5 DEF PriorAddress, Step, End
    <3>4. \/ call'[s] = Idle
          \/ /\ call'[s] = [call[s] EXCEPT !.at = "claim"]
             /\ \A p \in ServerRow(call[s].mandate) : p.run = call[s].run => p.detail = call[s].detail
      BY <1>0, <2>5 DEF PriorAddress, Step, End
    <3>5. Undisturbed(s)'
      <4>1. CASE call'[s] = Idle
        BY <4>1 DEF Undisturbed, At, Idle
      <4>2. CASE /\ call'[s] = [call[s] EXCEPT !.at = "claim"]
                 /\ \A p \in ServerRow(call[s].mandate) : p.run = call[s].run => p.detail = call[s].detail
        <5>1. PICK c : c = call[s]
          OBVIOUS
        <5>2. /\ call'[s].at = "claim" /\ call'[s].mandate = c.mandate
              /\ call'[s].run = c.run /\ call'[s].detail = c.detail
          BY <3>1, <4>2, <5>1 DEF RegisterCall
        <5>3. file' = file
          BY <2>5 DEF PriorAddress
        <5> QED
          BY <4>2, <5>1, <5>2, <5>3 DEF Undisturbed, At, ServerRow
      <4> QED
        BY <3>4, <4>1, <4>2
    <3> QED
      BY <3>2, <3>3, <3>5, HandoffAlone
  <2>6. CASE call[s].step = "P2" /\ (Claim(s) \/ Intend(s) \/ Settle(s))
    BY <2>6, HandoffOnce
  <2> QED
    BY <1>2, <2>1, <2>2, <2>3, <2>4, <2>5, <2>6 DEF OperatorStep
<1> QED
  BY <1>1, <1>2, Steps

(* The row that says where the server of a mandate is never goes away: a   *)
(* registration only adds a row to a key that has no committed one.        *)
LEMMA ServerRowStays ==
  ASSUME Typed, Handoff, [Next]_vars, NEW i, NEW p \in ServerRow(i)
  PROVE  p \in ServerRow(i)'
<1> USE DEF vault, clock, history
<1>1. CASE ServersKept
  BY <1>1, KeptRow
<1>2. ASSUME NEW s \in Slots, call[s].step = "P2", Intend(s) \/ Settle(s)
      PROVE  p \in ServerRow(i)'
  <2>1. Undisturbed(s) /\ file \in Seq(Row)
    BY DEF Handoff, Typed
  <2>2. Committed(file, Key(s)) = {}
    <3>1. CASE Intend(s)
      BY <1>2, <2>1, <3>1 DEF Undisturbed, Intend, At, Free, Committed
    <3>2. CASE Settle(s)
      <4>1. PICK q \in Prior(file, Key(s)) : q.state = "INTENT"
        BY <1>2, <2>1, <3>2 DEF Undisturbed, Settle, At, InFlight
      <4>2. \A r \in Prior(file, Key(s)) : r = q
        BY <2>1, PriorIsUnique
      <4> QED
        BY <4>1, <4>2 DEF Committed
    <3> QED
      BY <1>2, <3>1, <3>2
  <2>3. Key(s) # <<i, "P2">>
    BY <2>2 DEF ServerRow
  <2>4. Prior(file', <<i, "P2">>) = Prior(file, <<i, "P2">>)
    BY <1>2, <2>1, <2>3, NotePrior DEF Intend, Settle
  <2> QED
    BY <2>4 DEF ServerRow, Committed
<1>3. ASSUME NEW s \in Slots, OperatorStep(s), ~(Intend(s) \/ Settle(s))
      PROVE  ServersKept
  <2>1. file' = file
    BY <1>3 DEF OperatorStep, Prepare, Register, CoolifySecrets, SealSecret, PriorAddress, Claim
  <2> QED
    BY <2>1, UnchangedKeepsServers
<1> QED
  <2>1. ASSUME NEW s \in Slots, OperatorStep(s), Intend(s) \/ Settle(s)
        PROVE  call[s].step = "P2" \/ ServersKept
    BY <2>1, UnchangedKeepsServers
       DEF OperatorStep, Prepare, Register, CoolifySecrets, SealSecret, PriorAddress, Claim
  <2> QED
    BY <1>1, <1>2, <1>3, <2>1, Steps DEF NotOperator

(* What was misread stays so.                                              *)
LEMMA MisreadStays == [Next]_vars => misread \subseteq misread'
<1> SUFFICES ASSUME [Next]_vars PROVE misread \subseteq misread'
  OBVIOUS
<1> USE DEF history
<1>1. CASE UNCHANGED vars \/ Environment
  BY <1>1 DEF vars, Environment, Late, BlobExpires, Expire, Close, VercelEdited, GatewayDies
<1>2. ASSUME NEW s \in Slots, NEW t \in Tokens, Operator(s, t) \/ Agent(s, t)
      PROVE  misread \subseteq misread'
  BY <1>2 DEF Operator, Agent, Prepare, Register, BulkUpdate, Export, Rollback, Upsert
<1>3. ASSUME NEW s \in Slots, Handler(s)
      PROVE  misread \subseteq misread'
  <2>1. CASE CoolifySecrets(s)
    BY <2>1 DEF CoolifySecrets
  <2> QED
    BY <1>3, <2>1 DEF Handler, SealSecret, PriorAddress, Claim, Intend, Settle, Release,
       ReadEnvs, SealEnvs, SealedEnvs, OpenBlob, Load, Look, Written, Restored, GiveUp
<1> QED
  BY <1>1, <1>2, <1>3 DEF Next

(* Every step keeps what a human was told true: a secret that was handed   *)
(* out and that no read has missed is never minted again, and a server that  *)
(* was confirmed is never replaced.                                        *)
LEMMA HandoffStandsStep ==
  ASSUME Typed, Handoff, HandoffStands, [Next]_vars
  PROVE  HandoffStands'
<1> USE DEF vault, clock, history
<1> DEFINE Known(c) == \E p \in ServerRow(c.mandate) : p.detail = c.ip
           Told == \A h \in handed : coolify[h.mandate] = h.secret \/ h.mandate \in misread
<1>0. call \in [Slots -> Calls] /\ Told /\ (\A c \in confirmed : Known(c)) /\ misread \subseteq misread'
  BY MisreadStays DEF Typed, HandoffStands
<1>1. \A c : Known(c) => \E p \in ServerRow(c.mandate)' : p.detail = c.ip
  BY ServerRowStays
<1>2. CASE NotOperator
  BY <1>0, <1>1, <1>2 DEF NotOperator, HandoffStands
<1>3. ASSUME NEW s \in Slots, OperatorStep(s)
      PROVE  HandoffStands'
  <2>1. CASE coolify' = coolify /\ handed' = handed /\ confirmed' = confirmed
    BY <1>0, <1>1, <2>1 DEF HandoffStands
  <2>2. ASSUME CoolifySecrets(s) \/ SealSecret(s)
        PROVE  HandoffStands'
    <3> DEFINE m == call[s].mandate
    <3>1. m \in Ids /\ confirmed' = confirmed /\ coolify \in [Ids -> Nat \cup {None, Torn}] /\ nextId \in Nat
      BY <1>0, <2>2, CallAt DEF CoolifySecrets, SealSecret, At, PrepareCall, Typed
    <3>2. \A h \in handed : h.mandate \in Ids /\ h.secret \in Nat
      BY DEF Typed
    <3>3. None \notin Nat /\ Torn \notin Nat
      BY GatewayToolsAssumption
    <3>4. coolify[m] \in {None, Torn} => \A h \in handed : h.mandate = m => m \in misread
      BY <1>0, <3>2, <3>3
    <3> HIDE DEF m
    <3>5. CASE CoolifySecrets(s)
      <4>1. \/ /\ coolify' = [coolify EXCEPT ![m] = Torn] /\ handed' = handed
               /\ coolify[m] = None \/ \A h \in handed : h.mandate = m => m \in misread'
            \/ coolify' = coolify /\ handed' \subseteq handed \cup {[mandate |-> m, secret |-> coolify[m]]}
        BY <3>5 DEF CoolifySecrets, m
      <4> QED
        BY <1>0, <1>1, <3>1, <3>2, <3>4, <4>1 DEF HandoffStands
    <3>6. CASE SealSecret(s)
      <4>1. coolify[m] = Torn
        BY <3>6 DEF SealSecret, Handoff, Undisturbed, m
      <4>2. coolify' = [coolify EXCEPT ![m] = nextId] /\ handed' = handed \cup {[mandate |-> m, secret |-> nextId]}
        BY <3>6 DEF SealSecret, m
      <4> QED
        BY <1>0, <1>1, <3>1, <3>2, <3>4, <4>1, <4>2 DEF HandoffStands
    <3> QED
      BY <2>2, <3>5, <3>6
  <2>3. ASSUME call[s].step = "P2", Claim(s) \/ Settle(s), confirmed' # confirmed
        PROVE  HandoffStands'
    <3>1. coolify' = coolify /\ handed' = handed
          /\ confirmed' = confirmed \cup {[mandate |-> call[s].mandate, ip |-> call[s].detail]}
      BY <2>3 DEF Claim, Settle, Confirm
    <3>2. Undisturbed(s) /\ file \in Seq(Row) /\ Key(s) = <<call[s].mandate, "P2">>
      BY <2>3 DEF Handoff, Typed, Key
    <3>3. PICK m : m = call[s].mandate
      OBVIOUS
    <3>4. \E p \in ServerRow(m)' : p.detail = call[s].detail
      <4>1. CASE Claim(s)
        <5>1. file' = file /\ \E p \in Committed(file, Key(s)) : p.run = call[s].run
          BY <2>3, <4>1 DEF Claim
        <5>2. \A p \in ServerRow(m) : p.run = call[s].run => p.detail = call[s].detail
          BY <2>3, <3>2, <3>3, <4>1 DEF Claim, Undisturbed
        <5> QED
          BY <3>2, <3>3, <5>1, <5>2 DEF ServerRow
      <4>2. CASE Settle(s)
        <5>1. PICK r : r = [key |-> Key(s), run |-> call[s].run, state |-> "COMMITTED", detail |-> call[s].detail]
          OBVIOUS
        <5>2. r.state = "COMMITTED" /\ r.detail = call[s].detail
          BY <5>1
        <5>3. Prior(file', <<m, "P2">>) = {r}
          BY <3>2, <3>3, <4>2, <5>1, NotePrior DEF Settle
        <5>4. r \in ServerRow(m)'
          BY <5>2, <5>3 DEF ServerRow, Committed
        <5> QED
          BY <5>2, <5>4
      <4> QED
        BY <2>3, <4>1, <4>2
    <3> QED
      BY <1>0, <1>1, <3>1, <3>3, <3>4 DEF HandoffStands
  <2>4. CASE (\E t \in Tokens : Prepare(s, t) \/ \E r \in Runs, ip \in Addresses : Register(s, t, r, ip))
             \/ PriorAddress(s) \/ Intend(s)
    BY <2>1, <2>4 DEF Prepare, Register, PriorAddress, Intend
  <2>5. CASE Claim(s) \/ Settle(s)
    BY <2>1, <2>3, <2>5, <1>3 DEF OperatorStep, Claim, Settle, Confirm
  <2> QED
    BY <1>3, <2>2, <2>4, <2>5 DEF OperatorStep
<1> QED
  BY <1>2, <1>3, Steps

(* What a human was told, with what it rests on.                           *)
LEMMA HandoffInvariant == Spec => [](Typed /\ Handoff /\ HandoffStands)
<1>1. Init => Handoff /\ HandoffStands
  BY DEF Init, Handoff, Alone, Undisturbed, Operating, At, Idle, HandoffStands
<1>2. Typed /\ Handoff /\ HandoffStands /\ [Next]_vars => (Typed /\ Handoff /\ HandoffStands)'
  BY TypedStep, HandoffStep, HandoffStandsStep
<1> QED
  BY <1>1, <1>2, InitTyped, PTL DEF Spec

(* Whatever is under way, crashes or arrives late, the secret in a cloud-  *)
(* init that handoff_prepare has handed out is the one in the vault unless *)
(* a later read of it has failed, and the address that                     *)
(* handoff_register has confirmed is where once() sends everything after.  *)
THEOREM HandoffStandsHolds == Spec => []HandoffStands
BY HandoffInvariant, PTL

-----------------------------------------------------------------------------
(* A domain points where the Auditor has passed.                           *)

(* A place that has been judged stays judged, since servers stay.          *)
LEMMA JudgedStays ==
  ASSUME Typed, Handoff, [Next]_vars, NEW d, NEW home, Judged(d, home)
  PROVE  Judged(d, home)'
<1>1. CASE home = Old
  BY <1>1 DEF Judged
<1>2. CASE home # Old
  <2>1. PICK m \in Mandates :
          /\ m.domain = d /\ [signed |-> TRUE, verdict |-> "PASS", mandate |-> m.id, ip |-> home] \in Verdicts
          /\ \E p \in ServerRow(m.id) : p.detail = home
    BY <1>2 DEF Judged
  <2>2. \E p \in ServerRow(m.id)' : p.detail = home
    BY <2>1, ServerRowStays
  <2> QED
    BY <2>1, <2>2 DEF Judged
<1> QED
  BY <1>1, <1>2

(* And so does what is judged about a row, a write under way and a call.   *)
LEMMA JudgementsStay ==
  ASSUME Typed, Handoff, [Next]_vars
  PROVE  /\ \A d, home : Judged(d, home) => Judged(d, home)'
         /\ \A c : JudgedCall(c) => JudgedCall(c)'
         /\ \A r : JudgedRow(r) => JudgedRow(r)'
         /\ \A w : JudgedWrite(w) => JudgedWrite(w)'
<1>1. \A d, home : Judged(d, home) => Judged(d, home)'
  BY JudgedStays
<1>2. \A d, r : JudgedOrNone(d, r) => JudgedOrNone(d, r)'
  BY <1>1 DEF JudgedOrNone
<1>3. ASSUME NEW c, JudgedCall(c)
      PROVE  JudgedCall(c)'
  BY <1>1, <1>2, <1>3 DEF JudgedCall
<1>4. ASSUME NEW r, JudgedRow(r)
      PROVE  JudgedRow(r)'
  BY <1>2, <1>4 DEF JudgedRow, IsCutover
<1>5. ASSUME NEW w, JudgedWrite(w)
      PROVE  JudgedWrite(w)'
  BY <1>1, <1>5 DEF JudgedWrite
<1> QED
  BY <1>1, <1>3, <1>4, <1>5

(* A step is sound when everything new in it was judged before.            *)
LEMMA CutoverFrom ==
  ASSUME Typed, Handoff, Cutover, [Next]_vars,
         \A c \in Under' : c \in Under \/ JudgedCall(c),
         \A r \in Rows' : r \in Rows \/ JudgedRow(r),
         \A w \in wire' : w \in wire \/ JudgedWrite(w),
         \A d \in Domains : \A r \in Current(d)' : r \in Current(d) \/ Judged(d, r.content)
  PROVE  Cutover'
<1>1. ASSUME NEW c \in Under' PROVE JudgedCall(c)'
  BY <1>1, JudgementsStay DEF Cutover
<1>2. ASSUME NEW r \in Rows' PROVE JudgedRow(r)'
  BY <1>2, JudgementsStay DEF Cutover
<1>3. ASSUME NEW w \in wire' PROVE JudgedWrite(w)'
  BY <1>3, JudgementsStay DEF Cutover
<1>4. ASSUME NEW d \in Domains, NEW r \in Current(d)' PROVE Judged(d, r.content)'
  <2>1. PICK home : home = r.content
    OBVIOUS
  <2>2. Judged(d, home)
    BY <1>4, <2>1 DEF Cutover
  <2>3. Judged(d, home)'
    BY <2>2, JudgementsStay
  <2> QED
    BY <2>1, <2>3
<1> QED
  BY <1>1, <1>2, <1>3, <1>4 DEF Cutover

(* A step of a call adds at most that call to those under way.             *)
LEMMA UnderStep ==
  ASSUME call \in [Slots -> Calls], NEW s \in Slots, NEW c, Step(s, c) \/ Begin(s, c)
  PROVE  \A x \in Under' : x \in Under \/ x = c
BY DEF Under, Step, Begin

(* A row that is noted is the only one added.                              *)
LEMMA RowsNote ==
  ASSUME file \in Seq(Row), NEW s, NEW state, NEW detail, Note(s, state, detail)
  PROVE  \A r \in Rows' : r \in Rows
           \/ r = [key |-> Key(s), run |-> call[s].run, state |-> state, detail |-> detail]
<1> DEFINE n == [key |-> Key(s), run |-> call[s].run, state |-> state, detail |-> detail]
<1>1. file' = Append(file, n)
  BY DEF Note
<1> HIDE DEF n
<1>2. /\ DOMAIN file' = 1..(Len(file) + 1) /\ DOMAIN file = 1..Len(file) /\ Len(file) \in Nat
      /\ \A i \in 1..(Len(file) + 1) : file'[i] = IF i \in 1..Len(file) THEN file[i] ELSE n
  BY <1>1
<1>3. \A r \in Rows' : r \in Rows \/ r = n
  BY <1>2 DEF Rows
<1> QED
  BY <1>3 DEF n

(* The records after a write are old ones, but for the one written.        *)
LEMMA ApplyRecords ==
  ASSUME Typed, NEW w \in Write, Apply(w)
  PROVE  \A d \in Domains : \A r \in Current(d)' :
           r \in Current(d) \/ (d = w.domain /\ w.content # None /\ r.content = w.content)
<1> DEFINE rest == {r \in Current(w.domain) : r.id # w.record}
           id   == IF w.record = 0 THEN nextId ELSE w.record
           made == IF w.content = None THEN {} ELSE {[id |-> id, content |-> w.content]}
<1>1. w.domain \in Domains /\ zone \in [Domains -> Seq(SUBSET ARecord)]
  BY DEF Write, Typed
<1>2. zone' = [zone EXCEPT ![w.domain] = Append(@, rest \cup made)]
  BY DEF Apply
<1>3. \A r \in made : w.content # None /\ r.content = w.content
  OBVIOUS
<1>4. rest \subseteq Current(w.domain)
  OBVIOUS
<1> HIDE DEF rest, made, id
<1>5. ASSUME NEW d \in Domains, d # w.domain
      PROVE  Current(d)' = Current(d)
  BY <1>1, <1>2, <1>5 DEF Current
<1>6. Current(w.domain)' = rest \cup made
  <2>1. PICK d \in Domains : d = w.domain
    BY <1>1
  <2>2. PICK q \in Seq(SUBSET ARecord) : q = zone[d]
    BY <1>1
  <2>3. zone'[d] = Append(q, rest \cup made)
    BY <1>1, <1>2, <2>1, <2>2
  <2>4. Len(zone'[d]) = Len(q) + 1 /\ Append(q, rest \cup made)[Len(q) + 1] = rest \cup made
    BY <2>3
  <2> QED
    BY <2>1, <2>3, <2>4 DEF Current, Last
<1> QED
  BY <1>3, <1>4, <1>5, <1>6

(* A step of one call that writes nothing.                                 *)
LEMMA CutoverCall ==
  ASSUME Typed, Handoff, Cutover, [Next]_vars, NEW s \in Slots, NEW c,
         Step(s, c) \/ Begin(s, c), JudgedCall(c), file' = file, zone' = zone, wire' = wire
  PROVE  Cutover'
<1>1. \A x \in Under' : x \in Under \/ JudgedCall(x)
  BY UnderStep DEF Typed
<1>2. Rows' = Rows /\ \A d : Current(d)' = Current(d)
  BY DEF Rows, Current
<1> QED
  BY <1>1, <1>2, CutoverFrom

(* Most calls hold no place a domain could be sent to.                     *)
LEMMA JudgedCalls ==
  /\ \A c : c.at \in {"idle", "secrets", "sealing", "prior", "release", "read",
                      "blob", "blobbing", "open", "load"} => JudgedCall(c)
  /\ \A c : c.at \in {"claim", "intend", "settle"} /\ c.step = "P2" => JudgedCall(c)
BY DEF JudgedCall

(* What a caller asks for.                                                 *)
LEMMA CutoverRequest ==
  ASSUME Typed, Handoff, Cutover, [Next]_vars, NEW s \in Slots, NEW t \in Tokens,
         Operator(s, t) \/ Agent(s, t)
  PROVE  Cutover'
<1> USE DEF vault, history
<1>1. CASE Prepare(s, t)
  <2>1. JudgedCall([at |-> "secrets", step |-> "P2", mandate |-> t.mandate.id])
    BY JudgedCalls
  <2> QED
    BY <1>1, <2>1, CutoverCall DEF Prepare
<1>2. ASSUME NEW r \in Runs, NEW ip \in Addresses, Register(s, t, r, ip)
      PROVE  Cutover'
  <2>1. JudgedCall([at |-> "prior", mandate |-> t.mandate.id, step |-> "P2", run |-> r, detail |-> ip])
    BY JudgedCalls
  <2> QED
    BY <1>2, <2>1, CutoverCall DEF Register
<1>3. ASSUME NEW p \in Projects, Export(s, t, p)
      PROVE  Cutover'
  <2>1. JudgedCall([at |-> "read", step |-> "env", mandate |-> t.mandate.id, project |-> p])
    BY JudgedCalls
  <2> QED
    BY <1>3, <2>1, CutoverCall DEF Export
<1>4. CASE BulkUpdate(s, t)
  <2>1. JudgedCall([at |-> "open", step |-> "env", mandate |-> t.mandate.id, floor |-> exported[t.mandate.id]])
    BY JudgedCalls
  <2> QED
    BY <1>4, <2>1, CutoverCall DEF BulkUpdate
<1>5. CASE Rollback(s, t)
  <2>1. PICK p \in Committed(file, <<t.mandate.id, "P8">>) :
          Begin(s, [at |-> "restore", domain |-> p.detail.domain, record |-> p.detail.record,
                    content |-> IF p.detail.previous = None THEN None ELSE p.detail.previous.content,
                    step |-> "rollback", from |-> p.detail.from, to |-> p.detail.to])
    BY <1>5 DEF Rollback
  <2>2. p \in Rows /\ IsCutover(p)
    <3>1. file \in Seq(Row)
      BY DEF Typed
    <3>2. PICK j \in DOMAIN file : p = file[j] /\ file[j].key[2] = "P8" /\ file[j].state = "COMMITTED"
      BY <3>1, CommittedRow
    <3> QED
      BY <3>2 DEF Rows, IsCutover
  <2>3. JudgedOrNone(p.detail.domain, p.detail.previous)
    BY <2>2 DEF Cutover, JudgedRow
  <2>4. PICK c : c = [at |-> "restore", domain |-> p.detail.domain, record |-> p.detail.record,
                      content |-> IF p.detail.previous = None THEN None ELSE p.detail.previous.content,
                      step |-> "rollback", from |-> p.detail.from, to |-> p.detail.to]
    OBVIOUS
  <2>5. /\ c.at = "restore" /\ c.domain = p.detail.domain
        /\ c.content = IF p.detail.previous = None THEN None ELSE p.detail.previous.content
    BY <2>4
  <2>6. JudgedCall(c)
    BY <2>3, <2>5 DEF JudgedCall, JudgedOrNone
  <2> QED
    BY <1>5, <2>1, <2>4, <2>6, CutoverCall DEF Rollback
<1>6. ASSUME NEW r \in Runs, NEW d \in Domains, NEW v \in Verdicts, Upsert(s, t, r, d, v)
      PROVE  Cutover'
  <2>1. PICK p \in ServerRow(t.mandate.id) :
          /\ verifyAuditorToken(v, t.mandate.id, p.detail, FALSE) = "OK"
          /\ Begin(s, [at |-> "claim", mandate |-> t.mandate.id, step |-> "P8", run |-> r,
                       domain |-> d, detail |-> p.detail])
    BY <1>6 DEF Upsert
  <2>2. t.mandate \in Mandates
    BY <1>6, AdmittedToken DEF Upsert
  <2>3. t.mandate.domain = d
    <3>1. ~Substituted(t.mandate, <<"cloudflare", "dns", "upsert">>, d)
      BY <1>6 DEF Upsert, authorize
    <3>2. \A m, x : ~Substituted(m, <<"cloudflare", "dns", "upsert">>, x) => x = m.domain
      BY DEF Substituted
    <3> QED
      BY <3>1, <3>2
  <2>4. v = [signed |-> TRUE, verdict |-> "PASS", mandate |-> t.mandate.id, ip |-> p.detail]
    <3>1. v = [signed |-> v.signed, verdict |-> v.verdict, mandate |-> v.mandate, ip |-> v.ip]
          /\ v.signed \in BOOLEAN
      BY GatewayToolsAssumption
    <3>2. v.signed /\ v.verdict = "PASS" /\ v.mandate = t.mandate.id /\ v.ip = p.detail
      BY <2>1 DEF verifyAuditorToken
    <3> QED
      BY <3>1, <3>2
  <2>5. Judged(d, p.detail)
    BY <2>1, <2>2, <2>3, <2>4 DEF Judged
  <2>6. JudgedCall([at |-> "claim", mandate |-> t.mandate.id, step |-> "P8", run |-> r,
                    domain |-> d, detail |-> p.detail])
    BY <2>5 DEF JudgedCall
  <2> QED
    BY <1>6, <2>1, <2>6, CutoverCall DEF Upsert
<1> QED
  BY <1>1, <1>2, <1>3, <1>4, <1>5, <1>6 DEF Operator, Agent

(* The handlers of the handoff lane, of once() and of the environment.     *)
LEMMA CutoverOnce ==
  ASSUME Typed, Handoff, Cutover, [Next]_vars, NEW s \in Slots,
         \/ CoolifySecrets(s) \/ SealSecret(s) \/ PriorAddress(s)
         \/ Claim(s) \/ Intend(s) \/ Settle(s) \/ Release(s)
  PROVE  Cutover'
<1> USE DEF vault, history
<1> DEFINE c == call[s]
<1>0. /\ call \in [Slots -> Calls] /\ file \in Seq(Row)
      /\ JudgedCall(Idle) /\ JudgedCall(c)
  BY JudgedCalls DEF Typed, Cutover, Under, Idle
<1>1. CASE CoolifySecrets(s)
  <2>1. c \in PrepareCall
    BY <1>0, <1>1, CallAt DEF CoolifySecrets, At
  <2>2. JudgedCall([c EXCEPT !.at = "sealing"])
    BY <2>1, JudgedCalls DEF PrepareCall
  <2> QED
    BY <1>0, <1>1, <2>2, CutoverCall DEF CoolifySecrets, End
<1>2. CASE SealSecret(s)
  BY <1>0, <1>2, CutoverCall DEF SealSecret, End
<1>3. CASE PriorAddress(s)
  <2>1. c \in RegisterCall
    BY <1>0, <1>3, CallAt DEF PriorAddress, At
  <2>2. PICK n : n = [c EXCEPT !.at = "claim"]
    OBVIOUS
  <2>3. n.at = "claim" /\ n.step = "P2"
    BY <2>1, <2>2 DEF RegisterCall
  <2>4. JudgedCall(n)
    BY <2>3, JudgedCalls
  <2> QED
    BY <1>0, <1>3, <2>2, <2>4, CutoverCall DEF PriorAddress, End
<1>4. CASE Claim(s)
  <2>1. c \in RegisterCall \cup UpsertCall /\ c.at = "claim"
    BY <1>0, <1>4, CallAt DEF Claim, At
  <2>2. PICK n : n = [c EXCEPT !.at = "intend"]
    OBVIOUS
  <2>3. n.at = "intend" /\ n.step = c.step /\ n.detail = c.detail
    BY <2>1, <2>2 DEF RegisterCall, UpsertCall
  <2>4. c \in UpsertCall => n.domain = c.domain
    BY <2>2 DEF UpsertCall
  <2>5. JudgedCall(n)
    <3>1. CASE c \in RegisterCall
      BY <2>3, <3>1, JudgedCalls DEF RegisterCall
    <3>2. CASE c \in UpsertCall
      BY <1>0, <2>1, <2>3, <2>4, <3>2 DEF JudgedCall
    <3> QED
      BY <2>1, <3>1, <3>2
  <2> QED
    BY <1>0, <1>4, <2>2, <2>5, CutoverCall DEF Claim, End
<1>5. CASE Intend(s)
  <2>1. c \in RegisterCall \cup UpsertCall /\ c.at = "intend"
    BY <1>0, <1>5, CallAt DEF Intend, At
  <2>2. PICK n : n = [c EXCEPT !.at = IF c.step = "P2" THEN "settle" ELSE "look"]
    OBVIOUS
  <2>3. JudgedCall(n)
    <3>1. CASE c \in RegisterCall
      <4>1. n.at = "settle" /\ n.step = "P2"
        BY <2>2, <3>1 DEF RegisterCall
      <4> QED
        BY <4>1, JudgedCalls
    <3>2. CASE c \in UpsertCall
      <4>1. n.at = "look" /\ n.step = c.step /\ n.domain = c.domain /\ n.detail = c.detail
        BY <2>2, <3>2 DEF UpsertCall
      <4> QED
        BY <1>0, <2>1, <4>1 DEF JudgedCall
    <3> QED
      BY <2>1, <3>1, <3>2
  <2>4. \A x \in Under' : x \in Under \/ JudgedCall(x)
    BY <1>0, <1>5, <2>2, <2>3, UnderStep DEF Intend
  <2>5. PICK r : r = [key |-> Key(s), run |-> call[s].run, state |-> "INTENT", detail |-> None]
    OBVIOUS
  <2>6. JudgedRow(r)
    BY <2>5 DEF JudgedRow, IsCutover
  <2>7. \A x \in Rows' : x \in Rows \/ JudgedRow(x)
    BY <1>0, <1>5, <2>5, <2>6, RowsNote DEF Intend
  <2>8. wire' = wire /\ \A d : Current(d)' = Current(d)
    BY <1>5 DEF Intend, Current
  <2> QED
    BY <2>4, <2>7, <2>8, CutoverFrom
<1>6. CASE Settle(s)
  <2>1. c \in RegisterCall \cup SettleCall /\ c.at = "settle"
    BY <1>0, <1>6, CallAt DEF Settle, At
  <2>2. \A x \in Under' : x \in Under \/ JudgedCall(x)
    BY <1>0, <1>6, UnderStep DEF Settle, End
  <2>3. PICK r : r = [key |-> Key(s), run |-> call[s].run, state |-> "COMMITTED", detail |-> call[s].detail]
    OBVIOUS
  <2>4. r.key[2] = c.step /\ r.detail = c.detail
    BY <2>3 DEF Key
  <2>5. JudgedRow(r)
    <3>1. CASE c \in RegisterCall
      BY <2>4, <3>1 DEF JudgedRow, IsCutover, RegisterCall
    <3>2. CASE c \in SettleCall
      BY <1>0, <2>1, <2>4, <3>2 DEF JudgedRow, JudgedCall, SettleCall
    <3> QED
      BY <2>1, <3>1, <3>2
  <2>6. \A x \in Rows' : x \in Rows \/ JudgedRow(x)
    BY <1>0, <1>6, <2>3, <2>5, RowsNote DEF Settle
  <2>7. wire' = wire /\ \A d : Current(d)' = Current(d)
    BY <1>6 DEF Settle, Current
  <2> QED
    BY <2>2, <2>6, <2>7, CutoverFrom
<1>7. CASE Release(s)
  <2>1. \A x \in Under' : x \in Under \/ JudgedCall(x)
    BY <1>0, <1>7, UnderStep DEF Release, End
  <2>2. PICK r : r = [key |-> Key(s), run |-> call[s].run, state |-> "FAILED", detail |-> None]
    OBVIOUS
  <2>3. JudgedRow(r)
    BY <2>2 DEF JudgedRow, IsCutover
  <2>4. \A x \in Rows' : x \in Rows \/ JudgedRow(x)
    BY <1>0, <1>7, <2>2, <2>3, RowsNote DEF Release
  <2>5. wire' = wire /\ \A d : Current(d)' = Current(d)
    BY <1>7 DEF Release, Current
  <2> QED
    BY <2>1, <2>4, <2>5, CutoverFrom
<1> QED
  BY <1>1, <1>2, <1>3, <1>4, <1>5, <1>6, <1>7

(* The environment's handlers send no domain anywhere.                     *)
LEMMA CutoverEnvs ==
  ASSUME Typed, Handoff, Cutover, [Next]_vars, NEW s \in Slots,
         ReadEnvs(s) \/ SealEnvs(s) \/ SealedEnvs(s) \/ OpenBlob(s) \/ Load(s)
  PROVE  Cutover'
<1> USE DEF vault, history
<1>0. call \in [Slots -> Calls] /\ JudgedCall(Idle)
  BY JudgedCalls DEF Typed, Idle
<1>1. CASE ReadEnvs(s)
  <2>1. JudgedCall([at |-> "blob", step |-> "env", mandate |-> call[s].mandate,
                    project |-> call[s].project, version |-> vercel])
    BY JudgedCalls
  <2> QED
    BY <1>0, <1>1, <2>1, CutoverCall DEF ReadEnvs, End
<1>2. CASE SealEnvs(s)
  <2>1. call[s] \in BlobCall
    BY <1>0, <1>2, CallIn DEF SealEnvs, At
  <2>2. JudgedCall([call[s] EXCEPT !.at = "blobbing"])
    BY <2>1, JudgedCalls DEF BlobCall
  <2> QED
    BY <1>2, <2>2, CutoverCall DEF SealEnvs
<1>3. CASE SealedEnvs(s)
  BY <1>0, <1>3, CutoverCall DEF SealedEnvs, End
<1>4. CASE OpenBlob(s)
  <2>1. JudgedCall([at |-> "load", step |-> "env", mandate |-> call[s].mandate,
                    floor |-> call[s].floor, envs |-> blob[call[s].mandate]])
    BY JudgedCalls
  <2> QED
    BY <1>0, <1>4, <2>1, CutoverCall DEF OpenBlob, End
<1>5. CASE Load(s)
  BY <1>0, <1>5, CutoverCall DEF Load, End
<1> QED
  BY <1>1, <1>2, <1>3, <1>4, <1>5

(* A write is applied: what it says was judged, and the rest was there.    *)
LEMMA AppliedRecords ==
  ASSUME Typed, NEW w \in Write, Apply(w) \/ zone' = zone, JudgedWrite(w)
  PROVE  \A d \in Domains : \A r \in Current(d)' : r \in Current(d) \/ Judged(d, r.content)
<1>1. CASE zone' = zone
  BY <1>1 DEF Current
<1>2. CASE Apply(w)
  <2> SUFFICES ASSUME NEW d \in Domains, NEW r \in Current(d)', r \notin Current(d)
               PROVE  Judged(d, r.content)
    OBVIOUS
  <2>1. d = w.domain /\ w.content # None /\ r.content = w.content
    BY <1>2, ApplyRecords
  <2> QED
    BY <2>1 DEF JudgedWrite
<1> QED
  BY <1>1, <1>2

(* What a call asks of the DNS provider is judged when the call is.        *)
LEMMA JudgedWriteOf ==
  ASSUME Typed, Cutover, NEW s \in Slots, call[s].at \in {"write", "restore"}
  PROVE  WriteOf(s) \in Write /\ JudgedWrite(WriteOf(s))
<1>1. WriteOf(s) \in Write
  BY WriteOfType DEF Typed
<1>2. JudgedCall(call[s])
  BY DEF Cutover, Under
<1>3. JudgedWrite(WriteOf(s))
  BY <1>2 DEF JudgedCall, JudgedWrite, WriteOf
<1> QED
  BY <1>1, <1>3

(* Looking, writing, restoring and giving up move on what was judged.      *)
LEMMA CutoverDns ==
  ASSUME Typed, Handoff, Cutover, [Next]_vars, NEW s \in Slots,
         Look(s) \/ Written(s) \/ Restored(s) \/ GiveUp(s)
  PROVE  Cutover'
<1> USE DEF vault, history
<1> DEFINE c == call[s]
<1>0. call \in [Slots -> Calls] /\ JudgedCall(Idle) /\ JudgedCall(c)
  BY JudgedCalls DEF Typed, Cutover, Under, Idle
<1>1. ASSUME call[s].at \in {"look", "write"}
      PROVE  JudgedCall([c EXCEPT !.at = "release"])
  <2>1. c \in UpsertCall \cup WriteCall
    BY <1>0, <1>1, CallAt
  <2>2. PICK n : n = [c EXCEPT !.at = "release"]
    OBVIOUS
  <2>3. n.at = "release"
    BY <2>1, <2>2 DEF UpsertCall, WriteCall
  <2>4. JudgedCall(n)
    BY <2>3, JudgedCalls
  <2> QED
    BY <2>2, <2>4
<1>2. CASE Look(s)
  <2>1. c.at = "look" /\ c \in UpsertCall /\ file' = file /\ zone' = zone /\ wire' = wire
    BY <1>0, <1>2, CallAt DEF Look, At
  <2>2. ASSUME NEW seen \in IF Current(c.domain) = {} THEN {None} ELSE Current(c.domain), NEW n,
               n = [at |-> "write", mandate |-> call[s].mandate, step |-> "P8", run |-> call[s].run,
                    domain |-> c.domain, record |-> IF seen = None THEN 0 ELSE seen.id,
                    content |-> call[s].detail, seen |-> seen, from |-> Len(zone[c.domain])],
               Step(s, n)
        PROVE  Cutover'
    <3>1. Judged(c.domain, c.detail) /\ c.domain \in Domains
      BY <1>0, <2>1 DEF JudgedCall, UpsertCall
    <3>2. JudgedOrNone(c.domain, seen)
      BY <2>2, <3>1 DEF JudgedOrNone, Cutover
    <3>3. n.at = "write" /\ n.domain = c.domain /\ n.content = c.detail /\ n.seen = seen
      BY <2>2
    <3>4. JudgedCall(n)
      BY <3>1, <3>2, <3>3 DEF JudgedCall
    <3> QED
      BY <2>1, <2>2, <3>4, CutoverCall
  <2>3. CASE Step(s, [c EXCEPT !.at = "release"])
    BY <1>1, <2>1, <2>3, CutoverCall
  <2> QED
    BY <1>2, <2>2, <2>3 DEF Look
<1>3. CASE Written(s)
  <2>1. c.at = "write" /\ c \in WriteCall /\ file' = file /\ wire' = wire
    BY <1>0, <1>3, CallAt DEF Written, At
  <2>2. WriteOf(s) \in Write /\ JudgedWrite(WriteOf(s)) /\ (Apply(WriteOf(s)) \/ zone' = zone)
    BY <1>3, <2>1, JudgedWriteOf DEF Written
  <2>3. \A d \in Domains : \A r \in Current(d)' : r \in Current(d) \/ Judged(d, r.content)
    BY <2>2, AppliedRecords
  <2>4. \E n : Step(s, n) /\ JudgedCall(n)
    <3>1. PICK u : u = [record |-> IF call[s].record = 0 THEN nextId ELSE call[s].record,
                        domain |-> call[s].domain, previous |-> call[s].seen,
                        from |-> call[s].from, to |-> Len(zone[call[s].domain]) + 1]
      OBVIOUS
    <3>2. PICK n : n = [at |-> "settle", mandate |-> call[s].mandate, step |-> "P8", run |-> call[s].run, detail |-> u]
      OBVIOUS
    <3>3. n.at = "settle" /\ n.detail = u /\ u.domain = c.domain /\ u.previous = c.seen
      BY <3>1, <3>2
    <3>4. JudgedCall(n)
      BY <1>0, <2>1, <3>3 DEF JudgedCall
    <3>5. Step(s, n) \/ Step(s, [c EXCEPT !.at = "release"])
      BY <1>3, <3>1, <3>2 DEF Written
    <3> QED
      BY <1>1, <2>1, <3>4, <3>5
  <2>5. \A x \in Under' : x \in Under \/ JudgedCall(x)
    BY <1>0, <2>4, UnderStep
  <2>6. Rows' = Rows
    BY <2>1 DEF Rows
  <2> QED
    BY <2>1, <2>3, <2>5, <2>6, CutoverFrom
<1>4. CASE Restored(s)
  <2>1. file' = file /\ wire' = wire /\ Step(s, Idle) /\ c.at = "restore"
    BY <1>4 DEF Restored, End, At
  <2>2. WriteOf(s) \in Write /\ JudgedWrite(WriteOf(s)) /\ (Apply(WriteOf(s)) \/ zone' = zone)
    BY <1>4, <2>1, JudgedWriteOf DEF Restored
  <2>3. \A d \in Domains : \A r \in Current(d)' : r \in Current(d) \/ Judged(d, r.content)
    BY <2>2, AppliedRecords
  <2>4. \A x \in Under' : x \in Under \/ JudgedCall(x)
    BY <1>0, <2>1, UnderStep
  <2>5. Rows' = Rows
    BY <2>1 DEF Rows
  <2> QED
    BY <2>1, <2>3, <2>4, <2>5, CutoverFrom
<1>5. CASE GiveUp(s)
  <2>1. file' = file /\ zone' = zone /\ wire' = wire \cup {WriteOf(s)} /\ c.at \in {"write", "restore"}
    BY <1>5 DEF GiveUp
  <2>2. JudgedWrite(WriteOf(s))
    BY <2>1, JudgedWriteOf
  <2>3. \E n : Step(s, n) /\ JudgedCall(n)
    <3>1. Step(s, Idle) \/ (At(s, "write") /\ Step(s, [c EXCEPT !.at = "release"]))
      BY <1>5 DEF GiveUp, End
    <3>2. At(s, "write") => JudgedCall([c EXCEPT !.at = "release"])
      BY <1>1 DEF At
    <3> QED
      BY <1>0, <3>1, <3>2
  <2>4. \A x \in Under' : x \in Under \/ JudgedCall(x)
    BY <1>0, <2>3, UnderStep
  <2>5. Rows' = Rows /\ \A d : Current(d)' = Current(d)
    BY <2>1 DEF Rows, Current
  <2>6. \A w \in wire' : w \in wire \/ JudgedWrite(w)
    BY <2>1, <2>2
  <2> QED
    BY <2>4, <2>5, <2>6, CutoverFrom
<1> QED
  BY <1>2, <1>3, <1>4, <1>5

(* Every step keeps all that is written, recorded and put back judged.     *)
LEMMA CutoverStep ==
  ASSUME Typed, Handoff, Cutover, [Next]_vars
  PROVE  Cutover'
<1> USE DEF vars, vault, clock, history
<1>0. /\ (file' = file => Rows' = Rows) /\ (call' = call => Under' = Under)
      /\ (zone' = zone => \A d : Current(d)' = Current(d))
  BY DEF Rows, Under, Current
<1>1. CASE UNCHANGED vars
  BY <1>0, <1>1, CutoverFrom
<1>2. ASSUME NEW s \in Slots, Handler(s)
      PROVE  Cutover'
  BY <1>2, CutoverOnce, CutoverEnvs, CutoverDns DEF Handler
<1>3. ASSUME NEW s \in Slots, NEW t \in Tokens, Operator(s, t) \/ Agent(s, t)
      PROVE  Cutover'
  BY <1>3, CutoverRequest
<1>4. ASSUME NEW w \in wire, Late(w)
      PROVE  Cutover'
  <2>1. w \in Write /\ JudgedWrite(w) /\ (Apply(w) \/ zone' = zone)
    BY <1>4 DEF Late, Typed, Cutover
  <2>2. \A d \in Domains : \A r \in Current(d)' : r \in Current(d) \/ Judged(d, r.content)
    BY <2>1, AppliedRecords
  <2>3. file' = file /\ call' = call /\ wire' \subseteq wire
    BY <1>4 DEF Late
  <2> QED
    BY <1>0, <2>2, <2>3, CutoverFrom
<1>5. ASSUME NEW m, BlobExpires(m) \/ Expire(m) \/ Close(m) \/ VercelEdited
      PROVE  Cutover'
  <2>1. file' = file /\ call' = call /\ wire' = wire /\ zone' = zone
    BY <1>5 DEF BlobExpires, Expire, Close, VercelEdited
  <2> QED
    BY <1>0, <2>1, CutoverFrom
<1>6. CASE GatewayDies
  <2>1. /\ file' = file /\ zone' = zone /\ call' = [s \in Slots |-> Idle]
        /\ wire' = wire \cup {WriteOf(s) : s \in {x \in Slots : call[x].at \in {"write", "restore"}}}
    BY <1>6 DEF GatewayDies
  <2>2. \A x \in Under' : JudgedCall(x)
    BY <2>1, JudgedCalls DEF Under, Idle
  <2>3. \A w \in wire' : w \in wire \/ JudgedWrite(w)
    BY <2>1, JudgedWriteOf
  <2> QED
    BY <1>0, <2>1, <2>2, <2>3, CutoverFrom
<1> QED
  BY <1>1, <1>2, <1>3, <1>4, <1>5, <1>6 DEF Next, Environment

(* Where a domain may point, with what it rests on.                        *)
LEMMA CutoverInvariant == Spec => [](Typed /\ Handoff /\ Cutover)
<1>1. Init => Handoff /\ Cutover
  <2> SUFFICES ASSUME Init PROVE Handoff /\ Cutover
    OBVIOUS
  <2>1. Handoff
    BY DEF Init, Handoff, Alone, Undisturbed, Operating, At, Idle
  <2>2. \A c \in Under : JudgedCall(c)
    BY JudgedCalls DEF Init, Under, Idle
  <2>3. \A d \in Domains : \A r \in Current(d) : r.content = Old
    <3>1. PICK first \in {{}, {[id |-> 1, content |-> Old]}} : zone = [d \in Domains |-> <<first>>]
      BY DEF Init
    <3> QED
      BY <3>1 DEF Current, Last
  <2>4. \A r \in Rows : JudgedRow(r)
    <3>1. PICK run \in Runs :
            file = [i \in DOMAIN SetToSeq(DOMAIN Bought) |->
                     [key |-> <<SetToSeq(DOMAIN Bought)[i], "P2">>, run |-> run, state |-> "COMMITTED",
                      detail |-> Bought[SetToSeq(DOMAIN Bought)[i]]]]
      BY DEF Init
    <3> QED
      BY <3>1 DEF Rows, JudgedRow, IsCutover
  <2> QED
    BY <2>1, <2>2, <2>3, <2>4 DEF Init, Cutover, Judged
<1>2. Typed /\ Handoff /\ Cutover /\ [Next]_vars => (Typed /\ Handoff /\ Cutover)'
  BY TypedStep, HandoffStep, CutoverStep
<1> QED
  BY <1>1, <1>2, InitTyped, PTL DEF Spec

(* Whatever verdicts and tokens callers hold and however writes are        *)
(* retried, rolled back or late, a domain points where it did or at the    *)
(* server of one of its own mandates that the Auditor has passed for that  *)
(* mandate.                                                                *)
THEOREM CutoverIsJudgedHolds == Spec => []CutoverIsJudged
<1>1. Cutover => CutoverIsJudged
  BY DEF Cutover, CutoverIsJudged, Judged
<1> QED
  BY <1>1, CutoverInvariant, PTL

-----------------------------------------------------------------------------
(* A rollback puts back what the upsert had read.                          *)

(* Replacing a record and putting it back is to have done nothing.         *)
LEMMA PutBack ==
  ASSUME NEW set \in SUBSET ARecord, NEW next \in Nat, Named(set, next), NEW content, content # None,
         NEW record, NEW seen, Saw(set, record, seen), NEW id, id = IF record = 0 THEN next ELSE record
  PROVE  Put(Put(set, id, content), id, IF seen = None THEN None ELSE seen.content) = set
<1>1. CASE seen = None
  <2>1. set = {}
    BY <1>1 DEF Saw
  <2>2. PICK made : made = [id |-> id, content |-> content]
    OBVIOUS
  <2>3. made.id = id
    BY <2>2
  <2>4. Put(set, id, content) = {made}
    BY <2>1, <2>2 DEF Put
  <2> QED
    BY <1>1, <2>1, <2>3, <2>4 DEF Put
<1>2. CASE seen # None
  <2>1. seen \in set /\ record = seen.id /\ seen.id \in 1..(next - 1)
    BY <1>2 DEF Saw, Named
  <2>2. id = seen.id
    BY <2>1
  <2>3. seen = [id |-> id, content |-> seen.content] /\ seen.content # None
    <3>1. seen \in ARecord /\ None \notin Homes
      BY <2>1, GatewayToolsAssumption
    <3> QED
      BY <2>2, <3>1 DEF ARecord
  <2>4. \A x \in set : x.id = id => x = seen
    BY <2>1, <2>2 DEF Named
  <2>5. PICK made : made = [id |-> id, content |-> content]
    OBVIOUS
  <2> DEFINE rest == {x \in set : x.id # id}
  <2>6. Put(set, id, content) = rest \cup {made}
    BY <2>5 DEF Put
  <2>7. {x \in rest \cup {made} : x.id # id} = rest
    <3>1. made.id = id
      BY <2>5
    <3> QED
      BY <3>1
  <2>8. Put(rest \cup {made}, id, seen.content) = rest \cup {seen}
    BY <2>3, <2>7 DEF Put
  <2>9. rest \cup {seen} = set
    BY <2>1, <2>2, <2>4
  <2> QED
    BY <1>2, <2>6, <2>8, <2>9
<1> QED
  BY <1>1, <1>2

(* What a write does to its domain; the others are left alone.             *)
LEMMA ApplyPuts ==
  ASSUME Typed, NEW w \in Write, Apply(w), Named(Current(w.domain), nextId)
  PROVE  /\ zone'[w.domain] = Append(zone[w.domain],
                                     Put(Current(w.domain), IF w.record = 0 THEN nextId ELSE w.record, w.content))
         /\ \A d \in Domains : d # w.domain => zone'[d] = zone[d]
         /\ nextId' = IF w.record = 0 THEN nextId + 1 ELSE nextId
<1> DEFINE id == IF w.record = 0 THEN nextId ELSE w.record
           rest == {r \in Current(w.domain) : r.id # w.record}
           made == IF w.content = None THEN {} ELSE {[id |-> id, content |-> w.content]}
<1>1. w.domain \in Domains /\ zone \in [Domains -> Seq(SUBSET ARecord)] /\ nextId \in Nat
  BY DEF Write, Typed
<1>2. zone' = [zone EXCEPT ![w.domain] = Append(@, rest \cup made)]
  BY DEF Apply
<1>3. rest = {r \in Current(w.domain) : r.id # id}
  <2>1. \A r \in Current(w.domain) : r.id # 0 /\ r.id # nextId
    BY <1>1 DEF Named
  <2>2. CASE w.record = 0
    BY <2>1, <2>2
  <2>3. CASE w.record # 0
    BY <2>3
  <2> QED
    BY <2>2, <2>3
<1>4. rest \cup made = Put(Current(w.domain), id, w.content)
  BY <1>3 DEF Put
<1> HIDE DEF rest, made
<1>5. zone'[w.domain] = Append(zone[w.domain], rest \cup made) /\ \A d \in Domains : d # w.domain => zone'[d] = zone[d]
  BY <1>1, <1>2
<1> QED
  BY <1>4, <1>5 DEF Apply

(* The records of a domain are a history: a write adds to it.              *)
HistoryKept ==
  \A d \in Domains :
    /\ Len(zone[d]) \in Nat /\ Len(zone[d]) <= Len(zone'[d]) /\ Len(zone'[d]) \in Nat
    /\ \A i \in 1..Len(zone[d]) : zone'[d][i] = zone[d][i]

AllNamed == \A d \in Domains : \A i \in 1..Len(zone[d]) : Named(zone[d][i], nextId)

(* The records a domain has now are the last set of its history.           *)
LEMMA CurrentNamed ==
  ASSUME Typed, AllNamed, NEW d \in Domains
  PROVE  /\ Len(zone[d]) \in Nat \ {0} /\ Current(d) = zone[d][Len(zone[d])]
         /\ Current(d) \in SUBSET ARecord /\ Named(Current(d), nextId)
<1>1. PICK q \in Seq(SUBSET ARecord) : q = zone[d] /\ q # <<>>
  BY DEF Typed
<1>2. Len(q) \in Nat \ {0} /\ q[Len(q)] \in SUBSET ARecord
  BY <1>1
<1>3. Len(q) \in 1..Len(q)
  BY <1>2
<1> QED
  BY <1>1, <1>2, <1>3 DEF Current, Last, AllNamed

(* A write keeps the names of the records apart.                           *)
LEMMA NamedPut ==
  ASSUME NEW set \in SUBSET ARecord, NEW next \in Nat \ {0}, Named(set, next), NEW content,
         NEW w \in Nat, w = 0 \/ \E r \in set : r.id = w
  PROVE  Named(Put(set, IF w = 0 THEN next ELSE w, content), IF w = 0 THEN next + 1 ELSE next)
<1> DEFINE id == IF w = 0 THEN next ELSE w
           then == IF w = 0 THEN next + 1 ELSE next
<1>1. PICK made : made = [id |-> id, content |-> content]
  OBVIOUS
<1>2. made.id = id
  BY <1>1
<1>3. id \in 1..(then - 1) /\ \A r \in set : r.id \in 1..(then - 1)
  BY DEF Named
<1> HIDE DEF id, then
<1>4. Put(set, id, content) \subseteq {x \in set : x.id # id} \cup {made}
  BY <1>1 DEF Put
<1>5. \A q, r \in {x \in set : x.id # id} \cup {made} : q.id = r.id => q = r
  BY <1>2 DEF Named
<1>6. \A r \in {x \in set : x.id # id} \cup {made} : r.id \in 1..(then - 1)
  BY <1>2, <1>3
<1>7. Named(Put(set, id, content), then)
  BY <1>4, <1>5, <1>6 DEF Named
<1> QED
  BY <1>7 DEF id, then

(* A write keeps the history and names its record.                         *)
LEMMA WriteKeeps ==
  ASSUME Typed, AllNamed, nextId > 0, NEW w \in Write, Applies(w), Apply(w)
  PROVE  HistoryKept /\ AllNamed' /\ nextId' > 0 /\ nextId' >= nextId
<1> DEFINE d == w.domain
           new == Put(Current(d), IF w.record = 0 THEN nextId ELSE w.record, w.content)
<1>1. d \in Domains /\ w.record \in Nat /\ nextId \in Nat /\ zone \in [Domains -> Seq(SUBSET ARecord)]
  BY DEF Write, Typed
<1>2. /\ Len(zone[d]) \in Nat \ {0} /\ Current(d) \in SUBSET ARecord /\ Named(Current(d), nextId)
  BY <1>1, CurrentNamed
<1>3. /\ zone'[d] = Append(zone[d], new) /\ \A x \in Domains : x # d => zone'[x] = zone[x]
      /\ nextId' = IF w.record = 0 THEN nextId + 1 ELSE nextId
  BY <1>2, ApplyPuts
<1>4. Named(new, nextId')
  <2>1. w.record = 0 \/ \E r \in Current(d) : r.id = w.record
    BY DEF Applies
  <2>2. nextId \in Nat \ {0}
    BY <1>1
  <2>3. Named(new, IF w.record = 0 THEN nextId + 1 ELSE nextId)
    BY <1>1, <1>2, <2>1, <2>2, NamedPut
  <2> QED
    BY <1>3, <2>3
<1> HIDE DEF d, new
<1>5. /\ Len(zone'[d]) = Len(zone[d]) + 1 /\ zone'[d][Len(zone[d]) + 1] = new
      /\ \A i \in 1..Len(zone[d]) : zone'[d][i] = zone[d][i]
  <2>1. PICK q \in Seq(SUBSET ARecord) : q = zone[d]
    BY <1>1
  <2>2. /\ Len(Append(q, new)) = Len(q) + 1 /\ Append(q, new)[Len(q) + 1] = new
        /\ \A i \in 1..Len(q) : Append(q, new)[i] = q[i]
    OBVIOUS
  <2> QED
    BY <1>3, <2>1, <2>2
<1>6. HistoryKept
  <2>1. Len(zone[d]) \in Nat
    BY <1>2
  <2>2. /\ Len(zone'[d]) >= Len(zone[d])
        /\ \A i \in 1..Len(zone[d]) : zone'[d][i] = zone[d][i]
    BY <1>5, <2>1
  <2>3. ASSUME NEW x \in Domains, x # d
        PROVE  /\ Len(zone'[x]) >= Len(zone[x])
               /\ \A i \in 1..Len(zone[x]) : zone'[x][i] = zone[x][i]
    <3>1. zone'[x] = zone[x] /\ Len(zone[x]) \in Nat
      BY <1>1, <1>3, <2>3
    <3> QED
      BY <3>1
  <2> QED
    BY <2>2, <2>3 DEF HistoryKept
<1>7. nextId' \in Nat /\ nextId' >= nextId /\ nextId' > 0
  BY <1>1, <1>3
<1>8. \A set : Named(set, nextId) => Named(set, nextId')
  BY <1>1, <1>7 DEF Named
<1>9. ASSUME NEW x \in Domains, NEW i \in 1..Len(zone'[x])
      PROVE  Named(zone'[x][i], nextId')
  <2>1. CASE x = d
    <3>1. i \in 1..Len(zone[d]) \/ i = Len(zone[d]) + 1
      BY <1>2, <1>5, <1>9, <2>1
    <3>2. i \in 1..Len(zone[d]) => Named(zone[d][i], nextId)
      BY <1>1 DEF AllNamed
    <3> QED
      BY <1>4, <1>5, <1>8, <2>1, <3>1, <3>2
  <2>2. CASE x # d
    BY <1>3, <1>8, <1>9, <2>2 DEF AllNamed
  <2> QED
    BY <2>1, <2>2
<1> QED
  BY <1>6, <1>7, <1>9 DEF AllNamed

(* Every step keeps it.                                                    *)
LEMMA QuietKeeps ==
  ASSUME Typed, AllNamed, nextId > 0, zone' = zone, nextId' \in Nat, nextId' >= nextId
  PROVE  HistoryKept /\ AllNamed' /\ nextId' > 0
<1>1. nextId \in Nat /\ \A d \in Domains : Len(zone[d]) \in Nat
  BY DEF Typed
<1>2. \A set : Named(set, nextId) => Named(set, nextId')
  BY <1>1 DEF Named
<1>3. AllNamed'
  BY <1>2 DEF AllNamed
<1> QED
  BY <1>1, <1>3 DEF HistoryKept

(* A step adds at most one set to the history of a domain, at its end, and *)
(* keeps the names apart.                                                  *)
LEMMA ZoneStep ==
  ASSUME Typed, Typed', AllNamed, nextId > 0, [Next]_vars
  PROVE  HistoryKept /\ AllNamed' /\ nextId' > 0
<1> USE DEF vars, vault, clock, history
<1> DEFINE Goal == HistoryKept /\ AllNamed' /\ nextId' > 0
<1>0. nextId \in Nat /\ nextId' \in Nat
  BY DEF Typed
<1>1. zone' = zone /\ nextId' \in {nextId, nextId + 1} => Goal
  BY <1>0, QuietKeeps
<1>2. \A w \in Write : Applies(w) /\ Apply(w) => Goal
  BY WriteKeeps
<1> HIDE DEF Goal
<1>3. ASSUME NEW s \in Slots, Handler(s)
      PROVE  Goal
  <2>1. CASE CoolifySecrets(s) \/ SealSecret(s) \/ PriorAddress(s)
    BY <1>1, <2>1 DEF CoolifySecrets, SealSecret, PriorAddress
  <2>2. CASE Claim(s) \/ Intend(s) \/ Settle(s) \/ Release(s)
    BY <1>1, <2>2 DEF Claim, Intend, Settle, Release
  <2>3. CASE ReadEnvs(s) \/ SealEnvs(s) \/ SealedEnvs(s) \/ OpenBlob(s) \/ Load(s)
    BY <1>1, <2>3 DEF ReadEnvs, SealEnvs, SealedEnvs, OpenBlob, Load
  <2>4. CASE Look(s) \/ GiveUp(s)
    BY <1>1, <2>4 DEF Look, GiveUp
  <2>5. CASE Written(s) \/ Restored(s)
    <3>1. WriteOf(s) \in Write
      BY <2>5, WriteOfType DEF Written, Restored, At, Typed
    <3> QED
      BY <1>1, <1>2, <2>5, <3>1 DEF Written, Restored
  <2> QED
    BY <1>3, <2>1, <2>2, <2>3, <2>4, <2>5 DEF Handler
<1>4. ASSUME NEW s \in Slots, NEW t \in Tokens, Operator(s, t) \/ Agent(s, t)
      PROVE  Goal
  BY <1>1, <1>4 DEF Operator, Agent, Prepare, Register, Export, BulkUpdate, Rollback, Upsert
<1>5. ASSUME NEW w \in wire, Late(w)
      PROVE  Goal
  BY <1>1, <1>2, <1>5 DEF Late, Typed
<1>6. ASSUME Environment
      PROVE  Goal
  <2>1. ASSUME NEW m, BlobExpires(m) \/ Expire(m) \/ Close(m)
        PROVE  Goal
    BY <1>1, <2>1 DEF BlobExpires, Expire, Close
  <2>2. VercelEdited \/ GatewayDies => Goal
    BY <1>1 DEF VercelEdited, GatewayDies
  <2> QED
    BY <1>5, <1>6, <2>1, <2>2 DEF Environment
<1>7. UNCHANGED vars => Goal
  BY <1>1
<1>8. Goal
  BY <1>3, <1>4, <1>6, <1>7 DEF Next
<1> QED
  BY <1>8 DEF Goal

(* What undoes a write, or was seen, stays so while the history grows.     *)
LEMMA UndoesStays ==
  ASSUME HistoryKept, NEW d \in Domains, NEW from, NEW to, NEW record, NEW content,
         Undoes(d, from, to, record, content)
  PROVE  Undoes(d, from, to, record, content)'
BY DEF HistoryKept, Undoes

(* What a rollback goes by stays true as histories only grow.              *)
LEMMA RollbacksStay ==
  ASSUME HistoryKept
  PROVE  /\ \A u \in Undo : UndoesRow(u) => UndoesRow(u)'
         /\ \A r \in Row : RollbackRow(r) => RollbackRow(r)'
         /\ \A c \in Calls : RollbackCall(c) => RollbackCall(c)'
<1>1. ASSUME NEW u \in Undo, UndoesRow(u)
      PROVE  UndoesRow(u)'
  <2>1. PICK d \in Domains : d = u.domain
    BY DEF Undo
  <2>2. PICK content : content = IF u.previous = None THEN None ELSE u.previous.content
    OBVIOUS
  <2>3. Undoes(d, u.from, u.to, u.record, content)
    BY <1>1, <2>1, <2>2 DEF UndoesRow
  <2>4. Undoes(d, u.from, u.to, u.record, content)'
    BY <2>3, UndoesStays
  <2> QED
    BY <2>1, <2>2, <2>4 DEF UndoesRow
<1>2. ASSUME NEW r \in Row, RollbackRow(r)
      PROVE  RollbackRow(r)'
  <2>1. IsCutover(r) => r.detail \in Undo
    BY DEF IsCutover, Row
  <2> QED
    BY <1>1, <1>2, <2>1 DEF RollbackRow, IsCutover
<1>3. ASSUME NEW c \in Calls, RollbackCall(c)
      PROVE  RollbackCall(c)'
  <2>1. ASSUME c.at = "write"
        PROVE  /\ c.from \in 1..Len(zone'[c.domain])
               /\ Saw(zone'[c.domain][c.from], c.record, c.seen)
    <3>1. c.domain \in Domains
      BY <2>1, KindOf DEF WriteCall
    <3>2. c.from \in 1..Len(zone[c.domain]) /\ Saw(zone[c.domain][c.from], c.record, c.seen)
      BY <1>3, <2>1 DEF RollbackCall
    <3> QED
      BY <3>1, <3>2 DEF HistoryKept
  <2>2. ASSUME c.at = "settle", c.step = "P8"
        PROVE  UndoesRow(c.detail)'
    <3>1. PICK u : u = c.detail
      OBVIOUS
    <3>2. u \in Undo
      BY <2>2, <3>1, KindOf DEF RegisterCall, SettleCall
    <3>3. UndoesRow(u)
      BY <1>3, <2>2, <3>1 DEF RollbackCall
    <3> QED
      BY <1>1, <3>1, <3>2, <3>3
  <2>3. ASSUME c.at = "restore"
        PROVE  Undoes(c.domain, c.from, c.to, c.record, c.content)'
    <3>1. PICK d : d = c.domain
      OBVIOUS
    <3>2. d \in Domains
      BY <2>3, <3>1, KindOf DEF RestoreCall
    <3>3. Undoes(d, c.from, c.to, c.record, c.content)
      BY <1>3, <2>3, <3>1 DEF RollbackCall
    <3>4. Undoes(d, c.from, c.to, c.record, c.content)'
      BY <3>2, <3>3, UndoesStays
    <3> QED
      BY <3>1, <3>4
  <2> QED
    BY <2>1, <2>2, <2>3 DEF RollbackCall
<1> QED
  BY <1>1, <1>2, <1>3

Undone ==
  undone # None => /\ undone.domain \in Domains /\ undone.at \in 1..Len(zone[undone.domain])
                   /\ undone.from \in 1..Len(zone[undone.domain])

(* A step is sound when everything new in it can be undone.                *)
LEMMA RollbackFrom ==
  ASSUME Typed, Typed', Rollbacks, RollbackRestores, [Next]_vars,
         \A c \in Under' : c \in Under \/ RollbackCall(c) \/ RollbackCall(c)',
         \A r \in Rows' : r \in Rows \/ RollbackRow(r),
         undone' = undone \/ (Undone' /\ RollbackRestores')
  PROVE  Rollbacks' /\ RollbackRestores'
<1>1. HistoryKept /\ AllNamed' /\ nextId' > 0
  BY ZoneStep DEF Rollbacks, AllNamed
<1>2. ASSUME NEW c \in Under' PROVE RollbackCall(c)'
  <2>1. c \in Calls
    BY DEF Under, Typed
  <2> QED
    BY <1>1, <1>2, <2>1, RollbacksStay DEF Rollbacks
<1>3. ASSUME NEW r \in Rows' PROVE RollbackRow(r)'
  <2>1. r \in Row
    BY DEF Rows, Typed
  <2> QED
    BY <1>1, <1>3, <2>1, RollbacksStay DEF Rollbacks
<1>4. undone' = undone => Undone' /\ RollbackRestores'
  <2> SUFFICES ASSUME undone' = undone, undone # None PROVE Undone' /\ RollbackRestores'
    BY DEF Undone, RollbackRestores
  <2>1. Undone
    BY DEF Rollbacks, Undone
  <2>2. PICK u : u = undone
    OBVIOUS
  <2>3. /\ u.domain \in Domains /\ u.at \in 1..Len(zone[u.domain])
        /\ u.from \in 1..Len(zone[u.domain])
    BY <2>1, <2>2 DEF Undone
  <2>4. /\ u.at \in 1..Len(zone'[u.domain]) /\ u.from \in 1..Len(zone'[u.domain])
        /\ zone'[u.domain][u.at] = zone[u.domain][u.at] /\ zone'[u.domain][u.from] = zone[u.domain][u.from]
    BY <1>1, <2>3 DEF HistoryKept
  <2> QED
    BY <2>2, <2>3, <2>4 DEF Undone, RollbackRestores
<1> QED
  BY <1>1, <1>2, <1>3, <1>4 DEF Rollbacks, AllNamed, Undone

(* Most calls know nothing of a record.                                    *)
LEMMA RollbackCalls ==
  /\ \A c : c.at \notin {"write", "restore", "settle"} => RollbackCall(c)
  /\ \A c : c.at = "settle" /\ c.step = "P2" => RollbackCall(c)
BY DEF RollbackCall

(* A step of one call that records nothing and undoes nothing.             *)
LEMMA RollbackByCall ==
  ASSUME Typed, Typed', Rollbacks, RollbackRestores, [Next]_vars, NEW s \in Slots, NEW c,
         Step(s, c) \/ Begin(s, c), RollbackCall(c), file' = file, undone' = undone
  PROVE  Rollbacks' /\ RollbackRestores'
<1>1. \A x \in Under' : x \in Under \/ RollbackCall(x)
  BY UnderStep DEF Typed
<1>2. Rows' = Rows
  BY DEF Rows
<1> QED
  BY <1>1, <1>2, RollbackFrom

(* A new call knows what it is to put back from a row on file.             *)
LEMMA RollbackRequest ==
  ASSUME Typed, Typed', Rollbacks, RollbackRestores, [Next]_vars, NEW s \in Slots, NEW t \in Tokens,
         Operator(s, t) \/ Agent(s, t)
  PROVE  Rollbacks' /\ RollbackRestores'
<1> USE DEF vault, history
<1>1. CASE Rollback(s, t)
  <2>1. PICK p \in Committed(file, <<t.mandate.id, "P8">>) :
          Begin(s, [at |-> "restore", domain |-> p.detail.domain, record |-> p.detail.record,
                    content |-> IF p.detail.previous = None THEN None ELSE p.detail.previous.content,
                    step |-> "rollback", from |-> p.detail.from, to |-> p.detail.to])
    BY <1>1 DEF Rollback
  <2>2. p \in Rows /\ IsCutover(p)
    <3>1. file \in Seq(Row)
      BY DEF Typed
    <3>2. PICK j \in DOMAIN file : p = file[j] /\ file[j].key[2] = "P8" /\ file[j].state = "COMMITTED"
      BY <3>1, CommittedRow
    <3> QED
      BY <3>2 DEF Rows, IsCutover
  <2>3. UndoesRow(p.detail)
    BY <2>2 DEF Rollbacks, RollbackRow
  <2>4. PICK c : c = [at |-> "restore", domain |-> p.detail.domain, record |-> p.detail.record,
                      content |-> IF p.detail.previous = None THEN None ELSE p.detail.previous.content,
                      step |-> "rollback", from |-> p.detail.from, to |-> p.detail.to]
    OBVIOUS
  <2>5. /\ c.at = "restore" /\ c.domain = p.detail.domain /\ c.record = p.detail.record
        /\ c.content = IF p.detail.previous = None THEN None ELSE p.detail.previous.content
        /\ c.from = p.detail.from /\ c.to = p.detail.to
    BY <2>4
  <2>6. RollbackCall(c)
    BY <2>3, <2>5 DEF RollbackCall, UndoesRow
  <2> QED
    BY <1>1, <2>1, <2>4, <2>6, RollbackByCall DEF Rollback
<1>2. CASE Prepare(s, t)
  <2>1. RollbackCall([at |-> "secrets", step |-> "P2", mandate |-> t.mandate.id])
    BY RollbackCalls
  <2> QED
    BY <1>2, <2>1, RollbackByCall DEF Prepare
<1>3. ASSUME NEW r \in Runs, NEW ip \in Addresses, Register(s, t, r, ip)
      PROVE  Rollbacks' /\ RollbackRestores'
  <2>1. RollbackCall([at |-> "prior", mandate |-> t.mandate.id, step |-> "P2", run |-> r, detail |-> ip])
    BY RollbackCalls
  <2> QED
    BY <1>3, <2>1, RollbackByCall DEF Register
<1>4. ASSUME NEW p \in Projects, Export(s, t, p)
      PROVE  Rollbacks' /\ RollbackRestores'
  <2>1. RollbackCall([at |-> "read", step |-> "env", mandate |-> t.mandate.id, project |-> p])
    BY RollbackCalls
  <2> QED
    BY <1>4, <2>1, RollbackByCall DEF Export
<1>5. CASE BulkUpdate(s, t)
  <2>1. RollbackCall([at |-> "open", step |-> "env", mandate |-> t.mandate.id, floor |-> exported[t.mandate.id]])
    BY RollbackCalls
  <2> QED
    BY <1>5, <2>1, RollbackByCall DEF BulkUpdate
<1>6. ASSUME NEW r \in Runs, NEW d \in Domains, NEW v \in Verdicts, Upsert(s, t, r, d, v)
      PROVE  Rollbacks' /\ RollbackRestores'
  <2>1. PICK p : Begin(s, [at |-> "claim", mandate |-> t.mandate.id, step |-> "P8", run |-> r,
                           domain |-> d, detail |-> p.detail])
    BY <1>6 DEF Upsert
  <2>2. RollbackCall([at |-> "claim", mandate |-> t.mandate.id, step |-> "P8", run |-> r,
                      domain |-> d, detail |-> p.detail])
    BY RollbackCalls
  <2> QED
    BY <1>6, <2>1, <2>2, RollbackByCall DEF Upsert
<1> QED
  BY <1>1, <1>2, <1>3, <1>4, <1>5, <1>6 DEF Operator, Agent

(* A call that goes on at another place is there.                          *)
LEMMA Relabelled ==
  ASSUME NEW c \in Calls, NEW l
  PROVE  [c EXCEPT !.at = l].at = l
BY DEF Calls, Idle, PrepareCall, RegisterCall, UpsertCall, WriteCall, SettleCall,
       RestoreCall, ReadCall, BlobCall, OpenCall, LoadCall

(* Handlers that neither write to a domain nor record a write.             *)
LEMMA RollbackQuiet ==
  ASSUME Typed, Typed', Rollbacks, RollbackRestores, [Next]_vars, NEW s \in Slots,
         \/ CoolifySecrets(s) \/ SealSecret(s) \/ PriorAddress(s) \/ Claim(s)
         \/ ReadEnvs(s) \/ SealEnvs(s) \/ SealedEnvs(s) \/ OpenBlob(s) \/ Load(s) \/ GiveUp(s)
  PROVE  Rollbacks' /\ RollbackRestores'
<1> USE DEF vault, history
<1>1. RollbackCall(Idle)
  BY RollbackCalls DEF Idle
<1>2. \A l \in {"sealing", "claim", "intend", "blobbing", "release"} : RollbackCall([call[s] EXCEPT !.at = l])
  <2> SUFFICES ASSUME NEW l \in {"sealing", "claim", "intend", "blobbing", "release"}
               PROVE  RollbackCall([call[s] EXCEPT !.at = l])
    OBVIOUS
  <2>1. [call[s] EXCEPT !.at = l].at = l
    BY Relabelled DEF Typed
  <2> QED
    BY <2>1, RollbackCalls
<1>3. RollbackCall([at |-> "blob", step |-> "env", mandate |-> call[s].mandate,
                    project |-> call[s].project, version |-> vercel])
  BY RollbackCalls
<1>4. RollbackCall([at |-> "load", step |-> "env", mandate |-> call[s].mandate,
                    floor |-> call[s].floor, envs |-> blob[call[s].mandate]])
  BY RollbackCalls
<1>5. file' = file /\ undone' = undone
  BY DEF CoolifySecrets, SealSecret, PriorAddress, Claim, ReadEnvs, SealEnvs, SealedEnvs, OpenBlob, Load, GiveUp
<1>6. \E n : Step(s, n) /\ RollbackCall(n)
  <2>1. CASE CoolifySecrets(s) \/ SealSecret(s) \/ PriorAddress(s) \/ Claim(s)
    BY <1>1, <1>2, <2>1 DEF CoolifySecrets, SealSecret, PriorAddress, Claim, End
  <2>2. CASE ReadEnvs(s) \/ SealEnvs(s) \/ SealedEnvs(s) \/ OpenBlob(s) \/ Load(s)
    BY <1>1, <1>2, <1>3, <1>4, <2>2 DEF ReadEnvs, SealEnvs, SealedEnvs, OpenBlob, Load, End
  <2>3. CASE GiveUp(s)
    BY <1>1, <1>2, <2>3 DEF GiveUp, End
  <2> QED
    BY <2>1, <2>2, <2>3
<1> QED
  BY <1>5, <1>6, RollbackByCall

(* Handlers that note a row.                                               *)
LEMMA RollbackNote ==
  ASSUME Typed, Typed', Rollbacks, RollbackRestores, [Next]_vars, NEW s \in Slots,
         Intend(s) \/ Settle(s) \/ Release(s)
  PROVE  Rollbacks' /\ RollbackRestores'
<1> USE DEF vault, history
<1> DEFINE c == call[s]
<1>0. /\ call \in [Slots -> Calls] /\ file \in Seq(Row) /\ RollbackCall(Idle) /\ RollbackCall(c)
      /\ undone' = undone
  BY RollbackCalls DEF Typed, Rollbacks, Under, Idle, Intend, Settle, Release
<1>1. CASE Intend(s)
  <2>1. c \in RegisterCall \cup UpsertCall
    BY <1>0, <1>1, CallAt DEF Intend, At
  <2>2. PICK n : n = [c EXCEPT !.at = IF c.step = "P2" THEN "settle" ELSE "look"]
    OBVIOUS
  <2>3. n.at = "look" \/ (n.at = "settle" /\ n.step = "P2")
    BY <2>1, <2>2 DEF RegisterCall, UpsertCall
  <2>4. \A x \in Under' : x \in Under \/ RollbackCall(x)
    BY <1>0, <1>1, <2>2, <2>3, RollbackCalls, UnderStep DEF Intend
  <2>5. PICK r : r = [key |-> Key(s), run |-> call[s].run, state |-> "INTENT", detail |-> None]
    OBVIOUS
  <2>6. RollbackRow(r)
    BY <2>5 DEF RollbackRow, IsCutover
  <2>7. \A x \in Rows' : x \in Rows \/ RollbackRow(x)
    BY <1>0, <1>1, <2>5, <2>6, RowsNote DEF Intend
  <2> QED
    BY <1>0, <2>4, <2>7, RollbackFrom
<1>2. CASE Settle(s)
  <2>1. c \in RegisterCall \cup SettleCall /\ c.at = "settle"
    BY <1>0, <1>2, CallAt DEF Settle, At
  <2>2. \A x \in Under' : x \in Under \/ RollbackCall(x)
    BY <1>0, <1>2, UnderStep DEF Settle, End
  <2>3. PICK r : r = [key |-> Key(s), run |-> call[s].run, state |-> "COMMITTED", detail |-> call[s].detail]
    OBVIOUS
  <2>4. r.key[2] = c.step /\ r.detail = c.detail
    BY <2>3 DEF Key
  <2>5. RollbackRow(r)
    <3>1. CASE c \in RegisterCall
      BY <2>4, <3>1 DEF RollbackRow, IsCutover, RegisterCall
    <3>2. CASE c \in SettleCall
      BY <1>0, <2>1, <2>4, <3>2 DEF RollbackRow, RollbackCall, SettleCall
    <3> QED
      BY <2>1, <3>1, <3>2
  <2>6. \A x \in Rows' : x \in Rows \/ RollbackRow(x)
    BY <1>0, <1>2, <2>3, <2>5, RowsNote DEF Settle
  <2> QED
    BY <1>0, <2>2, <2>6, RollbackFrom
<1>3. CASE Release(s)
  <2>1. \A x \in Under' : x \in Under \/ RollbackCall(x)
    BY <1>0, <1>3, UnderStep DEF Release, End
  <2>2. PICK r : r = [key |-> Key(s), run |-> call[s].run, state |-> "FAILED", detail |-> None]
    OBVIOUS
  <2>3. RollbackRow(r)
    BY <2>2 DEF RollbackRow, IsCutover
  <2>4. \A x \in Rows' : x \in Rows \/ RollbackRow(x)
    BY <1>0, <1>3, <2>2, <2>3, RowsNote DEF Release
  <2> QED
    BY <1>0, <2>1, <2>4, RollbackFrom
<1> QED
  BY <1>1, <1>2, <1>3

(* The upsert reads the record it will replace.                            *)
LEMMA RollbackLook ==
  ASSUME Typed, Typed', Rollbacks, RollbackRestores, [Next]_vars, NEW s \in Slots, Look(s)
  PROVE  Rollbacks' /\ RollbackRestores'
<1> USE DEF vault, history
<1> DEFINE c == call[s]
<1>1. call \in [Slots -> Calls] /\ c \in UpsertCall /\ file' = file /\ undone' = undone /\ zone' = zone
  BY CallAt DEF Look, At, Typed
<1>2. c.domain \in Domains
  BY <1>1 DEF UpsertCall
<1>3. /\ Len(zone[c.domain]) \in Nat \ {0} /\ Current(c.domain) = zone[c.domain][Len(zone[c.domain])]
      /\ Current(c.domain) \in SUBSET ARecord
  BY <1>2, CurrentNamed DEF Rollbacks, AllNamed
<1>4. ASSUME NEW seen \in IF Current(c.domain) = {} THEN {None} ELSE Current(c.domain), NEW n,
             n = [at |-> "write", mandate |-> call[s].mandate, step |-> "P8", run |-> call[s].run,
                  domain |-> c.domain, record |-> IF seen = None THEN 0 ELSE seen.id,
                  content |-> call[s].detail, seen |-> seen, from |-> Len(zone[c.domain])],
             Step(s, n)
      PROVE  Rollbacks' /\ RollbackRestores'
  <2>1. /\ n.at = "write" /\ n.domain = c.domain /\ n.from = Len(zone[c.domain])
        /\ n.record = IF seen = None THEN 0 ELSE seen.id
        /\ n.seen = seen
    BY <1>4
  <2>2. None \notin ARecord
    BY GatewayToolsAssumption
  <2>3. Saw(Current(c.domain), n.record, n.seen)
    BY <1>3, <1>4, <2>1, <2>2 DEF Saw
  <2>4. n.from \in 1..Len(zone[n.domain])
    BY <1>3, <2>1
  <2>5. RollbackCall(n)
    BY <1>3, <2>1, <2>3, <2>4 DEF RollbackCall
  <2> QED
    BY <1>1, <1>4, <2>5, RollbackByCall
<1>5. CASE Step(s, [c EXCEPT !.at = "release"])
  <2>1. [c EXCEPT !.at = "release"].at = "release"
    BY <1>1 DEF UpsertCall
  <2>2. RollbackCall([c EXCEPT !.at = "release"])
    BY <2>1, RollbackCalls
  <2> QED
    BY <1>1, <1>5, <2>2, RollbackByCall
<1> QED
  BY <1>4, <1>5 DEF Look

(* What a write of a call leaves behind, at the end of the history.        *)
LEMMA WriteLands ==
  ASSUME Typed, Rollbacks, NEW w \in Write, Apply(w)
  PROVE  LET d  == w.domain
             id == IF w.record = 0 THEN nextId ELSE w.record
         IN  /\ d \in Domains /\ Len(zone[d]) \in Nat \ {0} /\ id # 0
             /\ Len(zone'[d]) = Len(zone[d]) + 1
             /\ zone'[d][Len(zone[d]) + 1] = Put(zone[d][Len(zone[d])], id, w.content)
             /\ \A i \in 1..Len(zone[d]) : zone'[d][i] = zone[d][i]
<1> DEFINE id == IF w.record = 0 THEN nextId ELSE w.record
           new == Put(Current(w.domain), id, w.content)
<1>1. PICK d \in Domains : d = w.domain
  BY DEF Write
<1>2. /\ Len(zone[d]) \in Nat \ {0} /\ Current(d) = zone[d][Len(zone[d])] /\ Named(Current(d), nextId)
  BY CurrentNamed DEF Rollbacks, AllNamed
<1>3. zone'[d] = Append(zone[d], new)
  BY <1>1, <1>2, ApplyPuts
<1>4. id # 0
  BY DEF Rollbacks
<1>5. PICK q \in Seq(SUBSET ARecord) : q = zone[d]
  BY DEF Typed
<1> HIDE DEF new, id
<1>6. /\ Len(Append(q, new)) = Len(q) + 1 /\ Append(q, new)[Len(q) + 1] = new
      /\ \A i \in 1..Len(q) : Append(q, new)[i] = q[i]
  OBVIOUS
<1>7. new = Put(zone[d][Len(zone[d])], id, w.content)
  BY <1>1, <1>2 DEF new
<1> QED
  BY <1>1, <1>2, <1>3, <1>4, <1>5, <1>6, <1>7 DEF id

(* The write of an upsert is recorded with what undoes it.                 *)
LEMMA RollbackWritten ==
  ASSUME Typed, Typed', Rollbacks, RollbackRestores, [Next]_vars, NEW s \in Slots, Written(s)
  PROVE  Rollbacks' /\ RollbackRestores'
<1> USE DEF vault, history
<1> DEFINE c == call[s]
<1>1. call \in [Slots -> Calls] /\ c \in WriteCall /\ file' = file /\ undone' = undone /\ c.at = "write"
  BY CallAt DEF Written, At, Typed
<1>2. CASE ~Applies(WriteOf(s))
  <2>1. Step(s, [c EXCEPT !.at = "release"])
    BY <1>2 DEF Written
  <2>2. [c EXCEPT !.at = "release"].at = "release"
    BY <1>1 DEF WriteCall
  <2>3. RollbackCall([c EXCEPT !.at = "release"])
    BY <2>2, RollbackCalls
  <2> QED
    BY <1>1, <2>1, <2>3, RollbackByCall
<1>3. CASE Applies(WriteOf(s))
  <2>1. PICK w : w = WriteOf(s)
    OBVIOUS
  <2>2. w \in Write /\ Apply(w)
    BY <1>1, <1>3, <2>1, WriteOfType DEF Written
  <2>3. w.domain = c.domain /\ w.record = c.record /\ w.content = c.content
    BY <2>1 DEF WriteOf
  <2>4. PICK d : d = c.domain
    OBVIOUS
  <2>5. PICK len : len = Len(zone[d])
    OBVIOUS
  <2>6. PICK id : id = IF c.record = 0 THEN nextId ELSE c.record
    OBVIOUS
  <2>7. /\ d \in Domains /\ len \in Nat \ {0} /\ id # 0
        /\ Len(zone'[d]) = len + 1
        /\ zone'[d][len + 1] = Put(zone[d][len], id, c.content)
        /\ \A i \in 1..len : zone'[d][i] = zone[d][i]
    BY <2>2, <2>3, <2>4, <2>5, <2>6, WriteLands
  <2>8. c.from \in 1..len /\ Saw(zone[d][c.from], c.record, c.seen)
    BY <1>1, <2>4, <2>5 DEF Rollbacks, Under, RollbackCall
  <2>9. PICK back : back = IF c.seen = None THEN None ELSE c.seen.content
    OBVIOUS
  <2>10. c.from = len => zone[d][len] = Put(Put(zone[d][len], id, c.content), id, back)
    <3>1. zone[d][len] \in SUBSET ARecord /\ Named(zone[d][len], nextId)
      BY <2>5, <2>7, CurrentNamed DEF Rollbacks, AllNamed
    <3>2. c.content # None
      BY <1>1, GatewayToolsAssumption DEF WriteCall
    <3>3. nextId \in Nat
      BY DEF Typed
    <3> QED
      BY <2>6, <2>8, <2>9, <3>1, <3>2, <3>3, PutBack
  <2>11. PICK from, to : from = c.from /\ to = len + 1
    OBVIOUS
  <2>12. Undoes(d, from, to, id, back)'
    <3>1. from \in 1..Len(zone'[d]) /\ to \in 1..Len(zone'[d])
      BY <2>7, <2>8, <2>11
    <3>2. to = from + 1 => zone'[d][from] = Put(zone'[d][to], id, back)
      <4> SUFFICES ASSUME to = from + 1 PROVE zone'[d][from] = Put(zone'[d][to], id, back)
        OBVIOUS
      <4>1. from = len
        BY <2>7, <2>8, <2>11
      <4>2. zone'[d][from] = zone[d][len] /\ zone'[d][to] = Put(zone[d][len], id, c.content)
        BY <2>7, <2>11, <4>1
      <4> QED
        BY <2>10, <2>11, <4>1, <4>2
    <3> QED
      BY <2>7, <3>1, <3>2 DEF Undoes
  <2>13. PICK u : u = [record |-> IF call[s].record = 0 THEN nextId ELSE call[s].record,
                       domain |-> call[s].domain, previous |-> call[s].seen,
                       from |-> call[s].from, to |-> Len(zone[call[s].domain]) + 1]
    OBVIOUS
  <2>14. u.record = id /\ u.domain = d /\ u.previous = c.seen /\ u.from = from /\ u.to = to
    BY <2>4, <2>5, <2>6, <2>11, <2>13
  <2>15. UndoesRow(u)'
    BY <2>9, <2>12, <2>14 DEF UndoesRow
  <2>16. PICK n : n = [at |-> "settle", mandate |-> call[s].mandate, step |-> "P8", run |-> call[s].run, detail |-> u]
    OBVIOUS
  <2>17. Step(s, n)
    BY <1>3, <2>13, <2>16 DEF Written
  <2>18. n.at = "settle" /\ n.detail = u
    BY <2>16
  <2>19. RollbackCall(n)'
    BY <2>15, <2>18 DEF RollbackCall
  <2>20. \A x \in Under' : x \in Under \/ RollbackCall(x)'
    BY <1>1, <2>17, <2>19, UnderStep
  <2>21. Rows' = Rows
    BY <1>1 DEF Rows
  <2> QED
    BY <1>1, <2>20, <2>21, RollbackFrom
<1> QED
  BY <1>2, <1>3

(* A rollback undoes the write it was told of, if nothing came between.    *)
LEMMA RollbackRestored ==
  ASSUME Typed, Typed', Rollbacks, RollbackRestores, [Next]_vars, NEW s \in Slots, Restored(s)
  PROVE  Rollbacks' /\ RollbackRestores'
<1> USE DEF vault, history
<1> DEFINE c == call[s]
<1>1. /\ call \in [Slots -> Calls] /\ c \in RestoreCall /\ file' = file /\ c.at = "restore"
      /\ Step(s, Idle) /\ RollbackCall(Idle)
  BY CallIn, RollbackCalls DEF Restored, At, Typed, End, Idle
<1>2. CASE ~Applies(WriteOf(s))
  <2>1. undone' = undone
    BY <1>2 DEF Restored
  <2> QED
    BY <1>1, <2>1, RollbackByCall
<1>3. CASE Applies(WriteOf(s))
  <2>1. PICK w : w = WriteOf(s)
    OBVIOUS
  <2>2. w \in Write /\ Apply(w)
    BY <1>1, <1>3, <2>1, WriteOfType DEF Restored
  <2>3. w.domain = c.domain /\ w.record = c.record /\ w.content = c.content
    BY <2>1 DEF WriteOf
  <2>4. PICK d : d = c.domain
    OBVIOUS
  <2>5. PICK len : len = Len(zone[d])
    OBVIOUS
  <2>6. Undoes(d, c.from, c.to, c.record, c.content)
    BY <1>1, <2>4 DEF Rollbacks, Under, RollbackCall
  <2>7. /\ d \in Domains /\ len \in Nat \ {0}
        /\ Len(zone'[d]) = len + 1
        /\ zone'[d][len + 1] = Put(zone[d][len], c.record, c.content)
        /\ \A i \in 1..len : zone'[d][i] = zone[d][i]
    BY <2>2, <2>3, <2>4, <2>5, <2>6, WriteLands DEF Undoes
  <2>8. PICK u : u = [domain |-> call[s].domain, from |-> call[s].from, to |-> call[s].to,
                      at |-> Len(zone[call[s].domain]) + 1]
    OBVIOUS
  <2>9. u.domain = d /\ u.from = c.from /\ u.to = c.to /\ u.at = len + 1
    BY <2>4, <2>5, <2>8
  <2>10. undone' = u
    BY <1>3, <2>8 DEF Restored
  <2>11. u.from \in 1..len /\ u.to \in 1..len
    BY <2>5, <2>6, <2>9 DEF Undoes
  <2>12. Undone'
    BY <2>7, <2>9, <2>10, <2>11 DEF Undone
  <2>13. RollbackRestores'
    <3> SUFFICES ASSUME u.to = u.at - 1, u.from = u.to - 1
                 PROVE  zone'[u.domain][u.at] = zone'[u.domain][u.from]
      BY <2>10 DEF RollbackRestores
    <3>1. u.to = len /\ u.to = u.from + 1
      BY <2>7, <2>9, <2>11
    <3>2. zone[d][u.from] = Put(zone[d][len], c.record, c.content)
      BY <2>6, <2>9, <3>1 DEF Undoes
    <3> QED
      BY <2>7, <2>9, <2>11, <3>2
  <2>14. \A x \in Under' : x \in Under \/ RollbackCall(x)
    BY <1>1, UnderStep
  <2>15. Rows' = Rows
    BY <1>1 DEF Rows
  <2> QED
    BY <2>12, <2>13, <2>14, <2>15, RollbackFrom
<1> QED
  BY <1>2, <1>3

(* Every step keeps what rollbacks go by, and what they have restored.     *)
LEMMA RollbackStep ==
  ASSUME Typed, Typed', Rollbacks, RollbackRestores, [Next]_vars
  PROVE  Rollbacks' /\ RollbackRestores'
<1> USE DEF vars, vault, clock, history
<1>0. (file' = file => Rows' = Rows) /\ (call' = call => Under' = Under)
  BY DEF Rows, Under
<1>1. CASE UNCHANGED vars
  BY <1>0, <1>1, RollbackFrom
<1>2. ASSUME NEW s \in Slots, Handler(s)
      PROVE  Rollbacks' /\ RollbackRestores'
  BY <1>2, RollbackQuiet, RollbackNote, RollbackLook, RollbackWritten, RollbackRestored DEF Handler
<1>3. ASSUME NEW s \in Slots, NEW t \in Tokens, Operator(s, t) \/ Agent(s, t)
      PROVE  Rollbacks' /\ RollbackRestores'
  BY <1>3, RollbackRequest
<1>4. CASE Environment
  <2>1. file' = file /\ undone' = undone
    BY <1>4 DEF Environment, Late, BlobExpires, Expire, Close, VercelEdited, GatewayDies
  <2>2. call' = call \/ call' = [s \in Slots |-> Idle]
    BY <1>4 DEF Environment, Late, BlobExpires, Expire, Close, VercelEdited, GatewayDies
  <2>3. \A x \in Under' : x \in Under \/ RollbackCall(x)
    BY <1>0, <2>2, RollbackCalls DEF Under, Idle
  <2> QED
    BY <1>0, <2>1, <2>3, RollbackFrom
<1> QED
  BY <1>1, <1>2, <1>3, <1>4 DEF Next

(* At the start there is nothing to put back.                              *)
LEMMA RollbackInit == Init => Rollbacks /\ RollbackRestores
<1> SUFFICES ASSUME Init PROVE Rollbacks /\ RollbackRestores
  OBVIOUS
<1>1. undone = None /\ nextId = 2
  BY DEF Init
<1>2. \A d \in Domains : \A i \in 1..Len(zone[d]) : Named(zone[d][i], nextId)
  <2>1. PICK first \in {{}, {[id |-> 1, content |-> Old]}} : zone = [d \in Domains |-> <<first>>]
    BY DEF Init
  <2>2. Named(first, 2)
    BY <2>1 DEF Named
  <2> QED
    BY <1>1, <2>1, <2>2
<1>3. \A c \in Under : RollbackCall(c)
  BY RollbackCalls DEF Init, Under, Idle
<1>4. \A r \in Rows : RollbackRow(r)
  <2>1. PICK run \in Runs :
          file = [i \in DOMAIN SetToSeq(DOMAIN Bought) |->
                   [key |-> <<SetToSeq(DOMAIN Bought)[i], "P2">>, run |-> run, state |-> "COMMITTED",
                    detail |-> Bought[SetToSeq(DOMAIN Bought)[i]]]]
    BY DEF Init
  <2> QED
    BY <2>1 DEF Rows, RollbackRow, IsCutover
<1> QED
  BY <1>1, <1>2, <1>3, <1>4 DEF Rollbacks, RollbackRestores

(* A rollback that was heard has put the domain back exactly as the upsert *)
(* had found it, when no other write fell between what the upsert had read *)
(* and the rollback.                                                       *)
THEOREM RollbackRestoresHolds == Spec => []RollbackRestores
<1>1. Typed /\ Rollbacks /\ RollbackRestores /\ [Next]_vars => (Typed /\ Rollbacks /\ RollbackRestores)'
  BY TypedStep, RollbackStep
<1> QED
  BY <1>1, InitTyped, RollbackInit, PTL DEF Spec

-----------------------------------------------------------------------------
(* An application gets its own, latest environment.                        *)

(* What holds of a call goes on holding while others export, unless they   *)
(* export for the same mandate at the same time.                           *)
LEMMA EnvironmentCallStays ==
  ASSUME Typed, Typed', NEW c \in Calls, EnvironmentCall(c), vercel' >= vercel, crossed \subseteq crossed',
         \A i \in Ids : exported'[i] >= exported[i],
         c.at \in {"blob", "blobbing"} /\ c.mandate \notin crossed => exported'[c.mandate] = exported[c.mandate]
  PROVE  EnvironmentCall(c)'
<1>1. Exporting(c) => ProjectOf(c.mandate, c.project)
  BY DEF EnvironmentCall
<1>2. CASE c.at \in {"blob", "blobbing"}
  <2>1. c \in BlobCall
    BY <1>2, KindOf
  <2>2. c.version \in Nat /\ c.mandate \in Ids /\ vercel \in Nat /\ vercel' \in Nat
    BY <2>1 DEF BlobCall, Typed
  <2>3. c.version <= vercel'
    BY <1>2, <2>2 DEF EnvironmentCall
  <2>4. c.version >= exported'[c.mandate] \/ c.mandate \in crossed'
    BY <1>2 DEF EnvironmentCall
  <2> QED
    BY <1>1, <1>2, <2>3, <2>4 DEF EnvironmentCall, Exporting
<1>3. CASE c.at = "open"
  <2>1. c \in OpenCall
    BY <1>3, KindOf
  <2>2. c.floor \in Nat /\ c.mandate \in Ids
    BY <2>1 DEF OpenCall
  <2>3. exported[c.mandate] \in Nat /\ exported'[c.mandate] \in Nat /\ exported'[c.mandate] >= exported[c.mandate]
    BY <2>2 DEF Typed
  <2>4. c.floor <= exported'[c.mandate]
    BY <1>3, <2>2, <2>3 DEF EnvironmentCall
  <2> QED
    BY <1>1, <1>3, <2>4 DEF EnvironmentCall, Exporting
<1>4. CASE c.at = "load"
  BY <1>1, <1>4 DEF EnvironmentCall, Exporting
<1>5. CASE c.at \notin {"blob", "blobbing", "open", "load"}
  BY <1>1, <1>5 DEF EnvironmentCall
<1> QED
  BY <1>2, <1>3, <1>4, <1>5

(* What is stored of a mandate goes on being right when only Vercel moves  *)
(* on, or its blob is cut short or dropped.                                *)
LEMMA EnvironmentOfStays ==
  ASSUME Typed, Typed', NEW i \in Ids, EnvironmentOf(i), vercel' >= vercel, crossed \subseteq crossed',
         exported'[i] = exported[i], blob'[i] = blob[i] \/ blob'[i] \in {None, Torn}, app'[i] = app[i]
  PROVE  EnvironmentOf(i)'
<1>1. exported[i] \in Nat /\ vercel \in Nat /\ vercel' \in Nat
  BY DEF Typed
<1>2. exported'[i] <= vercel'
  BY <1>1 DEF EnvironmentOf
<1> QED
  BY <1>2 DEF EnvironmentOf

(* A call that is not an export, or goes on with one.                      *)
LEMMA OneExportStays ==
  ASSUME Typed, OneExport, NEW s \in Slots, NEW c, Step(s, c) \/ Begin(s, c), crossed \subseteq crossed',
         Exporting(c) => Exporting(call[s]) /\ c.mandate = call[s].mandate
  PROVE  OneExport'
<1>1. call' = [call EXCEPT ![s] = c] /\ call \in [Slots -> Calls]
  BY DEF Step, Begin, Typed
<1>2. \A x \in Slots : Exporting(call'[x]) => Exporting(call[x]) /\ call'[x].mandate = call[x].mandate
  BY <1>1 DEF Exporting
<1>3. ASSUME NEW x \in Slots, NEW y \in Slots, Exporting(call'[x]), Exporting(call'[y]),
             call'[x].mandate = call'[y].mandate, call'[x].mandate \notin crossed'
      PROVE  x = y
  BY <1>2, <1>3 DEF OneExport
<1> QED
  BY <1>3 DEF OneExport, Exporting

(* A step that leaves what is exported as it is.                           *)
LEMMA EnvironmentsFrom ==
  ASSUME Typed, Typed', Environments, OneExport', vercel' >= vercel, UNCHANGED <<exported, crossed>>,
         \A i \in Ids : EnvironmentOf(i)',
         \A c \in Under' : c \in Under \/ EnvironmentCall(c)'
  PROVE  Environments'
<1>1. \A i \in Ids : exported[i] \in Nat
  BY DEF Typed
<1>2. \A c \in Under : c \in Calls
  BY DEF Under, Typed
<1>3. \A c \in Under : EnvironmentCall(c)'
  <2> SUFFICES ASSUME NEW c \in Under PROVE EnvironmentCall(c)'
    OBVIOUS
  <2>1. c \in Calls /\ EnvironmentCall(c) /\ \A i \in Ids : exported'[i] >= exported[i]
    BY <1>1, <1>2 DEF Environments
  <2> QED
    BY <2>1, EnvironmentCallStays
<1>4. ASSUME NEW c \in Under' PROVE EnvironmentCall(c)'
  BY <1>3, <1>4
<1> QED
  BY <1>4 DEF Environments

(* Where a call that exports variables or loads them stands.               *)
EnvLabels == {"read", "blob", "blobbing", "open", "load"}

(* A step of a call that has nothing to do with environments keeps them.   *)
LEMMA EnvironmentsQuiet ==
  ASSUME Typed, Typed', Environments, NEW s \in Slots, NEW n, Step(s, n) \/ Begin(s, n),
         n.at \notin EnvLabels, UNCHANGED <<blob, app, vercel, exported, crossed>>
  PROVE  Environments'
<1>1. OneExport'
  BY OneExportStays DEF Environments, EnvLabels, Exporting
<1>2. EnvironmentCall(n)'
  BY DEF EnvironmentCall, EnvLabels, Exporting
<1>3. \A c \in Under' : c \in Under \/ c = n
  BY UnderStep DEF Typed
<1>4. vercel' >= vercel
  BY DEF Typed
<1>5. \A i \in Ids : EnvironmentOf(i)'
  BY <1>4, EnvironmentOfStays DEF Environments
<1> QED
  BY <1>1, <1>2, <1>3, <1>4, <1>5, EnvironmentsFrom
(* A new export is for the project of its mandate, and overlapping another *)
(* is told; a new load notes what has been answered.                       *)
LEMMA EnvironmentsRequest ==
  ASSUME OneMandatePerId, Typed, Typed', Environments, NEW s \in Slots, NEW t \in Tokens,
         Operator(s, t) \/ Agent(s, t)
  PROVE  Environments'
<1> USE DEF vault, history
<1>1. CASE Prepare(s, t)
  <2>1. PICK n : n = [at |-> "secrets", step |-> "P2", mandate |-> t.mandate.id]
    OBVIOUS
  <2> QED
    BY <1>1, <2>1, EnvironmentsQuiet DEF Prepare, EnvLabels
<1>2. ASSUME NEW r \in Runs, NEW ip \in Addresses, Register(s, t, r, ip)
      PROVE  Environments'
  <2>1. PICK n : n = [at |-> "prior", mandate |-> t.mandate.id, step |-> "P2", run |-> r, detail |-> ip]
    OBVIOUS
  <2> QED
    BY <1>2, <2>1, EnvironmentsQuiet DEF Register, EnvLabels
<1>3. ASSUME NEW r \in Runs, NEW d \in Domains, NEW v \in Verdicts, Upsert(s, t, r, d, v)
      PROVE  Environments'
  <2>1. PICK p : Begin(s, [at |-> "claim", mandate |-> t.mandate.id, step |-> "P8", run |-> r,
                           domain |-> d, detail |-> p.detail])
    BY <1>3 DEF Upsert
  <2>2. PICK n : n = [at |-> "claim", mandate |-> t.mandate.id, step |-> "P8", run |-> r,
                      domain |-> d, detail |-> p.detail]
    OBVIOUS
  <2>3. n.at \notin EnvLabels
    BY <2>2 DEF EnvLabels
  <2> QED
    BY <1>3, <2>1, <2>2, <2>3, EnvironmentsQuiet DEF Upsert
<1>4. CASE Rollback(s, t)
  <2>1. PICK p \in Committed(file, <<t.mandate.id, "P8">>) :
          Begin(s, [at |-> "restore", domain |-> p.detail.domain, record |-> p.detail.record,
                    content |-> IF p.detail.previous = None THEN None ELSE p.detail.previous.content,
                    step |-> "rollback", from |-> p.detail.from, to |-> p.detail.to])
    BY <1>4 DEF Rollback
  <2>2. PICK n : n = [at |-> "restore", domain |-> p.detail.domain, record |-> p.detail.record,
                      content |-> IF p.detail.previous = None THEN None ELSE p.detail.previous.content,
                      step |-> "rollback", from |-> p.detail.from, to |-> p.detail.to]
    OBVIOUS
  <2>3. n.at \notin EnvLabels
    BY <2>2 DEF EnvLabels
  <2> QED
    BY <1>4, <2>1, <2>2, <2>3, EnvironmentsQuiet DEF Rollback
<1>5. CASE BulkUpdate(s, t)
  <2>1. PICK n : n = [at |-> "open", step |-> "env", mandate |-> t.mandate.id, floor |-> exported[t.mandate.id]]
    OBVIOUS
  <2>2. n.at = "open" /\ n.mandate = t.mandate.id /\ n.floor = exported[t.mandate.id]
    BY <2>1
  <2>3. Begin(s, n) /\ UNCHANGED <<blob, app, vercel, exported, crossed>>
    BY <1>5, <2>1 DEF BulkUpdate
  <2>4. t.mandate.id \in Ids
    BY <1>5, AdmittedToken DEF BulkUpdate, Allowed
  <2>5. exported[t.mandate.id] \in Nat /\ vercel' >= vercel
    BY <2>3, <2>4 DEF Typed
  <2>6. EnvironmentCall(n)'
    BY <2>2, <2>3, <2>5 DEF EnvironmentCall, Exporting
  <2>7. OneExport'
    BY <2>2, <2>3, OneExportStays DEF Environments, Exporting
  <2>8. \A c \in Under' : c \in Under \/ EnvironmentCall(c)'
    BY <2>3, <2>6, UnderStep DEF Typed
  <2>9. \A i \in Ids : EnvironmentOf(i)'
    BY <2>3, <2>5, EnvironmentOfStays DEF Environments
  <2> QED
    BY <2>3, <2>5, <2>7, <2>8, <2>9, EnvironmentsFrom
<1>6. ASSUME NEW p \in Projects, Export(s, t, p)
      PROVE  Environments'
  <2>1. PICK n : n = [at |-> "read", step |-> "env", mandate |-> t.mandate.id, project |-> p]
    OBVIOUS
  <2>2. n.at = "read" /\ n.mandate = t.mandate.id /\ n.project = p
    BY <2>1
  <2>3. /\ Begin(s, n) /\ UNCHANGED <<blob, app, vercel, exported>>
        /\ crossed' = IF Exports(t.mandate.id) = {} THEN crossed ELSE crossed \cup {t.mandate.id}
    BY <1>6, <2>1 DEF Export
  <2>4. t.mandate \in Mandates /\ t.mandate.id \in Ids
    BY <1>6, AdmittedToken DEF Export, Allowed
  <2>5. p = t.mandate.project
    <3>1. authorize(t.mandate, <<"vercel", "env", "export">>, p, TRUE) = "OK"
      BY <1>6 DEF Export, Allowed
    <3>2. ~Substituted(t.mandate, <<"vercel", "env", "export">>, p)
      BY <3>1 DEF authorize
    <3> QED
      BY <3>2 DEF Substituted
  <2>6. ProjectOf(t.mandate.id, p)
    BY <2>4, <2>5 DEF ProjectOf, OneMandatePerId
  <2>7. EnvironmentCall(n)'
    BY <2>2, <2>6 DEF EnvironmentCall, Exporting, ProjectOf
  <2>8. crossed \subseteq crossed' /\ vercel' >= vercel /\ \A i \in Ids : exported'[i] >= exported[i]
    BY <2>3 DEF Typed
  <2>9. OneExport'
    <3>1. call' = [call EXCEPT ![s] = n] /\ call \in [Slots -> Calls]
      BY <2>3 DEF Begin, Typed
    <3>2. \A x \in Slots : x # s => call'[x] = call[x]
      BY <3>1
    <3>3. call'[s] = n
      BY <3>1
    <3>4. ASSUME NEW x \in Slots, x # s, Exporting(call[x]), call[x].mandate = t.mandate.id
          PROVE  t.mandate.id \in crossed'
      BY <2>3, <3>4 DEF Exports, Exporting
    <3>5. ASSUME NEW x \in Slots, NEW y \in Slots, Exporting(call'[x]), Exporting(call'[y]),
                 call'[x].mandate = call'[y].mandate
          PROVE  x = y \/ call'[x].mandate \in crossed'
      <4>1. CASE x # s /\ y # s
        BY <2>8, <3>2, <3>5, <4>1 DEF Environments, OneExport
      <4>2. CASE x = s /\ y # s
        BY <2>2, <3>2, <3>3, <3>4, <3>5, <4>2
      <4>3. CASE x # s /\ y = s
        BY <2>2, <3>2, <3>3, <3>4, <3>5, <4>3
      <4> QED
        BY <4>1, <4>2, <4>3
    <3> QED
      BY <3>5 DEF OneExport, Exporting
  <2>10. \A c \in Under : EnvironmentCall(c)'
    <3> SUFFICES ASSUME NEW c \in Under PROVE EnvironmentCall(c)'
      OBVIOUS
    <3>1. c \in Calls /\ EnvironmentCall(c)
      BY DEF Under, Typed, Environments
    <3> QED
      BY <2>3, <2>8, <3>1, EnvironmentCallStays
  <2>11. \A c \in Under' : EnvironmentCall(c)'
    BY <2>3, <2>7, <2>10, UnderStep DEF Typed
  <2>12. \A i \in Ids : EnvironmentOf(i)'
    BY <2>3, <2>8, EnvironmentOfStays DEF Environments
  <2> QED
    BY <2>9, <2>11, <2>12 DEF Environments
<1> QED
  BY <1>1, <1>2, <1>3, <1>4, <1>5, <1>6 DEF Operator, Agent

(* The handlers that have nothing to do with environments.                 *)
LEMMA EnvironmentsOther ==
  ASSUME Typed, Typed', Environments, NEW s \in Slots,
         \/ CoolifySecrets(s) \/ SealSecret(s) \/ PriorAddress(s) \/ Claim(s) \/ Intend(s) \/ Settle(s)
         \/ Release(s) \/ Look(s) \/ Written(s) \/ Restored(s) \/ GiveUp(s)
  PROVE  Environments'
<1> USE DEF vault, history
<1>1. Idle.at \notin EnvLabels
  BY DEF Idle, EnvLabels
<1>2. \A l : [call[s] EXCEPT !.at = l].at = l
  BY Relabelled DEF Typed
<1>3. \A l \in {"sealing", "claim", "intend", "settle", "look", "release"} :
        [call[s] EXCEPT !.at = l].at \notin EnvLabels
  BY <1>2 DEF EnvLabels
<1>4. UNCHANGED <<blob, app, vercel, exported, crossed>>
  BY DEF CoolifySecrets, SealSecret, PriorAddress, Claim, Intend, Settle, Release, Look, Written, Restored, GiveUp
<1>5. \E n : Step(s, n) /\ n.at \notin EnvLabels
  <2>1. CASE CoolifySecrets(s) \/ SealSecret(s) \/ PriorAddress(s) \/ Claim(s)
    BY <1>1, <1>3, <2>1 DEF CoolifySecrets, SealSecret, PriorAddress, Claim, End
  <2>2. CASE Intend(s) \/ Settle(s) \/ Release(s) \/ Restored(s) \/ GiveUp(s)
    BY <1>1, <1>3, <2>2 DEF Intend, Settle, Release, Restored, GiveUp, End
  <2>3. CASE Look(s)
    <3>1. PICK d : d = call[s].domain
      OBVIOUS
    <3>2. CASE Step(s, [call[s] EXCEPT !.at = "release"])
      BY <1>3, <3>2
    <3>3. ASSUME NEW seen,
                 Step(s, [at |-> "write", mandate |-> call[s].mandate, step |-> "P8", run |-> call[s].run,
                     domain |-> d, record |-> IF seen = None THEN 0 ELSE seen.id,
                     content |-> call[s].detail, seen |-> seen, from |-> Len(zone[d])])
          PROVE  \E n : Step(s, n) /\ n.at \notin EnvLabels
      <4>1. PICK n : n = [at |-> "write", mandate |-> call[s].mandate, step |-> "P8", run |-> call[s].run,
                     domain |-> d, record |-> IF seen = None THEN 0 ELSE seen.id,
                     content |-> call[s].detail, seen |-> seen, from |-> Len(zone[d])]
        OBVIOUS
      <4>2. n.at \notin EnvLabels
        BY <4>1 DEF EnvLabels
      <4> QED
        BY <3>3, <4>1, <4>2
    <3> QED
      BY <2>3, <3>1, <3>2, <3>3 DEF Look
  <2>4. CASE Written(s)
    <3>1. PICK n : /\ Step(s, n)
                   /\ n = [call[s] EXCEPT !.at = "release"] \/ n.at = "settle"
      BY <2>4 DEF Written
    <3> QED
      BY <1>3, <3>1 DEF EnvLabels
  <2> QED
    BY <2>1, <2>2, <2>3, <2>4
<1> QED
  BY <1>4, <1>5, EnvironmentsQuiet

(* An export reads the variables and puts them into the vault.             *)
LEMMA EnvironmentsExport ==
  ASSUME Typed, Typed', Environments, NEW s \in Slots, ReadEnvs(s) \/ SealEnvs(s)
  PROVE  Environments'
<1> USE DEF vault, history
<1> DEFINE c == call[s]
<1>0. EnvironmentCall(c) /\ call \in [Slots -> Calls] /\ vercel' = vercel /\ vercel \in Nat
      /\ UNCHANGED <<exported, crossed, app>>
  BY DEF Environments, Under, Typed, ReadEnvs, SealEnvs
<1>1. CASE ReadEnvs(s)
  <2>1. c \in ReadCall /\ c.at = "read"
    BY <1>0, <1>1, CallIn DEF ReadEnvs, At
  <2>2. PICK n : n = [at |-> "blob", step |-> "env", mandate |-> call[s].mandate,
                      project |-> call[s].project, version |-> vercel]
    OBVIOUS
  <2>3. n.at = "blob" /\ n.mandate = c.mandate /\ n.project = c.project /\ n.version = vercel
    BY <2>2
  <2>4. CASE Step(s, n)
    <3>1. ProjectOf(c.mandate, c.project) /\ c.mandate \in Ids
      BY <1>0, <2>1 DEF EnvironmentCall, Exporting, ReadCall
    <3>2. vercel >= exported[c.mandate]
      BY <3>1 DEF Environments, EnvironmentOf, Typed
    <3>3. EnvironmentCall(n)'
      BY <1>0, <2>3, <3>1, <3>2 DEF EnvironmentCall, Exporting, ProjectOf
    <3>4. OneExport'
      BY <1>0, <2>1, <2>3, <2>4, OneExportStays DEF Environments, Exporting
    <3>5. \A x \in Under' : x \in Under \/ EnvironmentCall(x)'
      BY <1>0, <2>4, <3>3, UnderStep
    <3>6. \A i \in Ids : EnvironmentOf(i)'
      BY <1>0, <1>1, EnvironmentOfStays DEF Environments, ReadEnvs
    <3> QED
      BY <1>0, <3>4, <3>5, <3>6, EnvironmentsFrom
  <2>5. CASE Step(s, Idle)
    BY <1>0, <1>1, <2>5, EnvironmentsQuiet DEF ReadEnvs, Idle, EnvLabels
  <2> QED
    BY <1>1, <2>2, <2>4, <2>5 DEF ReadEnvs, End
<1>2. CASE SealEnvs(s)
  <2>1. c \in BlobCall /\ c.at = "blob"
    BY <1>0, <1>2, CallIn DEF SealEnvs, At
  <2>2. PICK n : n = [c EXCEPT !.at = "blobbing"]
    OBVIOUS
  <2>3. n.at = "blobbing" /\ n.mandate = c.mandate /\ n.project = c.project /\ n.version = c.version
    BY <2>1, <2>2 DEF BlobCall
  <2>4. Step(s, n) /\ blob' = [blob EXCEPT ![c.mandate] = Torn]
    BY <1>2, <2>2 DEF SealEnvs
  <2>5. EnvironmentCall(n)'
    BY <1>0, <2>1, <2>3 DEF EnvironmentCall, Exporting, ProjectOf
  <2>6. OneExport'
    BY <1>0, <2>1, <2>3, <2>4, OneExportStays DEF Environments, Exporting
  <2>7. \A x \in Under' : x \in Under \/ EnvironmentCall(x)'
    BY <1>0, <2>4, <2>5, UnderStep
  <2>8. \A i \in Ids : blob'[i] = blob[i] \/ blob'[i] \in {None, Torn}
    BY <2>4 DEF Typed
  <2>9. \A i \in Ids : EnvironmentOf(i)'
    BY <1>0, <2>8, EnvironmentOfStays DEF Environments
  <2> QED
    BY <1>0, <2>6, <2>7, <2>9, EnvironmentsFrom
<1> QED
  BY <1>1, <1>2

(* The export answers.  One that overlapped no other holds the newest.     *)
LEMMA EnvironmentsSealed ==
  ASSUME Typed, Typed', Environments, NEW s \in Slots, SealedEnvs(s)
  PROVE  Environments'
<1> USE DEF vault, history
<1> DEFINE c == call[s]
<1>1. /\ EnvironmentCall(c) /\ call \in [Slots -> Calls] /\ Step(s, Idle) /\ c.at = "blobbing"
      /\ UNCHANGED <<vercel, crossed, app>>
  BY DEF Environments, Under, Typed, SealedEnvs, End, At
<1>2. c \in BlobCall
  BY <1>1, CallIn
<1>3. PICK m \in Ids : m = c.mandate
  BY <1>2 DEF BlobCall
<1>4. PICK v \in Nat : v = c.version
  BY <1>2 DEF BlobCall
<1>5. v <= vercel /\ (v >= exported[m] \/ m \in crossed) /\ ProjectOf(m, c.project)
  BY <1>1, <1>3, <1>4 DEF EnvironmentCall, Exporting
<1>6. PICK b : b = [project |-> call[s].project, version |-> call[s].version]
  OBVIOUS
<1>7. b.project = c.project /\ b.version = v
  BY <1>4, <1>6
<1>8. /\ blob' = [blob EXCEPT ![m] = b]
      /\ exported' = [exported EXCEPT ![m] = IF v > exported[m] THEN v ELSE exported[m]]
  BY <1>3, <1>4, <1>6 DEF SealedEnvs
<1>9. exported \in [Ids -> Nat] /\ blob \in [Ids -> {None, Torn} \cup Envs] /\ vercel \in Nat
  BY DEF Typed
<1>10. /\ exported'[m] = (IF v > exported[m] THEN v ELSE exported[m])
       /\ \A i \in Ids \ {m} : exported'[i] = exported[i] /\ blob'[i] = blob[i]
       /\ blob'[m] = b
  BY <1>8, <1>9
<1>11. \A i \in Ids : exported'[i] >= exported[i]
  BY <1>9, <1>10
<1>12. \A i \in Ids : EnvironmentOf(i)'
  <2>1. EnvironmentOf(m)'
    <3>1. EnvironmentOf(m)
      BY DEF Environments
    <3>2. exported'[m] <= vercel
      BY <1>5, <1>9, <1>10, <3>1 DEF EnvironmentOf
    <3>3. v >= exported'[m] \/ m \in crossed
      BY <1>5, <1>9, <1>10
    <3>4. app[m] # None => ProjectOf(m, app[m].envs.project) /\ (app[m].envs.version >= app[m].floor \/ app[m].crossed)
      BY <3>1 DEF EnvironmentOf
    <3> QED
      BY <1>1, <1>5, <1>7, <1>10, <3>2, <3>3, <3>4 DEF EnvironmentOf, ProjectOf
  <2>2. ASSUME NEW i \in Ids, i # m PROVE EnvironmentOf(i)'
    <3>1. EnvironmentOf(i)
      BY DEF Environments
    <3>2. vercel' >= vercel
      BY <1>1, <1>9
    <3> QED
      BY <1>1, <1>10, <2>2, <3>1, <3>2, EnvironmentOfStays
  <2> QED
    BY <2>1, <2>2
<1>13. \A x \in Under' : EnvironmentCall(x)'
  <2> SUFFICES ASSUME NEW x \in Slots, NEW n, n = call'[x] PROVE EnvironmentCall(n)'
    BY DEF Under
  <2>1. CASE x = s
    <3>1. n = Idle
      BY <1>1, <2>1 DEF Step
    <3> QED
      BY <3>1 DEF EnvironmentCall, Exporting, Idle
  <2>2. CASE x # s
    <3>1. PICK y \in Calls : y = call[x]
      BY <1>1
    <3>2. n = y /\ EnvironmentCall(y)
      BY <1>1, <2>2, <3>1 DEF Step, Environments, Under
    <3>3. y.at \in {"blob", "blobbing"} /\ y.mandate \notin crossed => y.mandate \in Ids \ {m}
      <4> SUFFICES ASSUME y.at \in {"blob", "blobbing"}, y.mandate \notin crossed
                   PROVE  y.mandate \in Ids \ {m}
        OBVIOUS
      <4>1. y.mandate \in Ids
        BY KindOf DEF BlobCall
      <4>2. y.mandate # m
        BY <1>1, <1>3, <2>2, <3>1 DEF Environments, OneExport, Exporting
      <4> QED
        BY <4>1, <4>2
    <3>4. vercel' >= vercel /\ crossed \subseteq crossed'
      BY <1>1, <1>9
    <3>5. y.at \in {"blob", "blobbing"} /\ y.mandate \notin crossed => exported'[y.mandate] = exported[y.mandate]
      BY <1>10, <3>3
    <3>6. EnvironmentCall(y)'
      BY <1>11, <3>2, <3>4, <3>5, EnvironmentCallStays
    <3> QED
      BY <3>2, <3>6
  <2> QED
    BY <2>1, <2>2
<1>14. OneExport'
  BY <1>1, OneExportStays DEF Environments, Exporting, Idle
<1> QED
  BY <1>12, <1>13, <1>14 DEF Environments

(* The application is given what the vault holds.                          *)
LEMMA EnvironmentsLoad ==
  ASSUME Typed, Typed', Environments, NEW s \in Slots, OpenBlob(s) \/ Load(s)
  PROVE  Environments'
<1> USE DEF vault, history
<1> DEFINE c == call[s]
<1>1. /\ EnvironmentCall(c) /\ call \in [Slots -> Calls] /\ vercel' = vercel /\ vercel \in Nat
      /\ UNCHANGED <<exported, crossed, blob>>
  BY DEF Environments, Under, Typed, OpenBlob, Load
<1>2. CASE OpenBlob(s)
  <2>1. c \in OpenCall /\ c.at = "open" /\ UNCHANGED app
    BY <1>1, <1>2, CallIn DEF OpenBlob, At
  <2>2. CASE Step(s, Idle)
    BY <1>1, <2>1, <2>2, EnvironmentsQuiet DEF Idle, EnvLabels
  <2>3. PICK n : n = [at |-> "load", step |-> "env", mandate |-> call[s].mandate,
                      floor |-> call[s].floor, envs |-> blob[call[s].mandate]]
    OBVIOUS
  <2>4. CASE blob[c.mandate] \notin {None, Torn} /\ Step(s, n)
    <3>1. n.at = "load" /\ n.mandate = c.mandate /\ n.floor = c.floor /\ n.envs = blob[c.mandate]
      BY <2>3
    <3>2. c.mandate \in Ids /\ c.floor \in Nat /\ c.floor <= exported[c.mandate]
      BY <1>1, <2>1 DEF OpenCall, EnvironmentCall
    <3>3. blob[c.mandate] \in Envs /\ exported[c.mandate] \in Nat
      BY <2>4, <3>2 DEF Typed
    <3>4. /\ ProjectOf(c.mandate, blob[c.mandate].project)
          /\ blob[c.mandate].version >= exported[c.mandate] \/ c.mandate \in crossed
      BY <2>4, <3>2 DEF Environments, EnvironmentOf
    <3>5. blob[c.mandate].version >= c.floor \/ c.mandate \in crossed
      BY <3>2, <3>3, <3>4 DEF Envs
    <3>6. EnvironmentCall(n)'
      BY <1>1, <3>1, <3>4, <3>5 DEF EnvironmentCall, Exporting, ProjectOf
    <3>7. OneExport'
      BY <2>4, <1>1, <3>1, OneExportStays DEF Environments, Exporting
    <3>8. \A x \in Under' : x \in Under \/ EnvironmentCall(x)'
      BY <1>1, <2>4, <3>6, UnderStep
    <3>9. \A i \in Ids : EnvironmentOf(i)'
      BY <1>1, <2>1, EnvironmentOfStays DEF Environments
    <3> QED
      BY <1>1, <3>7, <3>8, <3>9, EnvironmentsFrom
  <2> QED
    BY <1>2, <2>2, <2>3, <2>4 DEF OpenBlob, End
<1>3. CASE Load(s)
  <2>1. c \in LoadCall /\ c.at = "load" /\ Step(s, Idle)
    BY <1>1, <1>3, CallIn DEF Load, At, End
  <2>2. CASE UNCHANGED app
    BY <1>1, <2>1, <2>2, EnvironmentsQuiet DEF Idle, EnvLabels
  <2>3. PICK m \in Ids : m = c.mandate
    BY <2>1 DEF LoadCall
  <2>4. PICK a : a = [envs |-> call[s].envs, floor |-> call[s].floor, crossed |-> call[s].mandate \in crossed]
    OBVIOUS
  <2>5. a.envs = c.envs /\ a.floor = c.floor /\ a.crossed = (m \in crossed)
    BY <2>3, <2>4
  <2>6. CASE app' = [app EXCEPT ![m] = a]
    <3>1. app'[m] = a /\ \A i \in Ids \ {m} : app'[i] = app[i]
      BY <2>6 DEF Typed
    <3>2. ProjectOf(m, c.envs.project) /\ (c.envs.version >= c.floor \/ m \in crossed)
      BY <1>1, <2>1, <2>3 DEF EnvironmentCall
    <3>3. EnvironmentOf(m)'
      <4>1. EnvironmentOf(m)
        BY DEF Environments
      <4> QED
        BY <1>1, <2>5, <3>1, <3>2, <4>1 DEF EnvironmentOf, ProjectOf
    <3>4. \A i \in Ids \ {m} : EnvironmentOf(i)'
      BY <1>1, <3>1, EnvironmentOfStays DEF Environments
    <3>5. OneExport'
      BY <1>1, <2>1, OneExportStays DEF Environments, Exporting, Idle
    <3>6. \A x \in Under' : x \in Under \/ EnvironmentCall(x)'
      <4>1. EnvironmentCall(Idle)'
        BY DEF EnvironmentCall, Exporting, Idle
      <4> QED
        BY <1>1, <2>1, <4>1, UnderStep
    <3> QED
      BY <1>1, <3>3, <3>4, <3>5, <3>6, EnvironmentsFrom
  <2> QED
    BY <1>3, <2>2, <2>3, <2>4, <2>6 DEF Load
<1> QED
  BY <1>2, <1>3

(* Every step keeps what is stored, under way and loaded right.            *)
LEMMA EnvironmentsStep ==
  ASSUME OneMandatePerId, Typed, Typed', Environments, [Next]_vars
  PROVE  Environments'
<1> USE DEF vars, vault, clock, history
<1>1. ASSUME NEW s \in Slots, Handler(s)
      PROVE  Environments'
  BY <1>1, EnvironmentsOther, EnvironmentsExport, EnvironmentsSealed, EnvironmentsLoad DEF Handler
<1>2. ASSUME NEW s \in Slots, NEW t \in Tokens, Operator(s, t) \/ Agent(s, t)
      PROVE  Environments'
  BY <1>2, EnvironmentsRequest
<1>3. CASE UNCHANGED vars \/ Environment
  <2>1. UNCHANGED <<exported, crossed, app>>
    BY <1>3 DEF Environment, Late, BlobExpires, Expire, Close, VercelEdited, GatewayDies
  <2>2. call' = call \/ call' = [s \in Slots |-> Idle]
    BY <1>3 DEF Environment, Late, BlobExpires, Expire, Close, VercelEdited, GatewayDies
  <2>3. vercel' = vercel \/ vercel' = vercel + 1
    BY <1>3 DEF Environment, Late, BlobExpires, Expire, Close, VercelEdited, GatewayDies
  <2>4. vercel' >= vercel
    BY <2>3 DEF Typed
  <2>5. \A i \in Ids : blob'[i] = blob[i] \/ blob'[i] \in {None, Torn}
    BY <1>3 DEF Environment, Late, BlobExpires, Expire, Close, VercelEdited, GatewayDies, Typed
  <2>6. \A i \in Ids : EnvironmentOf(i)'
    BY <2>1, <2>4, <2>5, EnvironmentOfStays DEF Environments
  <2>7. OneExport'
    BY <2>1, <2>2 DEF Environments, OneExport, Exporting, Idle
  <2>8. \A c \in Under' : c \in Under \/ EnvironmentCall(c)'
    BY <2>2 DEF Under, EnvironmentCall, Exporting, Idle
  <2> QED
    BY <2>1, <2>4, <2>6, <2>7, <2>8, EnvironmentsFrom
<1> QED
  BY <1>1, <1>2, <1>3 DEF Next

(* At the start nothing has been exported.                                 *)
LEMMA EnvironmentsInit == Init => Environments
<1> SUFFICES ASSUME Init PROVE Environments
  OBVIOUS
<1>1. \A i \in Ids : exported[i] = 0 /\ blob[i] = None /\ app[i] = None /\ vercel = 1
  BY DEF Init
<1>2. \A i \in Ids : EnvironmentOf(i)
  BY <1>1 DEF EnvironmentOf
<1>3. \A s \in Slots : call[s] = Idle
  BY DEF Init
<1> QED
  BY <1>2, <1>3 DEF Environments, Under, EnvironmentCall, OneExport, Exporting, Idle

(* If no two mandates share an id, an application has only ever been given *)
(* the variables of its own mandate's project, no older than the last      *)
(* export answered before the load began, unless exports of that mandate   *)
(* overlapped.                                                             *)
THEOREM EnvIsCurrentWhenIdsDiffer == ASSUME OneMandatePerId PROVE Spec => []EnvIsCurrent
<1>1. Typed /\ Environments /\ [Next]_vars => (Typed /\ Environments)'
  BY TypedStep, EnvironmentsStep
<1>2. Typed /\ Environments => EnvIsCurrent
  BY DEF Environments, EnvironmentOf, EnvIsCurrent, ProjectOf, Ids
<1> QED
  BY <1>1, <1>2, InitTyped, EnvironmentsInit, PTL DEF Spec
=============================================================================
