---------------------------- MODULE Intake_proofs ---------------------------
(***************************************************************************)
(* Proofs about the way of a cart mandate from the Broker to the Pilot,    *)
(* for all plans, all numbers of mandates, choices and faults: the types,  *)
(* that only what a human approved is released, that it is released once,  *)
(* and that what was sent waits at the Pilot.                              *)
(***************************************************************************)
EXTENDS Intake, SequenceTheorems, TLAPS

Gate == [id : Nat, plan : Plans, approved : BOOLEAN, emitted : BOOLEAN]
Mandate == [plan : Plans, approved : BOOLEAN]
Post == [id : Nat, gate : Nat, state : {"sent", "received"}]

(* What the variables of the Broker, and the Pilot's log of deliveries,    *)
(* may hold; every reference to a gate is to one of the session.           *)
TypeOK ==
  /\ gates \in Seq(Gate) /\ mandates \in Seq(Mandate)
  /\ pending \in Nat /\ pending <= Len(gates)
  /\ choosing \subseteq [gate : Nat, plan : Plans]
  /\ \A c \in choosing : c.gate \in DOMAIN gates
  /\ post \in Post \cup {None}
  /\ post # None => post.gate \in DOMAIN gates
  /\ received \in Seq(Nat) /\ late \subseteq Nat

LEMMA InitType == Init => TypeOK
BY DEF Init, TypeOK

LEMMA MintedType ==
  ASSUME TypeOK, NEW plan \in Plans
  PROVE  /\ Minted(plan) \in Seq(Mandate)
         /\ Len(Minted(plan)) = NewId /\ NewId \in Nat
         /\ \A id \in DOMAIN mandates : Minted(plan)[id] = mandates[id]
         /\ ~Minted(plan)[NewId].approved
BY DEF TypeOK, Minted, Mandate, NewId

(* The records a gate turns into.                                          *)
LEMMA GateRecord ==
  ASSUME NEW r \in Gate, NEW n \in Nat
  PROVE  /\ [r EXCEPT !.emitted = TRUE] \in Gate
         /\ [r EXCEPT !.approved = TRUE] \in Gate
         /\ [r EXCEPT !.id = n, !.approved = FALSE] \in Gate
BY DEF Gate

LEMMA MandateRecord ==
  ASSUME NEW r \in Mandate
  PROVE  [r EXCEPT !.approved = TRUE] \in Mandate
BY DEF Mandate

LEMMA GateType ==
  ASSUME TypeOK, NEW g \in DOMAIN gates
  PROVE  gates[g] \in Gate
<1>1. gates \in Seq(Gate) /\ g \in 1..Len(gates)
  BY DEF TypeOK
<1> QED
  BY <1>1, ElementOfSeq

(* A gate is replaced by another.                                          *)
LEMMA GateSet ==
  ASSUME TypeOK, NEW g \in DOMAIN gates, NEW v \in Gate
  PROVE  /\ [gates EXCEPT ![g] = v] \in Seq(Gate)
         /\ Len([gates EXCEPT ![g] = v]) = Len(gates)
         /\ DOMAIN [gates EXCEPT ![g] = v] = DOMAIN gates
BY ExceptSeq DEF TypeOK

(* The ways the Broker writes a field of a gate.                           *)
LEMMA GateWritten ==
  ASSUME TypeOK, NEW g \in DOMAIN gates, NEW n \in Nat,
         \/ gates' = [gates EXCEPT ![g].emitted = TRUE]
         \/ gates' = [gates EXCEPT ![g].approved = TRUE]
         \/ gates' = [gates EXCEPT ![g].id = n, ![g].approved = FALSE]
  PROVE  gates' \in Seq(Gate) /\ Len(gates') = Len(gates) /\ DOMAIN gates' = DOMAIN gates
<1>1. gates[g] \in Gate
  BY GateType
<1>2. CASE gates' = [gates EXCEPT ![g].emitted = TRUE]
  <2>1. gates' = [gates EXCEPT ![g] = [gates[g] EXCEPT !.emitted = TRUE]]
    BY <1>2
  <2> QED
    BY <1>1, <2>1, GateSet, GateRecord
<1>3. CASE gates' = [gates EXCEPT ![g].approved = TRUE]
  <2>1. gates' = [gates EXCEPT ![g] = [gates[g] EXCEPT !.approved = TRUE]]
    BY <1>3
  <2> QED
    BY <1>1, <2>1, GateSet, GateRecord
<1>4. CASE gates' = [gates EXCEPT ![g].id = n, ![g].approved = FALSE]
  <2>1. gates' = [gates EXCEPT ![g] = [gates[g] EXCEPT !.id = n, !.approved = FALSE]]
    BY <1>4
  <2> QED
    BY <1>1, <2>1, GateSet, GateRecord
<1> QED
  BY <1>2, <1>3, <1>4

LEMMA TypeStep == TypeOK /\ [Next]_vars => TypeOK'
<1> SUFFICES ASSUME TypeOK, [Next]_vars PROVE TypeOK'
  OBVIOUS
<1>1. CASE Shop \/ ShopFails \/ Unreachable \/ Spend \/ PilotRestarts \/ Expire
  BY <1>1 DEF Shop, ShopFails, Unreachable, Spend, PilotRestarts, Expire, broker, history, TypeOK, Post
<1>2. CASE Answered \/ AnsweredForPilot
  <2>1. gates' \in Seq(Gate) /\ Len(gates') = Len(gates) /\ DOMAIN gates' = DOMAIN gates
    BY <1>2, GateWritten DEF Answered, AnsweredForPilot, TypeOK
  <2> QED
    BY <1>2, <2>1 DEF Answered, AnsweredForPilot, history, TypeOK
<1>3. CASE Receive
  BY <1>3 DEF Receive, Take, TypeOK, Post
<1>4. ASSUME NEW plan \in Plans, Shopped(plan) PROVE TypeOK'
  <2>1. [id |-> NewId, plan |-> plan, approved |-> FALSE, emitted |-> FALSE] \in Gate
    BY MintedType DEF Gate
  <2>2. /\ gates' \in Seq(Gate) /\ Len(gates') = Len(gates) + 1
        /\ DOMAIN gates \subseteq DOMAIN gates'
    BY <1>4, <2>1 DEF Shopped, TypeOK
  <2>3. mandates' \in Seq(Mandate) /\ pending' \in Nat /\ pending' <= Len(gates')
    BY <1>4, <2>2, MintedType DEF Shopped, TypeOK
  <2> QED
    BY <1>4, <2>2, <2>3 DEF Shopped, TypeOK, history
<1>5. ASSUME NEW plan \in Plans, Choose(plan) PROVE TypeOK'
  BY <1>5 DEF Choose, history, TypeOK
<1>6. ASSUME NEW c \in choosing, Chosen(c) PROVE TypeOK'
  <2>1. CASE UNCHANGED <<mandates, gates, pending>>
    BY <1>6, <2>1 DEF Chosen, TypeOK, history
  <2>2. CASE /\ mandates' = Minted(c.plan) /\ pending' = c.gate
             /\ gates' = [gates EXCEPT ![c.gate] =
                            [id |-> NewId, plan |-> c.plan, approved |-> FALSE, emitted |-> FALSE]]
    <3>1. c.plan \in Plans /\ c.gate \in DOMAIN gates /\ c.gate \in Nat
      BY DEF TypeOK
    <3>2. [id |-> NewId, plan |-> c.plan, approved |-> FALSE, emitted |-> FALSE] \in Gate
      BY <3>1, MintedType DEF Gate
    <3>3. gates' \in Seq(Gate) /\ Len(gates') = Len(gates) /\ DOMAIN gates' = DOMAIN gates
      BY <2>2, <3>1, <3>2, GateSet
    <3>4. mandates' \in Seq(Mandate) /\ pending' <= Len(gates')
      BY <2>2, <3>1, <3>3, MintedType DEF TypeOK
    <3> QED
      BY <1>6, <2>2, <3>1, <3>3, <3>4 DEF Chosen, TypeOK, history
  <2> QED
    BY <1>6, <2>1, <2>2 DEF Chosen
<1>7. ASSUME NEW id \in Ids, Approve(id) PROVE TypeOK'
  <2>1. pending \in DOMAIN gates
    BY <1>7 DEF Approve, TypeOK
  <2>2. CASE Remint
    <3>1. gates[pending].plan \in Plans
      BY <2>1, GateType DEF Gate
    <3>2. gates' \in Seq(Gate) /\ Len(gates') = Len(gates) /\ DOMAIN gates' = DOMAIN gates
      BY <2>1, <2>2, <3>1, MintedType, GateWritten DEF Remint
    <3>3. mandates' \in Seq(Mandate)
      BY <2>2, <3>1, MintedType DEF Remint
    <3> QED
      BY <1>7, <2>2, <3>2, <3>3 DEF Approve, Remint, TypeOK
  <2>3. CASE Release(id)
    <3>1. gates' \in Seq(Gate) /\ Len(gates') = Len(gates) /\ DOMAIN gates' = DOMAIN gates
      BY <2>1, <2>3, GateWritten DEF Release
    <3>2. mandates' \in Seq(Mandate)
      <4>1. CASE id \in DOMAIN mandates
        <5>1. mandates' = [mandates EXCEPT ![id] = [mandates[id] EXCEPT !.approved = TRUE]]
          BY <2>3 DEF Release
        <5>2. mandates \in Seq(Mandate) /\ id \in 1..Len(mandates)
          BY <4>1 DEF TypeOK
        <5>3. [mandates[id] EXCEPT !.approved = TRUE] \in Mandate
          BY <5>2, ElementOfSeq, MandateRecord
        <5> QED
          BY <5>1, <5>2, <5>3, ExceptSeq
      <4>2. CASE id \notin DOMAIN mandates
        <5>1. mandates = [i \in DOMAIN mandates |-> mandates[i]]
          BY DEF TypeOK
        <5>2. mandates' = [i \in DOMAIN mandates |-> mandates[i]]
          BY <2>3, <4>2, Zenon DEF Release
        <5> QED
          BY <5>1, <5>2 DEF TypeOK
      <4> QED
        BY <4>1, <4>2
    <3>3. post' \in Post /\ post'.gate = pending
      BY <2>3 DEF Release, Post, Ids, TypeOK
    <3> QED
      BY <1>7, <2>1, <2>3, <3>1, <3>2, <3>3 DEF Approve, Release, TypeOK
  <2> QED
    BY <1>7, <2>2, <2>3 DEF Approve
<1>8. ASSUME NEW id \in Ids, ReceiveLate(id) \/ Drop(id) \/ Carry(id) PROVE TypeOK'
  <2>1. id \in Nat
    BY DEF Ids
  <2>2. CASE ReceiveLate(id)
    BY <2>1, <2>2 DEF ReceiveLate, Take, broker, TypeOK
  <2>3. CASE Drop(id)
    BY <2>3 DEF Drop, broker, history, TypeOK
  <2>4. CASE Carry(id)
    BY <2>4 DEF Carry, broker, history, TypeOK
  <2> QED
    BY <1>8, <2>2, <2>3, <2>4
<1>9. CASE UNCHANGED vars
  BY <1>9 DEF vars, broker, history, TypeOK
<1> QED
  BY <1>1, <1>2, <1>3, <1>4, <1>5, <1>6, <1>7, <1>8, <1>9, IntakeAssumption DEF Next

(* The Broker's gates, mandates and delivery, and what the Pilot received, *)
(* are well formed in every behaviour, and no choice or delivery refers to *)
(* a gate that is not there (agent_executor.py).                           *)
THEOREM TypeCorrect == Spec => []TypeOK
BY InitType, TypeStep, PTL DEF Spec

-----------------------------------------------------------------------------
(* Approval is matched on the id.                                          *)

(* A delivery the Broker gave up may still arrive, so what is late must    *)
(* have been approved too.                                                 *)
Approved == late \subseteq consents

LEMMA ReceivedMore ==
  ASSUME TypeOK, NEW id \in Nat, received' = Append(received, id)
  PROVE  ToSet(received') = ToSet(received) \cup {id}
<1>1. /\ DOMAIN received = 1..Len(received) /\ Len(received) \in Nat
      /\ DOMAIN received' = 1..(Len(received) + 1)
      /\ received'[Len(received) + 1] = id
      /\ \A i \in 1..Len(received) : received'[i] = received[i]
  BY DEF TypeOK
<1>2. 1..(Len(received) + 1) = 1..Len(received) \cup {Len(received) + 1}
  BY <1>1
<1>3. \A x : x \in ToSet(received) <=> \E i \in 1..Len(received) : x = received[i]
  BY <1>1 DEF ToSet
<1>4. \A x : x \in ToSet(received') <=> \E i \in 1..(Len(received) + 1) : x = received'[i]
  BY <1>1 DEF ToSet
<1>5. \A x : x \in ToSet(received') <=> x \in ToSet(received) \cup {id}
  BY <1>1, <1>2, <1>3, <1>4
<1> QED
  BY <1>5

(* A mandate that was just minted adds no approval.                        *)
LEMMA MintedUnapproved ==
  ASSUME TypeOK, NEW plan \in Plans, mandates' = Minted(plan), UNCHANGED consents,
         \A id \in DOMAIN mandates : mandates[id].approved => id \in consents
  PROVE  \A id \in DOMAIN mandates' : mandates'[id].approved => id \in consents'
<1>1. mandates' \in Seq(Mandate) /\ Len(mandates') = Len(mandates) + 1 /\ NewId = Len(mandates) + 1
  BY MintedType DEF NewId
<1>2. /\ Len(mandates) \in Nat /\ DOMAIN mandates = 1..Len(mandates)
      /\ DOMAIN mandates' = 1..(Len(mandates) + 1)
  BY <1>1 DEF TypeOK
<1>3. 1..(Len(mandates) + 1) = 1..Len(mandates) \cup {NewId}
  BY <1>1, <1>2
<1> QED
  BY <1>2, <1>3, MintedType

LEMMA ApprovedStep ==
  TypeOK /\ OnlyApprovedIsReleased /\ Approved /\ [Next]_vars => (OnlyApprovedIsReleased /\ Approved)'
<1> SUFFICES ASSUME TypeOK, OnlyApprovedIsReleased, Approved, [Next]_vars
             PROVE  (OnlyApprovedIsReleased /\ Approved)'
  OBVIOUS
<1> USE DEF OnlyApprovedIsReleased, Approved
<1>1. CASE Shop \/ ShopFails \/ Answered \/ AnsweredForPilot \/ Unreachable \/ Spend \/ PilotRestarts \/ Expire
  BY <1>1 DEF Shop, ShopFails, Answered, AnsweredForPilot, Unreachable, Spend, PilotRestarts, Expire,
              broker, history
<1>2. CASE Receive
  BY <1>2, ReceivedMore DEF Receive, Take, TypeOK, Post
<1>3. ASSUME NEW plan \in Plans, Shopped(plan) \/ Choose(plan) PROVE (OnlyApprovedIsReleased /\ Approved)'
  <2>1. CASE Shopped(plan)
    BY <2>1, MintedUnapproved DEF Shopped, history
  <2>2. CASE Choose(plan)
    BY <2>2 DEF Choose, history
  <2> QED
    BY <1>3, <2>1, <2>2
<1>4. ASSUME NEW c \in choosing, Chosen(c) PROVE (OnlyApprovedIsReleased /\ Approved)'
  <2>1. c.plan \in Plans
    BY DEF TypeOK
  <2>2. CASE mandates' = Minted(c.plan)
    BY <1>4, <2>1, <2>2, MintedUnapproved DEF Chosen, history
  <2>3. CASE UNCHANGED mandates
    BY <1>4, <2>3 DEF Chosen, history
  <2> QED
    BY <1>4, <2>2, <2>3 DEF Chosen
<1>5. ASSUME NEW id \in Ids, Approve(id) PROVE (OnlyApprovedIsReleased /\ Approved)'
  <2>1. CASE Remint
    <3>1. gates[pending].plan \in Plans
      BY <1>5, GateType DEF Approve, TypeOK, Gate
    <3> QED
      BY <1>5, <2>1, <3>1, MintedUnapproved DEF Approve, Remint
  <2>2. CASE Release(id)
    BY <1>5, <2>2 DEF Approve, Release, TypeOK, Mandate
  <2> QED
    BY <1>5, <2>1, <2>2 DEF Approve
<1>6. ASSUME NEW id \in Ids, ReceiveLate(id) \/ Drop(id) \/ Carry(id)
      PROVE  (OnlyApprovedIsReleased /\ Approved)'
  BY <1>6, ReceivedMore DEF ReceiveLate, Drop, Carry, Take, broker, history, Ids
<1>7. CASE UNCHANGED vars
  BY <1>7 DEF vars, broker, history
<1> QED
  BY <1>1, <1>2, <1>3, <1>4, <1>5, <1>6, <1>7, IntakeAssumption DEF Next

(* Whatever is shopped, chosen, re-minted or retried in between, the       *)
(* Broker delivers and stamps only mandates whose own id a human approved  *)
(* (approval.py, agent_executor.py:190-250).                               *)
THEOREM ApprovalIsMatched == Spec => []OnlyApprovedIsReleased
<1>1. Init => OnlyApprovedIsReleased /\ Approved
  BY DEF Init, OnlyApprovedIsReleased, Approved, ToSet
<1> QED
  BY <1>1, TypeCorrect, ApprovedStep, PTL DEF Spec

-----------------------------------------------------------------------------
(* A mandate is released once.                                             *)

(* No two gates hold one mandate, and nothing refers to a mandate that is  *)
(* not minted yet.                                                         *)
Fresh ==
  /\ \A g \in DOMAIN gates : gates[g].id <= Len(mandates)
  /\ \A g, h \in DOMAIN gates : gates[g].id = gates[h].id => g = h
  /\ \A id \in ToSet(received) \cup late : id <= Len(mandates)

(* The delivery under way is of the mandate its gate holds.                *)
Delivering ==
  post # None => gates[post.gate].id = post.id /\ ~gates[post.gate].emitted

(* A gate that may still be approved holds a mandate that was not received *)
(* yet, unless the answer is on its way or was given up.                   *)
Releasable ==
  \A g \in DOMAIN gates :
    ~gates[g].emitted /\ gates[g].id \in ToSet(received) =>
      \/ gates[g].id \in unheard
      \/ post # None /\ post.gate = g /\ post.state = "received"

Once == Fresh /\ Delivering /\ Releasable /\ late \subseteq unheard /\ ReleasedOnce

(* What the writes to a gate leave of ids and of what was emitted.         *)
LEMMA GateEffect ==
  ASSUME TypeOK, NEW g \in DOMAIN gates, NEW n \in Nat
  PROVE  /\ gates' = [gates EXCEPT ![g].emitted = TRUE] =>
              /\ \A h \in DOMAIN gates : gates'[h].id = gates[h].id
              /\ \A h \in DOMAIN gates \ {g} : gates'[h].emitted = gates[h].emitted
              /\ gates'[g].emitted
         /\ gates' = [gates EXCEPT ![g].approved = TRUE] =>
              \A h \in DOMAIN gates : /\ gates'[h].id = gates[h].id
                                      /\ gates'[h].emitted = gates[h].emitted
         /\ gates' = [gates EXCEPT ![g].id = n, ![g].approved = FALSE] =>
              /\ gates'[g].id = n
              /\ \A h \in DOMAIN gates \ {g} : gates'[h] = gates[h]
<1>1. \A h \in DOMAIN gates : gates[h] \in Gate
  BY GateType
<1> QED
  BY <1>1 DEF Gate

(* A new mandate in a new gate or in an old one, with no delivery on.      *)
LEMMA MintedOnce ==
  ASSUME TypeOK, TypeOK', Once, NEW g \in DOMAIN gates',
         post = None, UNCHANGED <<post, received, late, unheard>>,
         Len(mandates') = NewId, gates'[g].id = NewId,
         \A h \in DOMAIN gates' \ {g} : h \in DOMAIN gates /\ gates'[h] = gates[h]
  PROVE  Once'
<1>1. Len(mandates) \in Nat /\ NewId = Len(mandates) + 1
  BY DEF TypeOK, NewId
<1>2. /\ \A h \in DOMAIN gates : gates[h].id \in Nat /\ gates[h].id <= Len(mandates)
      /\ \A id \in ToSet(received) \cup late : id \in Nat /\ id <= Len(mandates)
  <2>1. \A h \in DOMAIN gates : gates[h].id \in Nat
    BY GateType DEF Gate
  <2>2. ToSet(received) \subseteq Nat /\ late \subseteq Nat
    BY DEF TypeOK, ToSet
  <2> QED
    BY <2>1, <2>2 DEF Once, Fresh
<1>3. NewId \notin ToSet(received)
  BY <1>1, <1>2
<1>4. Fresh'
  <2>1. \A h \in DOMAIN gates' : gates'[h].id <= Len(mandates')
    BY <1>1, <1>2
  <2>2. \A h, k \in DOMAIN gates' : gates'[h].id = gates'[k].id => h = k
    BY <1>1, <1>2 DEF Once, Fresh
  <2>3. \A id \in (ToSet(received) \cup late)' : id <= Len(mandates')
    BY <1>1, <1>2
  <2> QED
    BY <2>1, <2>2, <2>3 DEF Fresh
<1>5. Releasable'
  BY <1>3 DEF Once, Releasable
<1> QED
  BY <1>4, <1>5 DEF Once, Delivering, ReleasedOnce

(* Another delivery, of a mandate that is new to the Pilot or given up.    *)
LEMMA ReceivedOnce ==
  ASSUME TypeOK, ReleasedOnce, NEW id \in Nat, received' = Append(received, id),
         id \in ToSet(received) => id \in unheard, UNCHANGED unheard
  PROVE  ReleasedOnce'
<1>1. /\ DOMAIN received = 1..Len(received) /\ Len(received) \in Nat
      /\ DOMAIN received' = 1..(Len(received) + 1)
      /\ received'[Len(received) + 1] = id
      /\ \A i \in 1..Len(received) : received'[i] = received[i]
  BY DEF TypeOK
<1>2. \A i \in 1..Len(received) : received[i] = id => id \in unheard
  BY <1>1 DEF ToSet
<1>3. \A i \in 1..(Len(received) + 1) : i \in 1..Len(received) \/ i = Len(received) + 1
  BY <1>1
<1> QED
  BY <1>1, <1>2, <1>3 DEF ReleasedOnce

LEMMA OnceStep == TypeOK /\ TypeOK' /\ Once /\ [Next]_vars => Once'
<1> SUFFICES ASSUME TypeOK, TypeOK', Once, [Next]_vars PROVE Once'
  OBVIOUS
<1>1. CASE Shop \/ ShopFails \/ Spend \/ PilotRestarts \/ Expire
  BY <1>1 DEF Shop, ShopFails, Spend, PilotRestarts, Expire, broker, history, Once, Fresh, Delivering,
              Releasable, ReleasedOnce
<1>2. CASE Unreachable
  <2>1. late' \subseteq late \cup {post.id} /\ unheard' = unheard \cup {post.id} /\ post' = None
    BY <1>2 DEF Unreachable
  <2>2. UNCHANGED <<gates, mandates, received>> /\ post # None
    BY <1>2 DEF Unreachable
  <2>3. post.gate \in DOMAIN gates /\ gates[post.gate].id = post.id
    BY <2>2 DEF Once, Delivering, TypeOK
  <2>4. Fresh'
    BY <2>1, <2>2, <2>3 DEF Once, Fresh
  <2>5. Releasable'
    BY <2>1, <2>2, <2>3 DEF Once, Releasable
  <2> QED
    BY <2>1, <2>2, <2>4, <2>5 DEF Once, Delivering, ReleasedOnce
<1>3. CASE Answered \/ AnsweredForPilot
  <2>1. /\ post # None /\ post' = None /\ gates' = [gates EXCEPT ![post.gate].emitted = TRUE]
        /\ UNCHANGED <<mandates, late, received, unheard>>
    BY <1>3 DEF Answered, AnsweredForPilot, history
  <2>2. post.gate \in DOMAIN gates
    BY <2>1 DEF TypeOK
  <2>3. DOMAIN gates' = DOMAIN gates
    BY <2>1
  <2>4. /\ \A h \in DOMAIN gates : gates'[h].id = gates[h].id
        /\ \A h \in DOMAIN gates \ {post.gate} : gates'[h].emitted = gates[h].emitted
        /\ gates'[post.gate].emitted
    BY <2>1, <2>2, GateEffect
  <2> QED
    BY <2>1, <2>3, <2>4 DEF Once, Fresh, Delivering, Releasable, ReleasedOnce
<1>4. CASE Receive
  <2>1. /\ post # None /\ post.state = "sent" /\ received' = Append(received, post.id)
        /\ post' = [post EXCEPT !.state = "received"]
        /\ UNCHANGED <<gates, mandates, late, unheard>>
    BY <1>4 DEF Receive, Take
  <2>2. post.gate \in DOMAIN gates /\ post.id \in Nat /\ post \in Post
    BY <2>1 DEF TypeOK, Post
  <2>3. gates[post.gate].id = post.id /\ ~gates[post.gate].emitted
    BY <2>1 DEF Once, Delivering
  <2>4. post.id \in ToSet(received) => post.id \in unheard
    BY <2>1, <2>2, <2>3 DEF Once, Releasable
  <2>5. post'.id = post.id /\ post'.gate = post.gate /\ post'.state = "received" /\ post' # None
    BY <2>1, <2>2, IntakeAssumption DEF Post, TypeOK
  <2>6. ToSet(received') = ToSet(received) \cup {post.id}
    BY <2>1, <2>2, ReceivedMore
  <2>7. ReleasedOnce'
    BY <2>1, <2>2, <2>4, ReceivedOnce DEF Once
  <2>8. Fresh'
    <3>1. post.id <= Len(mandates)
      BY <2>2, <2>3 DEF Once, Fresh
    <3> QED
      BY <2>1, <2>6, <3>1 DEF Once, Fresh
  <2>9. Releasable'
    BY <2>1, <2>2, <2>3, <2>5, <2>6 DEF Once, Releasable, Fresh
  <2> QED
    BY <2>1, <2>3, <2>5, <2>7, <2>8, <2>9 DEF Once, Delivering
<1>5. ASSUME NEW plan \in Plans, Shopped(plan) PROVE Once'
  <2>1. /\ gates' = Append(gates, [id |-> NewId, plan |-> plan, approved |-> FALSE, emitted |-> FALSE])
        /\ mandates' = Minted(plan)
        /\ post = None /\ UNCHANGED <<post, received, late, unheard>>
    BY <1>5 DEF Shopped, history
  <2>2. /\ DOMAIN gates = 1..Len(gates) /\ Len(gates) \in Nat
        /\ DOMAIN gates' = 1..(Len(gates) + 1)
        /\ gates'[Len(gates) + 1].id = NewId
        /\ \A h \in 1..Len(gates) : gates'[h] = gates[h]
    BY <2>1 DEF TypeOK
  <2>3. \A h \in DOMAIN gates' \ {Len(gates) + 1} : h \in DOMAIN gates /\ gates'[h] = gates[h]
    BY <2>2
  <2>4. Len(gates) + 1 \in DOMAIN gates' /\ Len(mandates') = NewId
    BY <2>1, <2>2, MintedType
  <2> QED
    BY <2>1, <2>2, <2>3, <2>4, MintedOnce
<1>6. ASSUME NEW plan \in Plans, Choose(plan) PROVE Once'
  BY <1>6 DEF Choose, history, Once, Fresh, Delivering, Releasable, ReleasedOnce
<1>7. ASSUME NEW c \in choosing, Chosen(c) PROVE Once'
  <2>1. c.plan \in Plans /\ c.gate \in DOMAIN gates /\ post = None
        /\ UNCHANGED <<post, received, late, unheard>>
    BY <1>7 DEF Chosen, TypeOK, history
  <2>2. CASE UNCHANGED <<mandates, gates, pending>>
    BY <2>1, <2>2 DEF Once, Fresh, Delivering, Releasable, ReleasedOnce
  <2>3. CASE /\ mandates' = Minted(c.plan)
             /\ gates' = [gates EXCEPT ![c.gate] =
                            [id |-> NewId, plan |-> c.plan, approved |-> FALSE, emitted |-> FALSE]]
    <3>1. /\ DOMAIN gates' = DOMAIN gates /\ gates'[c.gate].id = NewId
          /\ \A h \in DOMAIN gates \ {c.gate} : gates'[h] = gates[h]
      BY <2>1, <2>3
    <3>2. Len(mandates') = NewId
      BY <2>1, <2>3, MintedType
    <3> QED
      BY <2>1, <3>1, <3>2, MintedOnce
  <2> QED
    BY <1>7, <2>2, <2>3 DEF Chosen
<1>8. ASSUME NEW id \in Ids, Approve(id) PROVE Once'
  <2>1. /\ post = None /\ pending \in DOMAIN gates /\ ~gates[pending].emitted
        /\ gates[pending].id = id /\ UNCHANGED <<received, late, unheard>>
    BY <1>8 DEF Approve, TypeOK
  <2>2. CASE Remint
    <3>1. gates[pending].plan \in Plans /\ NewId \in Nat
      BY <2>1, GateType, MintedType DEF Gate
    <3>2. DOMAIN gates' = DOMAIN gates /\ gates'[pending].id = NewId
      BY <2>1, <2>2, <3>1, GateEffect DEF Remint
    <3>3. \A h \in DOMAIN gates \ {pending} : gates'[h] = gates[h]
      BY <2>1, <2>2, <3>1, GateEffect DEF Remint
    <3>4. Len(mandates') = NewId /\ UNCHANGED post
      BY <2>2, <3>1, MintedType DEF Remint
    <3> QED
      BY <2>1, <3>2, <3>3, <3>4, MintedOnce
  <2>3. CASE Release(id)
    <3>1. /\ gates' = [gates EXCEPT ![pending].approved = TRUE]
          /\ post' = [id |-> id, gate |-> pending, state |-> "sent"]
          /\ mandates' = [mandates EXCEPT ![id].approved = TRUE]
      BY <2>3 DEF Release
    <3>2. DOMAIN gates' = DOMAIN gates
      BY <3>1
    <3>3. \A h \in DOMAIN gates : gates'[h].id = gates[h].id /\ gates'[h].emitted = gates[h].emitted
      BY <2>1, <3>1, GateEffect
    <3>4. Len(mandates') = Len(mandates)
      BY <3>1 DEF TypeOK
    <3>5. Fresh'
      BY <2>1, <3>2, <3>3, <3>4 DEF Once, Fresh
    <3>6. Delivering'
      BY <2>1, <3>1, <3>2, <3>3 DEF Delivering
    <3>7. Releasable'
      BY <2>1, <3>2, <3>3 DEF Once, Releasable
    <3> QED
      BY <2>1, <3>5, <3>6, <3>7 DEF Once, ReleasedOnce
  <2> QED
    BY <1>8, <2>2, <2>3 DEF Approve
<1>9. ASSUME NEW id \in Ids, ReceiveLate(id) PROVE Once'
  <2>1. /\ id \in late /\ late' = late \ {id} /\ received' = Append(received, id)
        /\ UNCHANGED <<gates, mandates, post, unheard>>
    BY <1>9 DEF ReceiveLate, Take, broker
  <2>2. id \in unheard /\ id \in Nat
    BY <2>1 DEF Once, TypeOK
  <2>3. ToSet(received') = ToSet(received) \cup {id}
    BY <2>1, <2>2, ReceivedMore
  <2>4. ReleasedOnce'
    BY <2>1, <2>2, ReceivedOnce DEF Once
  <2>5. Fresh' /\ Releasable'
    BY <2>1, <2>2, <2>3 DEF Once, Fresh, Releasable
  <2> QED
    BY <2>1, <2>4, <2>5 DEF Once, Delivering
<1>10. ASSUME NEW id \in Ids, Drop(id) \/ Carry(id) PROVE Once'
  BY <1>10 DEF Drop, Carry, broker, history, Once, Fresh, Delivering, Releasable, ReleasedOnce
<1>11. CASE UNCHANGED vars
  BY <1>11 DEF vars, broker, history, Once, Fresh, Delivering, Releasable, ReleasedOnce
<1> QED
  BY <1>1, <1>2, <1>3, <1>4, <1>5, <1>6, <1>7, <1>8, <1>9, <1>10, <1>11, IntakeAssumption DEF Next

(* However choices, approvals, re-mints and deliveries follow one another, *)
(* and whatever the network does to a delivery, the Pilot gets a mandate   *)
(* a second time only when the Broker gave a delivery of it up             *)
(* (emit.py:70-96, agent_executor.py:225-250).                             *)
THEOREM MandateReleasedOnce == Spec => []ReleasedOnce
<1>1. Init => Once
  BY DEF Init, Once, Fresh, Delivering, Releasable, ReleasedOnce, ToSet
<1>2. Once => ReleasedOnce
  BY DEF Once
<1> QED
  BY <1>1, <1>2, TypeCorrect, OnceStep, PTL DEF Spec

-----------------------------------------------------------------------------
(* What was sent waits at the Pilot.                                       *)

(* A delivered cart waits in the context the Pilot made up for it, which   *)
(* no other cart and no spend mandate ever comes in.                       *)
Waits(id) == id \in strayed \/ \E p \in parked : p.id = id /\ p.context \in 1..Len(received)

Contexts == \A p \in parked : p.context \in 0..Len(received)

Waiting ==
  /\ Contexts
  /\ \A g \in DOMAIN gates : gates[g].emitted => Waits(gates[g].id)
  /\ post # None /\ post.state = "received" => Waits(post.id)

WaitsOn == Contexts' /\ \A id : Waits(id) => Waits(id)'

LEMMA PilotSame ==
  ASSUME Contexts, UNCHANGED <<parked, received>>, strayed \subseteq strayed'
  PROVE  WaitsOn
BY DEF Contexts, WaitsOn, Waits

LEMMA TakeWaits ==
  ASSUME TypeOK, Contexts, NEW id \in Nat, Take(id)
  PROVE  WaitsOn /\ Waits(id)'
<1> DEFINE n == Len(received) + 1
           cart == [context |-> n, id |-> id, lane |-> routeCandidate(mandates[id].plan)]
<1>1. Len(received) \in Nat /\ Len(received') = n
  BY DEF Take, TypeOK
<1>2. CASE Verified(id)
  <2>1. parked' = {p \in parked : p.context # n} \cup {cart} /\ strayed' = strayed
    BY <1>2 DEF Take, HandleCart
  <2>2. cart.context = n /\ cart.id = id
    OBVIOUS
  <2>3. \A p \in parked : p \in parked'
    BY <1>1, <2>1 DEF Contexts
  <2> HIDE DEF cart
  <2>4. Contexts'
    BY <1>1, <2>1, <2>2 DEF Contexts
  <2>5. \A i : Waits(i) => Waits(i)'
    BY <1>1, <2>1, <2>3 DEF Waits
  <2>6. Waits(id)'
    BY <1>1, <2>1, <2>2 DEF Waits
  <2> QED
    BY <2>4, <2>5, <2>6 DEF WaitsOn
<1>3. CASE ~Verified(id)
  <2>1. parked' = parked /\ strayed' = strayed \cup {id}
    BY <1>3 DEF Take, HandleCart
  <2>2. Contexts'
    BY <1>1, <2>1 DEF Contexts
  <2>3. \A i : Waits(i) => Waits(i)'
    BY <1>1, <2>1 DEF Waits
  <2> QED
    BY <2>1, <2>2, <2>3 DEF WaitsOn, Waits
<1> QED
  BY <1>2, <1>3

LEMMA OwnWaits ==
  ASSUME TypeOK, Contexts, UNCHANGED <<received, strayed>>,
         Spend \/ \E id : HandleCart(id, Own)
  PROVE  WaitsOn
<1>1. /\ \A p \in parked : p.context # Own => p \in parked'
      /\ \A p \in parked' : p \in parked \/ p.context = Own
  <2>1. CASE Spend
    BY <2>1 DEF Spend
  <2>2. ASSUME NEW id, HandleCart(id, Own)
        PROVE  /\ \A p \in parked : p.context # Own => p \in parked'
               /\ \A p \in parked' : p \in parked \/ p.context = Own
    <3> DEFINE cart == [context |-> Own, id |-> id, lane |-> routeCandidate(mandates[id].plan)]
    <3>1. parked' = parked \/ parked' = {p \in parked : p.context # Own} \cup {cart}
      BY <2>2 DEF HandleCart
    <3>2. cart.context = Own
      OBVIOUS
    <3> HIDE DEF cart
    <3> QED
      BY <3>1, <3>2
  <2> QED
    BY <2>1, <2>2
<1>2. Len(received) \in Nat /\ Own = 0
  BY DEF TypeOK, Own
<1>3. Contexts'
  BY <1>1, <1>2 DEF Contexts
<1>4. \A i : Waits(i) => Waits(i)'
  BY <1>1, <1>2 DEF Waits
<1> QED
  BY <1>3, <1>4 DEF WaitsOn

LEMMA RestartWaits ==
  ASSUME PilotRestarts
  PROVE  WaitsOn
BY DEF PilotRestarts, WaitsOn, Contexts, Waits

(* The gates and the delivery as they were.                                *)
LEMMA BrokerSame ==
  ASSUME Waiting, WaitsOn, UNCHANGED <<gates, post>>
  PROVE  Waiting'
BY DEF Waiting, WaitsOn

(* A mandate is minted into gate g, or approved there.                     *)
LEMMA GateUnsent ==
  ASSUME Waiting, WaitsOn, NEW g, ~gates'[g].emitted,
         \A h \in DOMAIN gates' \ {g} : h \in DOMAIN gates /\ gates'[h] = gates[h],
         post' = post \/ (post' # None => post'.state = "sent")
  PROVE  Waiting'
BY DEF Waiting, WaitsOn

LEMMA WaitingStep == TypeOK /\ Once /\ Waiting /\ [Next]_vars => Waiting'
<1> SUFFICES ASSUME TypeOK, Once, Waiting, [Next]_vars PROVE Waiting'
  OBVIOUS
<1>1. Contexts
  BY DEF Waiting
<1>2. CASE Shop \/ ShopFails \/ Expire \/ UNCHANGED vars
           \/ (\E plan \in Plans : Choose(plan)) \/ \E id \in Ids : Drop(id)
  BY <1>1, <1>2, PilotSame, BrokerSame DEF Shop, ShopFails, Expire, Choose, Drop, vars, broker, history
<1>3. CASE Spend
  BY <1>1, <1>3, OwnWaits, BrokerSame DEF Spend, broker, history
<1>4. CASE PilotRestarts
  BY <1>4, RestartWaits, BrokerSame DEF PilotRestarts, broker
<1>5. ASSUME NEW id \in Ids, Carry(id) PROVE Waiting'
  BY <1>1, <1>5, OwnWaits, BrokerSame DEF Carry, broker, history
<1>6. ASSUME NEW id \in Ids, ReceiveLate(id) PROVE Waiting'
  <2>1. id \in Nat
    BY <1>6 DEF ReceiveLate, TypeOK
  <2> QED
    BY <1>1, <1>6, <2>1, TakeWaits, BrokerSame DEF ReceiveLate, broker
<1>7. CASE Receive
  <2> PICK i : i = post.id
    OBVIOUS
  <2>1. i \in Nat /\ Take(i) /\ UNCHANGED gates
    BY <1>7 DEF Receive, TypeOK, Post
  <2>2. WaitsOn /\ Waits(i)'
    BY <1>1, <2>1, TakeWaits
  <2>3. post'.id = i
    BY <1>7 DEF Receive, TypeOK, Post
  <2> QED
    BY <2>1, <2>2, <2>3 DEF Waiting, WaitsOn
<1>8. CASE Answered \/ AnsweredForPilot
  <2> PICK i : i = post.id
    OBVIOUS
  <2>1. /\ post # None /\ post' = None /\ gates' = [gates EXCEPT ![post.gate].emitted = TRUE]
        /\ post.gate \in DOMAIN gates /\ gates[post.gate].id = i
    BY <1>8 DEF Answered, AnsweredForPilot, TypeOK, Once, Delivering
  <2>2. WaitsOn
    BY <1>1, <1>8, PilotSame DEF Answered, AnsweredForPilot, history
  <2>3. Waits(i)'
    <3>1. CASE Answered
      BY <2>2, <3>1 DEF Answered, Waiting, WaitsOn
    <3>2. CASE AnsweredForPilot
      BY <3>2 DEF AnsweredForPilot, Waits
    <3> QED
      BY <1>8, <3>1, <3>2
  <2>4. /\ DOMAIN gates' = DOMAIN gates
        /\ \A h \in DOMAIN gates : gates'[h].id = gates[h].id
        /\ \A h \in DOMAIN gates \ {post.gate} : gates'[h].emitted = gates[h].emitted
    BY <2>1, GateEffect
  <2> QED
    BY <2>1, <2>2, <2>3, <2>4 DEF Waiting, WaitsOn
<1>9. CASE Unreachable
  <2>1. post' = None /\ UNCHANGED <<gates, parked, received, strayed>>
    BY <1>9 DEF Unreachable
  <2> QED
    BY <1>1, <2>1, PilotSame DEF Waiting, WaitsOn
<1>10. ASSUME NEW plan \in Plans, Shopped(plan) PROVE Waiting'
  <2>1. /\ gates' = Append(gates, [id |-> NewId, plan |-> plan, approved |-> FALSE, emitted |-> FALSE])
        /\ UNCHANGED <<post, parked, received, strayed>>
    BY <1>10 DEF Shopped, history
  <2>2. /\ DOMAIN gates = 1..Len(gates) /\ Len(gates) \in Nat
        /\ DOMAIN gates' = 1..(Len(gates) + 1)
        /\ ~gates'[Len(gates) + 1].emitted
        /\ \A h \in 1..Len(gates) : gates'[h] = gates[h]
    BY <2>1 DEF TypeOK
  <2>3. \A h \in DOMAIN gates' \ {Len(gates) + 1} : h \in DOMAIN gates /\ gates'[h] = gates[h]
    BY <2>2
  <2> QED
    BY <1>1, <2>1, <2>2, <2>3, PilotSame, GateUnsent
<1>11. ASSUME NEW c \in choosing, Chosen(c) PROVE Waiting'
  <2>1. c.gate \in DOMAIN gates /\ WaitsOn /\ UNCHANGED post
    BY <1>1, <1>11, PilotSame DEF Chosen, TypeOK, history
  <2>2. CASE UNCHANGED gates
    BY <2>1, <2>2, BrokerSame
  <2>3. CASE gates' = [gates EXCEPT ![c.gate] =
                         [id |-> NewId, plan |-> c.plan, approved |-> FALSE, emitted |-> FALSE]]
    <3>1. /\ ~gates'[c.gate].emitted
          /\ \A h \in DOMAIN gates' \ {c.gate} : h \in DOMAIN gates /\ gates'[h] = gates[h]
      BY <2>1, <2>3
    <3> QED
      BY <2>1, <3>1, GateUnsent
  <2> QED
    BY <1>11, <2>2, <2>3 DEF Chosen
<1>12. ASSUME NEW id \in Ids, Approve(id) PROVE Waiting'
  <2>1. pending \in DOMAIN gates /\ ~gates[pending].emitted /\ gates[pending] \in Gate /\ WaitsOn
    BY <1>1, <1>12, PilotSame, GateType DEF Approve, TypeOK
  <2>2. CASE Remint
    <3>1. /\ ~gates'[pending].emitted /\ UNCHANGED post
          /\ \A h \in DOMAIN gates' \ {pending} : h \in DOMAIN gates /\ gates'[h] = gates[h]
      BY <2>1, <2>2 DEF Remint, Gate
    <3> QED
      BY <2>1, <3>1, GateUnsent
  <2>3. CASE Release(id)
    <3>1. /\ ~gates'[pending].emitted /\ post'.state = "sent"
          /\ \A h \in DOMAIN gates' \ {pending} : h \in DOMAIN gates /\ gates'[h] = gates[h]
      BY <2>1, <2>3 DEF Release, Gate
    <3> QED
      BY <2>1, <3>1, GateUnsent
  <2> QED
    BY <1>12, <2>2, <2>3 DEF Approve
<1> QED
  BY <1>2, <1>3, <1>4, <1>5, <1>6, <1>7, <1>8, <1>9, <1>10, <1>11, <1>12, IntakeAssumption DEF Next

(* A mandate the Broker has ticked off as sent waits at the Pilot, however *)
(* deliveries, carried carts and texts that look like a spend mandate      *)
(* follow one another, unless something answered for the Pilot, the Pilot  *)
(* refused it or was restarted (emit.py:77-85, executor.ts:123-132).       *)
THEOREM SentStaysParked == Spec => []SentIsParked
<1>1. Init => Once /\ Waiting
  BY DEF Init, Once, Fresh, Delivering, Releasable, ReleasedOnce, ToSet, Waiting, Contexts
<1>2. Waiting => SentIsParked
  BY DEF Waiting, SentIsParked, Waits
<1> QED
  BY <1>1, <1>2, TypeCorrect, OnceStep, WaitingStep, PTL DEF Spec
=============================================================================
