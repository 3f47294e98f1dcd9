------------------------------- MODULE Intake -------------------------------
(***************************************************************************)
(* How a purchase is handed from the Broker to the Pilot: the Broker's     *)
(* gate of one session (broker/src/agent_executor.py with approval.py,     *)
(* choice.py and emit.py) and the Pilot's intake (pilot/src/agent/         *)
(* executor.ts with cart-mandate.ts and candidates.ts).                    *)
(*                                                                         *)
(* A human shops, chooses a plan and approves a cart mandate by its id;    *)
(* the Broker delivers it over HTTP; the Pilot verifies, routes and parks  *)
(* it, and starts a run only when a spend mandate arrives.  The Broker is  *)
(* one event loop: a handler can be overtaken at its awaits, and while a   *)
(* delivery is under way nothing else of it runs.                          *)
(***************************************************************************)
EXTENDS Integers, Sequences, FiniteSets, SequencesExt

CONSTANTS Plans,     \* what the Broker found: [vendor, pinned, https, inr, amount, currency]
          Winners,   \* those it may rank first, for what the human asks
          Ceiling,   \* ceiling_inr_monthly of the capacity spec
          Secrets,   \* what the Pilot's MANDATE_SIGNING_SECRET may be, beside the Broker's
          None,
          MaxMints, MaxFaults, MaxChoosing  \* bounds

ASSUME IntakeAssumption ==
  /\ Winners \subseteq Plans
  /\ Secrets \subseteq {"same", "other", "unset"}
  /\ {MaxMints, MaxFaults, MaxChoosing} \subseteq Nat
  /\ None \notin [id : Nat, gate : Nat, state : {"sent", "received"}]

VARIABLES gates,     \* the gate objects of the session: which mandate each holds
          pending,   \* the one that is parked, 0 before the first shopping
          mandates,  \* the mandates minted, by id: plan, and approval.status
          dead,      \* ids 1..dead have expired
          shopping,  \* a pipeline is running
          choosing,  \* the choices that await: the gate they read, and the plan
          post,      \* the delivery under way, and what the Pilot has done with it
          late,      \* deliveries the Broker has given up and the network has not
          secret,    \* the Pilot's signing secret
          parked,    \* the Pilot's parked carts: context, id, lane
          consents,  \* history: ids a human approved, with the gate holding them at that time
          received,  \* history: ids the Pilot took from the Broker, one entry per delivery
          unheard,   \* history: ids with a delivery the Broker gave up
          strayed,   \* history: ids that something before the Pilot answered for, that the
                     \* Pilot refused, or that it had parked when it was restarted
          faults

broker  == <<gates, pending, mandates, shopping, choosing, post>>
history == <<consents, received, unheard, strayed>>
vars == <<broker, dead, late, secret, parked, history, faults>>

Ids == 1..MaxMints
Own == 0      \* the context of the human's session with the Pilot

Init ==
  /\ gates = <<>> /\ pending = 0 /\ mandates = <<>> /\ dead = 0
  /\ shopping = FALSE /\ choosing = {} /\ post = None /\ late = {}
  /\ secret \in Secrets
  /\ parked = {}
  /\ consents = {} /\ received = <<>> /\ unheard = {} /\ strayed = {}
  /\ faults = 0

Expired(id) == id <= dead

-----------------------------------------------------------------------------
(* The Broker.                                                             *)

(* mint_mandate: a new id, not approved; refused over the ceiling.         *)
Mints(plan) == plan.inr <= Ceiling /\ Len(mandates) < MaxMints
NewId == Len(mandates) + 1
Minted(plan) == Append(mandates, [plan |-> plan, approved |-> FALSE])

Shop ==
  /\ post = None /\ ~shopping /\ shopping' = TRUE
  /\ UNCHANGED <<gates, pending, mandates, choosing, post, dead, late, secret, parked, history, faults>>

(* The pipeline runs in a thread; its result is parked when it is awaited, *)
(* in place of whatever is parked by then.                                 *)
Shopped(plan) ==
  /\ post = None /\ shopping /\ Mints(plan)
  /\ mandates' = Minted(plan)
  /\ gates' = Append(gates, [id |-> NewId, plan |-> plan, approved |-> FALSE, emitted |-> FALSE])
  /\ pending' = Len(gates) + 1 /\ shopping' = FALSE
  /\ UNCHANGED <<choosing, post, dead, late, secret, parked, history, faults>>

(* Nothing was found, or nothing under the ceiling: the gate stays.        *)
ShopFails ==
  /\ post = None /\ shopping /\ shopping' = FALSE
  /\ UNCHANGED <<gates, pending, mandates, choosing, post, dead, late, secret, parked, history, faults>>

(* CHOOSE: the parked gate is read, and a status update is awaited.        *)
Choose(plan) ==
  /\ post = None /\ pending # 0 /\ Cardinality(choosing) < MaxChoosing
  /\ choosing' = choosing \cup {[gate |-> pending, plan |-> plan]}
  /\ UNCHANGED <<gates, pending, mandates, shopping, post, dead, late, secret, parked, history, faults>>

(* apply_choice: the gate read before the await holds a new mandate, and   *)
(* is the parked one again.                                                *)
Chosen(c) ==
  /\ post = None /\ c \in choosing /\ choosing' = choosing \ {c}
  /\ \/ /\ Mints(c.plan)
        /\ mandates' = Minted(c.plan)
        /\ gates' = [gates EXCEPT ![c.gate] =
                       [id |-> NewId, plan |-> c.plan, approved |-> FALSE, emitted |-> FALSE]]
        /\ pending' = c.gate
     \/ c.plan.inr > Ceiling /\ UNCHANGED <<mandates, gates, pending>>
  /\ UNCHANGED <<shopping, post, dead, late, secret, parked, history, faults>>

(* evaluate_approval on an expired mandate: a new one, never an extension. *)
Remint ==
  /\ Mints(gates[pending].plan)
  /\ mandates' = Minted(gates[pending].plan)
  /\ gates' = [gates EXCEPT ![pending].id = NewId, ![pending].approved = FALSE]
  /\ UNCHANGED <<post, consents>>

(* The approval is recorded, and the mandate is sent to the Pilot.         *)
Release(id) ==
  /\ mandates' = [mandates EXCEPT ![id].approved = TRUE]
  /\ gates' = [gates EXCEPT ![pending].approved = TRUE]
  /\ consents' = consents \cup {id}
  /\ post' = [id |-> id, gate |-> pending, state |-> "sent"]

(* Slip: an approval of any mandate releases the one on the card.          *)
ApproveAny(id) ==
  /\ post = None /\ pending # 0 /\ id \in DOMAIN mandates
  /\ ~gates[pending].emitted
  /\ \/ Expired(gates[pending].id) /\ Remint
     \/ /\ ~Expired(gates[pending].id)
        /\ mandates' = [mandates EXCEPT ![gates[pending].id].approved = TRUE]
        /\ gates' = [gates EXCEPT ![pending].approved = TRUE]
        /\ consents' = consents \cup {id}
        /\ post' = [id |-> gates[pending].id, gate |-> pending, state |-> "sent"]
  /\ UNCHANGED <<pending, shopping, choosing, dead, late, secret, parked, received, unheard, strayed, faults>>

(* APPROVE <id>: there is no await between the id being matched and the    *)
(* delivery.  Any other id, and any id already released, changes nothing.  *)
Approve(id) ==
  /\ post = None /\ pending # 0
  /\ gates[pending].id = id /\ ~gates[pending].emitted
  /\ \/ Expired(id) /\ Remint
     \/ ~Expired(id) /\ Release(id)
  /\ UNCHANGED <<pending, shopping, choosing, dead, late, secret, parked, received, unheard, strayed, faults>>

(* Slip: the gate is not told that its mandate is gone.                    *)
AnsweredForgets ==
  /\ post # None /\ post.state = "received"
  /\ post' = None
  /\ UNCHANGED <<gates, pending, mandates, shopping, choosing, dead, late, secret, parked, history, faults>>

(* Any answer with an HTTP status counts as sent: the Pilot's, a refusal   *)
(* of the cart included, or an error of something before it.  The stub of  *)
(* an unset PILOT_A2A_URL counts as sent too.                              *)
Answered ==
  /\ post # None /\ post.state = "received"
  /\ gates' = [gates EXCEPT ![post.gate].emitted = TRUE] /\ post' = None
  /\ UNCHANGED <<pending, mandates, shopping, choosing, dead, late, secret, parked, history, faults>>

AnsweredForPilot ==
  /\ post # None /\ post.state = "sent" /\ faults < MaxFaults /\ faults' = faults + 1
  /\ gates' = [gates EXCEPT ![post.gate].emitted = TRUE] /\ post' = None
  /\ strayed' = strayed \cup {post.id}
  /\ UNCHANGED <<pending, mandates, shopping, choosing, dead, late, secret, parked, consents, received, unheard>>

(* Slip: a delivery that failed counts as sent.                            *)
UnreachableCountsAsSent ==
  /\ post # None /\ faults < MaxFaults /\ faults' = faults + 1
  /\ late' = IF post.state = "sent" THEN late \cup {post.id} ELSE late
  /\ gates' = [gates EXCEPT ![post.gate].emitted = TRUE]
  /\ unheard' = unheard \cup {post.id} /\ post' = None
  /\ UNCHANGED <<pending, mandates, shopping, choosing, dead, secret, parked, consents, received, strayed>>

(* UNREACHABLE: the gate stays as it is, and the human may approve again.  *)
Unreachable ==
  /\ post # None /\ faults < MaxFaults /\ faults' = faults + 1
  /\ late' = IF post.state = "sent" THEN late \cup {post.id} ELSE late
  /\ unheard' = unheard \cup {post.id} /\ post' = None
  /\ UNCHANGED <<gates, pending, mandates, shopping, choosing, dead, secret, parked, consents, received, strayed>>

-----------------------------------------------------------------------------
(* The Pilot.                                                              *)

(* verifyCartMandate: key, signature, price and ceiling, expiry.  What is  *)
(* signed leaves approval out, and its status is not asked for.            *)
Verified(id) == secret = "same" /\ mandates[id].plan.inr <= Ceiling /\ ~Expired(id)

(* candidateFromCart, in cents of a US dollar.                             *)
MonthlyUsd(plan) ==
  CASE plan.currency = "INR" -> (plan.inr * 100) \div 83
    [] plan.currency = "EUR" -> (plan.amount * 11) \div 10
    [] OTHER                 -> plan.amount

SanityMin == 100
SanityMax == 50000

routeCandidate(plan) ==
  IF ~plan.safe \/ ~plan.https \/ MonthlyUsd(plan) \notin SanityMin..SanityMax THEN "unsupported"
  ELSE IF plan.vendor = "hetzner" /\ plan.pinned THEN "automated"
  ELSE "handoff"

(* handleCart: a cart that verifies is parked under its context, approved  *)
(* or not; a refusal changes nothing.                                      *)
HandleCart(id, context) ==
  parked' = IF Verified(id)
            THEN {p \in parked : p.context # context} \cup
                   {[context |-> context, id |-> id, lane |-> routeCandidate(mandates[id].plan)]}
            ELSE parked

(* A delivery of the Broker names no context: the Pilot makes one up.      *)
Take(id) ==
  /\ HandleCart(id, Len(received) + 1)
  /\ received' = Append(received, id)
  /\ strayed' = IF Verified(id) THEN strayed ELSE strayed \cup {id}

Receive ==
  /\ post # None /\ post.state = "sent"
  /\ Take(post.id) /\ post' = [post EXCEPT !.state = "received"]
  /\ UNCHANGED <<gates, pending, mandates, shopping, choosing, dead, late, secret, consents, unheard, faults>>

ReceiveLate(id) ==
  /\ id \in late /\ late' = late \ {id} /\ Take(id)
  /\ UNCHANGED <<broker, dead, secret, consents, unheard, faults>>

Drop(id) ==
  /\ id \in late /\ late' = late \ {id}
  /\ UNCHANGED <<broker, dead, secret, parked, history, faults>>

(* Whoever carries the published cart to the Pilot does so in a context of *)
(* his own.                                                                *)
Carry(id) ==
  /\ id \in DOMAIN mandates /\ HandleCart(id, Own)
  /\ UNCHANGED <<broker, dead, late, secret, history, faults>>

(* A text that looks like a spend mandate unparks the cart of its context, *)
(* before it is known whether it is one; the run it starts is not told     *)
(* which cart that was.                                                    *)
Spend ==
  /\ parked' = {p \in parked : p.context # Own}
  /\ UNCHANGED <<broker, dead, late, secret, history, faults>>

(* The parked carts live in memory.                                        *)
PilotRestarts ==
  /\ faults < MaxFaults /\ faults' = faults + 1
  /\ parked' = {} /\ strayed' = strayed \cup {p.id : p \in parked}
  /\ UNCHANGED <<broker, dead, late, secret, consents, received, unheard>>

Expire ==
  /\ dead < Len(mandates) /\ dead' = dead + 1
  /\ UNCHANGED <<broker, late, secret, parked, history, faults>>

Next ==
  \/ Shop \/ ShopFails
  \/ \E plan \in Winners : Shopped(plan)
  \/ \E plan \in Plans : Choose(plan)
  \/ \E c \in choosing : Chosen(c)
  \/ \E id \in Ids : Approve(id) \/ ReceiveLate(id) \/ Drop(id) \/ Carry(id)
  \/ Answered \/ AnsweredForPilot \/ Unreachable \/ Receive
  \/ Spend \/ PilotRestarts \/ Expire

Spec == Init /\ [][Next]_vars

-----------------------------------------------------------------------------
(* Correctness.                                                            *)

(* Approval is matched on the id: whatever is shopped, chosen, re-minted   *)
(* or retried in between, the Broker delivers only mandates whose own id a *)
(* human has approved, and stamps no other.                                *)
OnlyApprovedIsReleased ==
  /\ ToSet(received) \cup (IF post = None THEN {} ELSE {post.id}) \subseteq consents
  /\ \A id \in DOMAIN mandates : mandates[id].approved => id \in consents

(* A mandate reaches the Pilot once, unless the Broker gave a delivery of  *)
(* it up.                                                                  *)
ReleasedOnce ==
  \A i, j \in DOMAIN received : i # j /\ received[i] = received[j] => received[i] \in unheard

(* What the Broker has ticked off as sent waits at the Pilot: not a text   *)
(* that merely looks like a spend mandate, nor a cart carried there by     *)
(* hand, nor another delivery takes it away; only what was answered for    *)
(* the Pilot, what the Pilot refused and what a restart forgot is lost.    *)
SentIsParked ==
  \A g \in DOMAIN gates : gates[g].emitted =>
    gates[g].id \in {p.id : p \in parked} \cup strayed

(* "Not released.  Leave it parked so the human can retry"                 *)
(* (agent_executor.py:237): what is released has reached the Pilot.  Not   *)
(* so behind a proxy that answers with an error page (MCIntake_proxy.cfg). *)
ReleasedIsReceived ==
  \A g \in DOMAIN gates : gates[g].emitted => gates[g].id \in ToSet(received)

=============================================================================
