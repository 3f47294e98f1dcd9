------------------------------ MODULE IsrCache ------------------------------
(***************************************************************************)
(* The ISR cache that Porter puts beside a self-hosted Next.js app         *)
(* (porter/templates/cache/cache-handler.cjs): replicas of the app share   *)
(* one Redis, which holds the rendered page and, per tag, when the tag was *)
(* last revalidated.  Nothing deletes a revalidated page: every read       *)
(* compares the page's lastModified with the stamps of its tags.           *)
(*                                                                         *)
(* One page.  A call is one call of the handler, or the render between a   *)
(* miss and its set; each await is a step of its own.                      *)
(***************************************************************************)
EXTENDS Integers, FiniteSets, FiniteSetsExt

CONSTANTS Replicas,     \* the processes of the app, each with one client
          Calls,        \* the calls that may be under way at one time
          CtxTags, DataTags, HeaderTags,  \* where the tags of the page come from
          SoftTags,     \* the implicit tags Next.js passes on a read
          NoEntry,
          Skew,         \* how far the clock of each replica is ahead of true time
          MaxTime, MaxOutages  \* bounds

Tags == CtxTags \cup DataTags \cup HeaderTags \cup SoftTags

ASSUME IsrAssumption ==
  /\ Tags # {} /\ IsFiniteSet(Tags) /\ IsFiniteSet(Replicas)
  /\ Skew \in [Replicas -> Nat] /\ {MaxTime, MaxOutages} \subseteq Nat

VARIABLES up, entry, stamp,   \* Redis: reachable; the page; when each tag was revalidated
          client, failed,     \* per replica: the connection, and its 5 s back-off
          call,               \* per call: what it does, what it has learned, and whether the
                              \* connection it holds has been told to quit
          now,                \* true time
          last,               \* history: per tag, when its last revalidation was called that
                              \* overlapped with no other
          outages

redis == <<up, entry, stamp>>
conns == <<client, failed>>
vars  == <<redis, conns, call, now, last, outages>>

Idle == [pc |-> "idle", on |-> NoEntry, quits |-> FALSE, got |-> NoEntry, tag |-> NoEntry,
         stamp |-> 0, since |-> 0]

Init ==
  /\ up \in BOOLEAN /\ outages = (IF up THEN 0 ELSE 1)
  /\ entry = NoEntry /\ stamp = [t \in Tags |-> 0]
  /\ client = [r \in Replicas |-> "none"] /\ failed = [r \in Replicas |-> FALSE]
  /\ call = [c \in Calls |-> Idle]
  /\ now = 1
  /\ last = [t \in Tags |-> 0]

At(c, pc) == call[c].pc = pc
Onto(i, pc) == IF pc = "idle" THEN Idle ELSE [i EXCEPT !.pc = pc]
Goto(c, pc) == call' = [call EXCEPT ![c] = Onto(call[c], pc)]
Ends(c) == call' = [call EXCEPT ![c] = Idle]
Clock(c) == now + Skew[call[c].on]

-----------------------------------------------------------------------------
(* getClient().                                                            *)

(* What a call awaits first, and where it goes with a client or without.   *)
Waits == [get |-> "joinGet", set |-> "joinSet", revalidate |-> "joinRevalidate"]
With  == [joinGet |-> "entry", joinSet |-> "stampSet", joinRevalidate |-> "stampTag"]
Without == [joinGet |-> "set", joinSet |-> "idle", joinRevalidate |-> "idle"]
Asking == DOMAIN Waits
Joined == DOMAIN With

(* Every call that awaits r's connection goes on when the attempt ends.    *)
Resolve(r, next) ==
  call' = [c \in Calls |->
             IF call[c].on = r /\ call[c].pc \in Joined
             THEN Onto(call[c], next[call[c].pc])
             ELSE call[c]]

ClientOpen(c) ==
  /\ client[call[c].on] = "open"
  /\ Goto(c, With[Waits[call[c].pc]])
  /\ UNCHANGED conns

(* A failed connect is not repeated for 5 s: the call does without.        *)
ClientBacksOff(c) ==
  /\ client[call[c].on] = "none" /\ failed[call[c].on]
  /\ Goto(c, Without[Waits[call[c].pc]])
  /\ UNCHANGED conns

(* The first call connects, the others await the same attempt.             *)
ClientConnects(c) ==
  /\ client[call[c].on] # "open"
  /\ client[call[c].on] = "none" => ~failed[call[c].on]
  /\ client' = [client EXCEPT ![call[c].on] = "connecting"]
  /\ Goto(c, Waits[call[c].pc])
  /\ UNCHANGED failed

GetClient(c) ==
  /\ call[c].pc \in Asking
  /\ ClientOpen(c) \/ ClientBacksOff(c) \/ ClientConnects(c)
  /\ UNCHANGED <<redis, now, last, outages>>

Connected(r) ==
  /\ client[r] = "connecting" /\ up
  /\ client' = [client EXCEPT ![r] = "open"] /\ failed' = [failed EXCEPT ![r] = FALSE]
  /\ Resolve(r, With)
  /\ UNCHANGED <<redis, now, last, outages>>

ConnectFails(r) ==
  /\ client[r] = "connecting" /\ ~up
  /\ client' = [client EXCEPT ![r] = "none"] /\ failed' = [failed EXCEPT ![r] = TRUE]
  /\ Resolve(r, Without)
  /\ UNCHANGED <<redis, now, last, outages>>

(* Slip: a failed connect is remembered for ever.                          *)
BackoffForever(r) == FALSE /\ UNCHANGED vars

BackoffOver(r) ==
  /\ failed[r] /\ failed' = [failed EXCEPT ![r] = FALSE]
  /\ UNCHANGED <<redis, client, call, now, last, outages>>

(* disconnect(), the shutdown hook, may be called at any time.  The        *)
(* connection is forgotten and told to quit; the calls that hold it go on, *)
(* and an attempt to connect that is under way will still be kept.         *)
Holds(c) == call[c].pc \in {"entry", "stamps", "stampSet", "store", "stampTag", "hset"}

Disconnect(r) ==
  /\ outages < MaxOutages /\ outages' = outages + 1
  /\ client' = [client EXCEPT ![r] = IF @ = "open" THEN "none" ELSE @]
  /\ failed' = [failed EXCEPT ![r] = FALSE]
  /\ call' = [c \in Calls |-> IF call[c].on = r /\ Holds(c) THEN [call[c] EXCEPT !.quits = TRUE]
                              ELSE call[c]]
  /\ UNCHANGED <<redis, now, last>>

(* A command fails without Redis, and it may fail on a connection that has *)
(* been told to quit.                                                      *)
MayFail(c) == ~up \/ call[c].quits

-----------------------------------------------------------------------------
(* get: the page, then the stamps of its tags; any error is a miss.        *)

Get(c, r) ==
  /\ At(c, "idle")
  /\ call' = [call EXCEPT ![c] = [Idle EXCEPT !.pc = "get", !.on = r,
                                              !.since = Max({last[t] : t \in Tags})]]
  /\ UNCHANGED <<redis, conns, now, last, outages>>

Miss(c) == call' = [call EXCEPT ![c] = [Idle EXCEPT !.pc = "set", !.on = call[c].on]]

ReadEntry(c) ==
  /\ At(c, "entry")
  /\ \/ up /\ entry # NoEntry /\ call' = [call EXCEPT ![c].pc = "stamps", ![c].got = entry]
     \/ (MayFail(c) \/ entry = NoEntry) /\ Miss(c)
  /\ UNCHANGED <<redis, conns, now, last, outages>>

(* An entry written before a stamp of one of its tags is a miss; any other *)
(* is served, and the call ends.                                           *)
Revalidated(e) == \E t \in e.tags \cup SoftTags : stamp[t] > e.lastModified

ReadStamps(c) ==
  /\ At(c, "stamps")
  /\ \/ up /\ ~Revalidated(call[c].got) /\ Ends(c)
     \/ (MayFail(c) \/ Revalidated(call[c].got)) /\ Miss(c)
  /\ UNCHANGED <<redis, conns, now, last, outages>>

-----------------------------------------------------------------------------
(* set: what a render made, stamped with the time of the store.            *)

(* Slip: only ctx.tags, where pages have none.                             *)
TagsOfContext == CtxTags

TagsOf == CtxTags \cup DataTags \cup HeaderTags

(* Next.js renders after a miss, or on its own once the page's soft TTL is *)
(* over, for as long as it takes, and then calls set.                      *)
Refresh(c, r) ==
  /\ At(c, "idle")
  /\ call' = [call EXCEPT ![c] = [Idle EXCEPT !.pc = "set", !.on = r]]
  /\ UNCHANGED <<redis, conns, now, last, outages>>

StampEntry(c) ==
  /\ At(c, "stampSet")
  /\ call' = [call EXCEPT ![c].pc = "store",
                          ![c].got = [lastModified |-> Clock(c), tags |-> TagsOf]]
  /\ UNCHANGED <<redis, conns, now, last, outages>>

Store(c) ==
  /\ At(c, "store")
  /\ \/ up /\ entry' = call[c].got
     \/ MayFail(c) /\ UNCHANGED entry
  /\ Ends(c)
  /\ UNCHANGED <<up, stamp, conns, now, last, outages>>

(* Next.js passes null to delete the page.                                 *)
Delete(c) ==
  /\ At(c, "stampSet")
  /\ \/ up /\ entry' = NoEntry
     \/ MayFail(c) /\ UNCHANGED entry
  /\ Ends(c)
  /\ UNCHANGED <<up, stamp, conns, now, last, outages>>

-----------------------------------------------------------------------------
(* revalidateTag, called by the app when it has changed what pages show.   *)

Revalidate(c, r, t) ==
  /\ At(c, "idle")
  /\ call' = [call EXCEPT ![c] = [Idle EXCEPT !.pc = "revalidate", !.on = r, !.tag = t]]
  /\ UNCHANGED <<redis, conns, now, last, outages>>

StampTag(c) ==
  /\ At(c, "stampTag")
  /\ call' = [call EXCEPT ![c].pc = "hset", ![c].stamp = Clock(c), ![c].since = now]
  /\ UNCHANGED <<redis, conns, now, last, outages>>

(* History: a call for the same tag has taken its time and not arrived.    *)
Overlapped(c) == \E d \in Calls \ {c} : At(d, "hset") /\ call[d].tag = call[c].tag

(* One hash for all replicas; the last hset to arrive wins.  Without Redis *)
(* the invalidation is lost.                                               *)
SetStamp(c) ==
  /\ At(c, "hset")
  /\ \/ /\ up
        /\ stamp' = [stamp EXCEPT ![call[c].tag] = call[c].stamp]
        /\ \/ Overlapped(c) /\ UNCHANGED last
           \/ ~Overlapped(c) /\ last' = [last EXCEPT ![call[c].tag] = call[c].since]
     \/ MayFail(c) /\ UNCHANGED <<stamp, last>>
  /\ Ends(c)
  /\ UNCHANGED <<up, entry, conns, now, outages>>

-----------------------------------------------------------------------------
(* Time and Redis.                                                         *)

Tick == now < MaxTime /\ now' = now + 1 /\ UNCHANGED <<redis, conns, call, last, outages>>

(* The hard TTL of the page ends.                                          *)
Expire ==
  /\ up /\ entry # NoEntry /\ entry' = NoEntry
  /\ UNCHANGED <<up, stamp, conns, call, now, last, outages>>

Outage ==
  /\ up /\ outages < MaxOutages /\ up' = FALSE /\ outages' = outages + 1
  /\ UNCHANGED <<entry, stamp, conns, call, now, last>>

Recover == ~up /\ up' = TRUE /\ UNCHANGED <<entry, stamp, conns, call, now, last, outages>>

Advance(c) ==
  \/ GetClient(c) \/ ReadEntry(c) \/ ReadStamps(c)
  \/ StampEntry(c) \/ Store(c) \/ Delete(c) \/ StampTag(c) \/ SetStamp(c)

Next ==
  \/ \E c \in Calls : \/ Advance(c)
                      \/ \E r \in Replicas : Get(c, r) \/ Refresh(c, r) \/ \E t \in Tags : Revalidate(c, r, t)
  \/ \E r \in Replicas : Connected(r) \/ ConnectFails(r) \/ BackoffOver(r) \/ Disconnect(r)
  \/ Tick \/ Expire \/ Outage \/ Recover

(* The event loop takes every call on from its await; an attempt to        *)
(* connect ends, by a failure after 3 s if in no other way, and so do the  *)
(* 5 s after it (never both at one time).  Nobody owes a call, and Redis   *)
(* need not come back.                                                     *)
Fairness ==
  /\ \A c \in Calls : WF_vars(Advance(c))
  /\ \A r \in Replicas : WF_vars(Connected(r) \/ ConnectFails(r) \/ BackoffOver(r))

Spec == Init /\ [][Next]_vars
FairSpec == Spec /\ Fairness

-----------------------------------------------------------------------------
(* Correctness.                                                            *)

(* The page c has read was stored no earlier than the invalidation c knows *)
(* of was called, by the clock of some replica.                            *)
StoredSince(c) == \E r \in Replicas : call[c].got.lastModified >= call[c].since + Skew[r]

(* One call invalidates everywhere: a page stored before revalidateTag was *)
(* called is not served by any replica to a request that begins after the  *)
(* stamp is set, whatever was read, rendered or stored in between.  Before *)
(* is what the clock of the replica that stored it says, held against the  *)
(* clock that showed the earliest time of the call: a replica whose clock  *)
(* is ahead hides no more than that.  (Of two calls for one tag that       *)
(* overlap, the last hset to arrive may bring the earlier time.)           *)
StoredBeforeIsGone ==
  [][\A c \in Calls : At(c, "stamps") /\ At(c, "idle")' => StoredSince(c)]_vars

(* A failed connect is retried, not remembered for ever: once Redis is     *)
(* reachable for good, a replica that keeps being called has a connection  *)
(* again, whatever failed before and whoever called disconnect.            *)
ConnectIsRetried ==
  \A r \in Replicas :
    <>[]up /\ []<>(\E c \in Calls : call[c].pc \in Asking /\ call[c].on = r) => []<>(client[r] = "open")

=============================================================================
