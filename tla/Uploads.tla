------------------------------ MODULE Uploads -------------------------------
(***************************************************************************)
(* Browser uploads of a ported app: the two halves of the upload protocol  *)
(* (porter/templates/storage/client.ts and handle-upload.ts) over the      *)
(* bucket of storage/index.ts. A browser asks the app for a grant, puts    *)
(* the bytes into the bucket itself, and then reports the completion; each *)
(* of the three calls may be lost on its way there or back, the URL may    *)
(* run out, and the tab may close at any moment. A page that has a grant   *)
(* may also call the route itself: the report's key and payload are what   *)
(* it sends, and nothing asks the bucket. (So are the blob's url and type, *)
(* which no signature covers; the app's records are kept by key.)          *)
(*                                                                         *)
(* The app around the shims is the one client.ts:24-29 speaks of: its      *)
(* onUploadCompleted keeps a record of every upload - in the KV shim       *)
(* (module Kv) - and a sweep over list() adds what was not reported. It    *)
(* also deletes, copies and puts objects on the server.                    *)
(***************************************************************************)
EXTENDS Naturals, FiniteSets, Kv

CONSTANTS
    Uploads,        \* calls of upload(), as naturals from 1
    Pathname,       \* what each caller names its file
    Payloads,       \* clientPayload and tokenPayload values: strings, and null
    ClientPayload,  \* what each caller sends along
    PageSize,       \* options.limit of list()
    MaxServerOps    \* bound: deletions, copies and puts by the app's server

ASSUME UploadsAssumption ==
    /\ Uploads \subseteq Nat \ {0} /\ Pathname \in [Uploads -> {"a", "/a", "b"}]
    /\ ClientPayload \in [Uploads -> Payloads]
    /\ \A p \in Payloads : p = Null \/ p = Value(p.text, TRUE)
    /\ Null.text \in JsonTexts
    /\ PageSize \in Nat /\ MaxServerOps \in Nat

VARIABLES
    up,         \* each upload: where its code is, what it asked and was granted
    putting,    \* PUT requests on their way to the bucket
    reporting,  \* completion reports on their way to the app
    objects,    \* the bucket: key -> who wrote the object
    db,         \* the app's records: key -> payload, through the KV shim
    sweep,      \* the sweep over list(): its cursor, and what it owes
    reported,   \* history: the keys onUploadCompleted recorded
    claimed,    \* history: those of them that a page reported by itself
    ops

vars == <<up, putting, reporting, objects, db, sweep, reported, claimed, ops>>

-----------------------------------------------------------------------------
\* normalizePathname: "/a" and "a" are one path. Keys are numbers, in the
\* order list() returns them; a random suffix makes a key of one's own.
normalizePathname(pathname) == CASE pathname \in {"a", "/a"} -> 1 [] pathname = "b" -> 2
withRandomSuffix(base, u) == base * 10 + u
Key(pathname, suffix, u) ==
    LET base == normalizePathname(pathname)
    IN  IF suffix THEN withRandomSuffix(base, u) ELSE base * 10
Server == 0
Keys == {b * 10 + u : b \in 1..2, u \in Uploads \cup {Server}}

\* The completion token is an HMAC over the key and the payload the
\* authorisation returned; no payload is signed as the empty one.
SignedText(payload) == IF payload = Null THEN "" ELSE payload.text
signCompletion(key, payload) == <<key, SignedText(payload)>>

\* Slip: only the key is compared.
verifyKeyOnly(token, key, payload) == token[1] = key
verifyCompletion(token, key, payload) == token = signCompletion(key, payload)

NoGrant == <<0, "">>
Goto(u, pc) == up' = [up EXCEPT ![u].pc = pc]
Swept == "swept"

-----------------------------------------------------------------------------
\* upload() asks for a grant. The app's onBeforeGenerateToken decides: it may
\* refuse, and it names the payload to sign and whether to add a suffix.
Grant(u, tokenPayload, suffix) ==
    /\ up[u].pc = "asking"
    /\ LET key == Key(Pathname[u], suffix, u)
       IN  up' = [up EXCEPT ![u].pc = "granted", ![u].key = key,
                            ![u].token = signCompletion(key, tokenPayload)]
    /\ UNCHANGED <<putting, reporting, objects, db, sweep, reported, claimed, ops>>

\* Not allowed, too large, or an answer that never came: upload() throws.
Refuse(u) ==
    /\ up[u].pc = "asking"
    /\ Goto(u, "over")
    /\ UNCHANGED <<putting, reporting, objects, db, sweep, reported, claimed, ops>>

\* putWithProgress() sends the bytes to the presigned URL.
Put(u) ==
    /\ up[u].pc = "granted"
    /\ Goto(u, "putting")
    /\ putting' = putting \cup {u}
    /\ UNCHANGED <<reporting, objects, db, sweep, reported, claimed, ops>>

\* The bucket takes the object; the answer is on its way.
Stored(u) ==
    /\ u \in putting
    /\ putting' = putting \ {u}
    /\ objects' = With(objects, up[u].key, u)
    /\ up' = [up EXCEPT ![u].stored = TRUE]
    /\ UNCHANGED <<reporting, db, sweep, reported, claimed, ops>>

\* The URL has run out, or the request does not get there.
NotStored(u) ==
    /\ u \in putting
    /\ putting' = putting \ {u}
    /\ UNCHANGED <<up, reporting, objects, db, sweep, reported, claimed, ops>>

\* The bytes are there: report it, with the payload of the caller.
PutAnswered(u) ==
    /\ up[u].pc = "putting" /\ u \notin putting
    /\ up[u].stored
    /\ Goto(u, "reporting")
    /\ reporting' = reporting \cup {u}
    /\ UNCHANGED <<putting, objects, db, sweep, reported, claimed, ops>>

\* Rejected, or the answer is lost although the bytes may arrive: upload() throws.
PutFails(u) ==
    /\ up[u].pc = "putting"
    /\ Goto(u, "over")
    /\ UNCHANGED <<putting, reporting, objects, db, sweep, reported, claimed, ops>>

\* handleUpload verifies a report and calls onUploadCompleted, which keeps
\* the record. A report that does not verify, and a callback that throws, is a
\* 500 the browser does not look at.
Accept(token, key, payload) ==
    /\ verifyCompletion(token, key, payload)
    /\ db' = set(db, key, payload, Plain)
    /\ reported' = reported \cup {key}

\* The report of upload() arrives.
Complete(u) ==
    /\ u \in reporting
    /\ reporting' = reporting \ {u}
    /\ Accept(up[u].token, up[u].key, ClientPayload[u])
    /\ claimed' = claimed \ {up[u].key}
    /\ UNCHANGED <<up, putting, objects, sweep, ops>>

\* A page with a grant sends the route a report of its own: of any key, with
\* any payload, whether or not the bytes are there.
ReportDirectly(u, key, payload) ==
    /\ up[u].token # NoGrant
    /\ Accept(up[u].token, key, payload)
    /\ claimed' = claimed \cup {key}
    /\ UNCHANGED <<up, putting, reporting, objects, sweep, ops>>

Unreported(u) ==
    /\ u \in reporting
    /\ reporting' = reporting \ {u}
    /\ UNCHANGED <<up, putting, objects, db, sweep, reported, claimed, ops>>

\* upload() returns the blob, whatever became of the report.
Return(u) ==
    /\ up[u].pc = "reporting"
    /\ Goto(u, "over")
    /\ UNCHANGED <<putting, reporting, objects, db, sweep, reported, claimed, ops>>

\* The tab closes, or the signal aborts. What is on its way may still arrive.
Close(u) ==
    /\ up[u].pc \in {"asking", "granted", "putting", "reporting"}
    /\ Goto(u, "over")
    /\ UNCHANGED <<putting, reporting, objects, db, sweep, reported, claimed, ops>>

-----------------------------------------------------------------------------
ServerMay == ops < MaxServerOps /\ ops' = ops + 1

\* put(): the app stores an object itself, under a key it may share.
ServerPut(pathname, suffix) ==
    /\ ServerMay
    /\ objects' = With(objects, Key(pathname, suffix, Server), Server)
    /\ UNCHANGED <<up, putting, reporting, db, sweep, reported, claimed>>

copy(from, to) ==
    /\ ServerMay
    /\ from \in DOMAIN objects /\ to # from
    /\ objects' = With(objects, to, Server)
    /\ UNCHANGED <<up, putting, reporting, db, sweep, reported, claimed>>

\* del() of the objects and of their records. One key fails loudly; of a batch
\* the bucket names the keys it could not delete in an answer nobody reads.
Delete(ks) ==
    /\ ServerMay
    /\ \E gone \in SUBSET ks :
          /\ Cardinality(ks) = 1 => gone = ks
          /\ objects' = [k \in DOMAIN objects \ gone |-> objects[k]]
    /\ sweep' = [sweep EXCEPT !.owed = @ \ ks]
    /\ db' = del(db, ks)
    /\ reported' = reported \ ks /\ claimed' = claimed \ ks
    /\ UNCHANGED <<up, putting, reporting>>

-----------------------------------------------------------------------------
\* list(): up to `limit` keys after the cursor, in order, and whether more follow.
After(cursor) == {k \in DOMAIN objects : k > cursor}

\* Slip: the page is taken for the whole list.
listOnce(cursor) ==
    LET page == {k \in After(cursor) : Cardinality({j \in After(cursor) : j < k}) < PageSize}
    IN  [keys |-> page, hasMore |-> FALSE]

list(cursor) ==
    LET page == {k \in After(cursor) : Cardinality({j \in After(cursor) : j < k}) < PageSize}
    IN  [keys |-> page, hasMore |-> page # After(cursor)]

Largest(ks, cursor) == IF ks = {} THEN cursor ELSE CHOOSE k \in ks : \A j \in ks : j <= k

SweepStarts ==
    /\ sweep.pc # "listing"
    /\ sweep' = [pc |-> "listing", cursor |-> 0, keys |-> {}, owed |-> DOMAIN objects]
    /\ UNCHANGED <<up, putting, reporting, objects, db, reported, claimed, ops>>

\* The app asks for the next page; it keeps a record of each key on it that
\* has none, unless one has come in since.
ListPage ==
    /\ sweep.pc = "listing" /\ sweep.keys = {}
    /\ LET page == list(sweep.cursor)
       IN  sweep' = [sweep EXCEPT !.keys = page.keys,
                                  !.cursor = Largest(page.keys, @),
                                  !.pc = IF page.hasMore THEN "listing" ELSE "last"]
    /\ UNCHANGED <<up, putting, reporting, objects, db, reported, claimed, ops>>

Reconcile(k) ==
    /\ k \in sweep.keys
    /\ db' = set(db, k, Value(Swept, TRUE), OnlyNew)
    /\ sweep' = [sweep EXCEPT !.keys = @ \ {k}]
    /\ UNCHANGED <<up, putting, reporting, objects, reported, claimed, ops>>

SweepEnds ==
    /\ sweep.pc = "last" /\ sweep.keys = {}
    /\ sweep' = [sweep EXCEPT !.pc = "swept"]
    /\ UNCHANGED <<up, putting, reporting, objects, db, reported, claimed, ops>>

-----------------------------------------------------------------------------
Init ==
    /\ up = [u \in Uploads |-> [pc |-> "asking", key |-> 0, token |-> NoGrant, stored |-> FALSE]]
    /\ putting = {} /\ reporting = {} /\ objects = <<>> /\ db = <<>>
    /\ sweep = [pc |-> "none", cursor |-> 0, keys |-> {}, owed |-> {}]
    /\ reported = {} /\ claimed = {} /\ ops = 0

Browser(u) ==
    \/ \E payload \in Payloads, suffix \in BOOLEAN : Grant(u, payload, suffix)
    \/ Refuse(u) \/ Put(u) \/ PutAnswered(u) \/ PutFails(u) \/ Return(u) \/ Close(u)
    \/ Stored(u) \/ NotStored(u) \/ Complete(u) \/ Unreported(u)
    \/ \E key \in Keys, payload \in Payloads : ReportDirectly(u, key, payload)

AppServer ==
    \/ \E pathname \in {Pathname[u] : u \in Uploads}, suffix \in BOOLEAN : ServerPut(pathname, suffix)
    \/ \E from, to \in Keys : copy(from, to)
    \/ \E ks \in SUBSET DOMAIN objects \ {{}} : Delete(ks)
    \/ SweepStarts \/ ListPage \/ (\E k \in Keys : Reconcile(k)) \/ SweepEnds

Next == (\E u \in Uploads : Browser(u)) \/ AppServer

Spec == Init /\ [][Next]_vars

-----------------------------------------------------------------------------
(***************************************************************************)
(* What the app's records say (client.ts:24-29, handle-upload.ts:82-86).   *)
(* Whoever sent the report, a record made of it has the key and reads back *)
(* as the payload of one grant of the app: as the string it was unless it  *)
(* happens to be JSON, and as null or as '' if it was either. Later grants *)
(* for the key, deletions and sweeps do not change that. And if upload()   *)
(* sent it, the bytes of that grant were stored.                           *)
(***************************************************************************)
RecordIsGranted ==
    \A key \in reported :
        /\ key \in DOMAIN db
        /\ \E u \in Uploads, payload \in Payloads :
              /\ up[u].token = signCompletion(key, payload)
              /\ get(db, key).text = payload.text
              /\ payload.text \notin JsonTexts => get(db, key) = payload
              /\ key \in claimed \/ up[u].stored

\* handle-upload.ts:82-86, as it stands there: no client claims an upload it
\* never made.
ClaimedIsStored == \A key \in reported : \E u \in Uploads : up[u].stored /\ up[u].key = key

\* kv/index.ts:18-20, as it stands there: what was written as a bare string
\* comes back as one.
BareStringsComeBack ==
    \A key \in reported : \E u \in Uploads, payload \in Payloads :
        up[u].token = signCompletion(key, payload) /\ get(db, key) = payload

(***************************************************************************)
(* "Reconcile with a list() sweep" (client.ts:29): once a sweep has ended, *)
(* every object that was in the bucket when it began, and that nobody      *)
(* asked to delete since, is on record, whatever the browsers, the tabs    *)
(* and the network did and however many pages it took.                     *)
(***************************************************************************)
SweepCatchesUp == sweep.pc = "swept" => sweep.owed \cap DOMAIN objects \subseteq DOMAIN db

=============================================================================
