----------------------------- MODULE EdgeRequests -----------------------------
(***************************************************************************)
(* The owner's requests to the panel as they pass the edge worker          *)
(* (cf-worker/worker.ts), the proxied Render server (backend/index.ts) and *)
(* the edge's own handler (cf-worker/backend-index.ts): the check of the   *)
(* session at the edge, the forwarding with its 45 s limit, the second     *)
(* attempt by the edge handler, and the two caches of the panel's start    *)
(* data - the server's snapshot with its generation counter, and the copy  *)
(* the edge keeps in KV.                                                   *)
(*                                                                         *)
(* Data is abstracted to which mutations have been applied: what a load    *)
(* returns is the set of the mutations it contains.  Signatures, JSON and  *)
(* headers are left out.  A session is its revocation marker; expiry of a  *)
(* session and of a marker coincide (the marker's TTL is what is left of   *)
(* the session) and are left out together.                                 *)
(*                                                                         *)
(* Workers KV is eventually consistent: for about a minute a marker that   *)
(* was put may be missed at other locations, where an earlier read that    *)
(* found none is cached (Spread ends it).  The edge's copy of the start    *)
(* data is taken to be read and written at one location, the owner's,      *)
(* where a put and a delete are seen at once.                              *)
(***************************************************************************)
EXTENDS Naturals, FiniteSets

CONSTANTS Requests,   \* bound: requests of a behaviour
          FaultyRequests, \* bound: ... of one in which something fails
          Session,    \* the edge sessions, all signed and not expired
          Kinds,      \* the requests a client may send
          Faults,     \* "kv": a KV call fails; "timeout": no answer in 45 s; "origin": a
                      \* store call of a handler fails; "unconfirmed": the server does not
                      \* recognise a session; "restart": the server restarts
          MaxFaults,  \* bound: how many of them happen
          MaxOpen,    \* bound: how many requests are under way at the edge together
          MaxAges     \* bound: how often the edge's copy is made older

AllKinds  == {"load", "mutate", "originOnly", "logout"}
AllFaults == {"kv", "timeout", "origin", "unconfirmed", "restart"}

ASSUME RequestsAssumption == {Requests, FaultyRequests, MaxOpen, MaxAges} \subseteq Nat
ASSUME KindsAssumption  == Kinds \subseteq AllKinds
ASSUME FaultsAssumption == Faults \subseteq AllFaults /\ MaxFaults \in Nat

None == [at |-> "none"]
Request == 1..Requests  \* in the order they begin

VARIABLES
  req,        \* the request at the edge: where it stands and what it was answered
  origin,     \* the same request at the Render server
  reval,      \* the background work a load left behind (ctx.waitUntil)
  revoked,    \* sessions with a revocation marker in KV
  spreading,  \* those whose marker may still be missed somewhere
  copy,       \* zpc-admin-bootstrap-snapshot:v1 in KV, with its age
  ages,
  generation, \* adminSnapshotGeneration
  snapshot,   \* adminSnapshot: its generation, data and age
  inflight,   \* adminSnapshotInflight
  stored,     \* mutations the server's store holds
  pending,    \* mutations the edge handler wrote and the server has not replayed
  times,      \* how often each mutation was applied, at the server or the edge
  faults      \* faults so far

edgeVars == <<req, origin, reval, revoked, spreading, copy, ages, generation, snapshot,
          inflight, stored, pending, times, faults>>
markers == <<revoked, spreading>>
caches == <<copy, ages, generation, snapshot, inflight>>
data   == <<stored, pending, times>>

Begun == {r \in Request : req[r].at # "idle"}
Fault(kind) == /\ kind \in Faults
               /\ faults < MaxFaults /\ Cardinality(Begun) <= FaultyRequests
               /\ faults' = faults + 1
NoFault == UNCHANGED faults

Mutations == {"mutate", "originOnly"}

(***************************************************************************)
(* verifyEdgeSession: a KV read that fails refuses the session; one that   *)
(* misses a marker still spreading accepts it.                             *)
(***************************************************************************)
Visible == revoked \ spreading
Verified(s) == s \notin Visible /\ NoFault
NotVerified(s) == (s \in revoked /\ NoFault) \/ Fault("kv")

\* Moves request r to a place, keeping what it knows.
Go(r, place) == req' = [req EXCEPT ![r].at = place]

\* Answers r: status, and for a load the data.
Answer(r, status, got) ==
  req' = [req EXCEPT ![r].at = "answered", ![r].status = status, ![r].got = got]

(***************************************************************************)
(* A client sends a request.  settled is what a load that begins now is    *)
(* promised: the mutations the server was heard to have done, when no load *)
(* or refresh of the start data was under way as they were answered.       *)
(***************************************************************************)
Quiet == /\ inflight = None
         /\ \A q \in Request : reval[q] = None
         /\ \A q \in Request : req[q].kind = "load" => req[q].at \in {"idle", "answered"}
         /\ \A q \in Request : origin[q].at \notin {"wait"}

Heard   == {q \in Request : req[q].heard = "ok" /\ req[q].status = "ok"}
Settled == {q \in Heard : req[q].quiet}
LoggedOut == {req[q].session : q \in {p \in Request :
                 req[p].kind = "logout" /\ req[p].status = "ok"}}

Begin(r, kind, s) ==
  /\ req[r].at = "idle" /\ 1..(r - 1) \subseteq Begun
  /\ r <= FaultyRequests \/ faults = 0
  /\ kind \in Kinds
  /\ Cardinality({q \in Request : req[q].at \notin {"idle", "answered"}}) < MaxOpen
  /\ req' = [req EXCEPT ![r] = [@ EXCEPT !.at = CASE kind = "load" -> "boot"
                                                   [] kind = "logout" -> "logout"
                                                   [] OTHER -> "guard",
                                         !.kind = kind, !.session = s,
                                         !.owed = {q \in Settled : kind = "load"},
                                         !.before = {q \in Heard : kind = "load"},
                                         !.late = s \in LoggedOut \ spreading]]
  /\ UNCHANGED <<origin, reval, markers, caches, data, faults>>

(***************************************************************************)
(* edgeBootstrap: the session first, then the copy in KV.  A copy younger  *)
(* than ten minutes answers; an older one answers and starts a background  *)
(* fetch; none, or one past six hours, is fetched in the foreground.       *)
(***************************************************************************)
BootVerify(r) ==
  /\ req[r].at = "boot"
  /\ \/ Verified(req[r].session) /\ Go(r, "cache")
     \/ NotVerified(req[r].session) /\ Go(r, "guard")
  /\ UNCHANGED <<origin, reval, markers, caches, data>>

BootFromCopy(r) ==
  /\ req[r].at = "cache"
  /\ copy.at \in {"fresh", "stale"}
  /\ Answer(r, "ok", copy.got)
  /\ reval' = IF copy.at = "stale" THEN [reval EXCEPT ![r] = [at |-> "fetch", was |-> {copy.got}]] ELSE reval
  /\ origin' = IF copy.at = "stale" THEN [origin EXCEPT ![r] = [at |-> "sent"]] ELSE origin
  /\ UNCHANGED <<markers, caches, data, faults>>

BootFetch(r) ==
  /\ req[r].at = "cache"
  /\ (copy.at \in {"none", "expired"} /\ NoFault) \/ Fault("kv")
  /\ Go(r, "fetch")
  /\ origin' = [origin EXCEPT ![r] = [at |-> "sent"]]
  /\ UNCHANGED <<reval, markers, caches, data>>

\* The server's data arrives: the load is answered, the copy is stored later.
BootFetched(r) ==
  /\ req[r].at = "fetch"
  /\ origin[r].at = "data"
  /\ Answer(r, "ok", origin[r].got)
  /\ reval' = [reval EXCEPT ![r] = [at |-> "put", got |-> origin[r].got, was |-> {}]]
  /\ origin' = [origin EXCEPT ![r] = None]
  /\ UNCHANGED <<markers, caches, data, faults>>

\* No data in 45 s, or an error: the request takes the normal path.
BootMissed(r) ==
  /\ req[r].at = "fetch"
  /\ (origin[r].at = "error" /\ NoFault) \/ Fault("timeout")
  /\ Go(r, "guard")
  /\ origin' = [origin EXCEPT ![r] = None]
  /\ UNCHANGED <<reval, markers, caches, data>>

(***************************************************************************)
(* The background work of a load: fetchRenderBootstrap, then               *)
(* storeBootstrapSnapshot, which leaves the copy alone when the data are   *)
(* those it was fetched to replace.  Neither is told of mutations answered *)
(* since.                                                                  *)
(***************************************************************************)
RevalFetched(r) ==
  /\ reval[r].at = "fetch"
  /\ \/ /\ origin[r].at = "data"
        /\ NoFault
        /\ reval' = [reval EXCEPT ![r] = [at |-> "put", got |-> origin[r].got, was |-> reval[r].was]]
     \/ /\ (origin[r].at = "error" /\ NoFault) \/ Fault("timeout")
        /\ reval' = [reval EXCEPT ![r] = None]
  /\ origin' = [origin EXCEPT ![r] = None]
  /\ UNCHANGED <<req, markers, caches, data>>

StoreCopy(r) ==
  /\ reval[r].at = "put"
  /\ \/ copy' = [at |-> "fresh", got |-> reval[r].got] /\ NoFault
     \/ reval[r].got \in reval[r].was /\ UNCHANGED copy /\ NoFault
     \/ Fault("kv") /\ UNCHANGED copy
  /\ reval' = [reval EXCEPT ![r] = None]
  /\ UNCHANGED <<req, origin, markers, ages, generation, snapshot, inflight, data>>

\* Ten minutes, and then six hours, pass over the copy (MaxAges bounds how often).
CopyAges ==
  /\ ages < MaxAges
  /\ copy.at \in {"fresh", "stale"}
  /\ copy' = [copy EXCEPT !.at = IF copy.at = "fresh" THEN "stale" ELSE "expired"]
  /\ ages' = ages + 1
  /\ UNCHANGED <<req, origin, reval, markers, generation, snapshot, inflight, data, faults>>

(***************************************************************************)
(* guardProxiedEdgeSession, then the request is sent to the server.        *)
(***************************************************************************)
Guard(r) ==
  /\ req[r].at = "guard"
  /\ \/ /\ Verified(req[r].session)
        /\ Go(r, "proxied")
        /\ origin' = [origin EXCEPT ![r] = [at |-> "sent"]]
     \/ /\ NotVerified(req[r].session)
        /\ Answer(r, "unauthorized", {})
        /\ UNCHANGED origin
  /\ UNCHANGED <<reval, markers, caches, data>>

(***************************************************************************)
(* The server's answer, or the lack of one.  Below 500 it is the client's, *)
(* unless it is a 401 for a session the edge holds valid; otherwise the    *)
(* edge handler takes the request.  A request the edge gave up on goes on  *)
(* at the server ("origin" is kept).                                       *)
(***************************************************************************)
ProxyAnswered(r) ==
  /\ req[r].at = "proxied"
  /\ origin[r].at \in {"data", "done"}
  /\ IF req[r].kind = "load"
       THEN Answer(r, "ok", origin[r].got)
       ELSE req' = [req EXCEPT ![r].at = "invalidate", ![r].heard = "ok"]
  /\ origin' = [origin EXCEPT ![r] = None]
  /\ UNCHANGED <<reval, markers, caches, data, faults>>

ProxyRefused(r) ==
  /\ req[r].at = "proxied"
  /\ origin[r].at = "refused"
  /\ \/ Verified(req[r].session) /\ req' = [req EXCEPT ![r].at = "edge", ![r].heard = "refused"]
     \/ NotVerified(req[r].session) /\ Answer(r, "unauthorized", {})
  /\ origin' = [origin EXCEPT ![r] = None]
  /\ UNCHANGED <<reval, markers, caches, data>>

\* A 4xx of the handler is the client's answer and leaves the edge's copy alone.
\* Mutant: any answer but a success is tried again at the edge.
ProxyRejectedToEdge(r) ==
  /\ req[r].at = "proxied"
  /\ origin[r].at = "rejected"
  /\ req' = [req EXCEPT ![r].at = "edge", ![r].heard = "rejected"]
  /\ origin' = [origin EXCEPT ![r] = None]
  /\ UNCHANGED <<reval, markers, caches, data, faults>>
ProxyRejected(r) ==
  /\ req[r].at = "proxied"
  /\ origin[r].at = "rejected"
  /\ Answer(r, "rejected", {})
  /\ origin' = [origin EXCEPT ![r] = None]
  /\ UNCHANGED <<reval, markers, caches, data, faults>>

ProxyFailed(r) ==
  /\ req[r].at = "proxied"
  /\ origin[r].at = "error"
  /\ req' = [req EXCEPT ![r].at = "edge", ![r].heard = "failed"]
  /\ origin' = [origin EXCEPT ![r] = None]
  /\ UNCHANGED <<reval, markers, caches, data, faults>>

ProxyTimeout(r) ==
  /\ req[r].at = "proxied"
  /\ Fault("timeout")
  /\ req' = [req EXCEPT ![r].at = "edge", ![r].heard = "timeout"]
  /\ UNCHANGED <<origin, reval, markers, caches, data>>

(***************************************************************************)
(* The edge handler: the session again, then the route.  A route it does   *)
(* not have answers 503; a mutation is written to the secondary store,     *)
(* from where the server replays it; a load reads that store.              *)
(***************************************************************************)
EdgeHandles(r) ==
  /\ req[r].at = "edge"
  /\ IF req[r].kind = "originOnly"
       THEN Answer(r, "unavailable", {}) /\ UNCHANGED data /\ NoFault
       ELSE \/ /\ NotVerified(req[r].session)
               /\ Answer(r, "unauthorized", {})
               /\ UNCHANGED data
            \/ /\ Verified(req[r].session)
               /\ req[r].kind = "load"
               /\ req' = [req EXCEPT ![r] = [@ EXCEPT !.at = "answered", !.status = "ok",
                                     !.got = stored \union pending, !.heard = "edge"]]
               /\ UNCHANGED data
            \/ /\ Verified(req[r].session)
               /\ req[r].kind = "mutate"
               /\ pending' = pending \union {r}
               /\ times' = [times EXCEPT ![r] = @ + 1]
               /\ Go(r, "invalidate")
               /\ UNCHANGED stored
            \/ /\ req[r].session \notin Visible
               /\ Fault("origin")
               /\ Answer(r, "failed", {})
               /\ UNCHANGED data
  /\ UNCHANGED <<origin, reval, markers, caches>>

\* invalidate(): the KV delete is awaited, its failure ignored; then the answer.
\* Mutant: the copy is left to age.
InvalidateLeavesCopy(r) ==
  /\ req[r].at = "invalidate"
  /\ req' = [req EXCEPT ![r] = [req[r] EXCEPT !.at = "answered", !.status = "ok",
                                 !.quiet = req[r].quiet \/ (req[r].heard = "ok" /\ Quiet)]]
  /\ NoFault
  /\ UNCHANGED <<origin, reval, markers, caches, data>>
Invalidate(r) ==
  /\ req[r].at = "invalidate"
  /\ \/ /\ copy' = None /\ NoFault
        /\ req' = [req EXCEPT ![r] = [req[r] EXCEPT !.at = "answered", !.status = "ok",
                                       !.quiet = req[r].quiet \/ (req[r].heard = "ok" /\ Quiet)]]
     \/ Fault("kv") /\ UNCHANGED copy /\ Answer(r, "ok", {})
  /\ UNCHANGED <<origin, reval, markers, ages, generation, snapshot, inflight, data>>

(***************************************************************************)
(* Logout stays at the edge: revokeEdgeSession verifies, then writes the   *)
(* marker; only then is the client answered.                               *)
(***************************************************************************)
LogoutVerify(r) ==
  /\ req[r].at = "logout"
  /\ \/ Verified(req[r].session) /\ Go(r, "revoke")
     \/ NotVerified(req[r].session) /\ Answer(r, "unauthorized", {})
  /\ UNCHANGED <<origin, reval, markers, caches, data>>

\* The marker is put; only one that was not there before has to spread.
PutMarker(s) == /\ revoked' = revoked \union {s}
                /\ spreading' = spreading \union ({s} \ revoked)

\* Mutant: the failure of the put is ignored.
RevokeIgnoresFailure(r) ==
  /\ req[r].at = "revoke"
  /\ \/ PutMarker(req[r].session) /\ NoFault
     \/ Fault("kv") /\ UNCHANGED markers
  /\ Answer(r, "ok", {})
  /\ UNCHANGED <<origin, reval, caches, data>>
Revoke(r) ==
  /\ req[r].at = "revoke"
  /\ \/ PutMarker(req[r].session) /\ NoFault /\ Answer(r, "ok", {})
     \/ Fault("kv") /\ Answer(r, "unavailable", {}) /\ UNCHANGED markers
  /\ UNCHANGED <<origin, reval, caches, data>>

\* The marker can be read everywhere.
Spread(s) ==
  /\ s \in spreading
  /\ spreading' = spreading \ {s}
  /\ UNCHANGED <<req, origin, reval, revoked, caches, data, faults>>

(***************************************************************************)
(* The server.  requirePinSession may fail to confirm a session the edge   *)
(* holds valid ("unconfirmed").  A mutating request raises the generation  *)
(* before and after its handler.                                           *)
(***************************************************************************)
OriginRefuses(r) ==
  /\ origin[r].at = "sent"
  /\ Fault("unconfirmed")
  /\ origin' = [origin EXCEPT ![r] = [at |-> IF req[r].at = "proxied" THEN "refused" ELSE "error"]]
  /\ generation' = generation + IF req[r].kind \in Mutations THEN 2 ELSE 0
  /\ UNCHANGED <<req, reval, markers, copy, ages, snapshot, inflight, data>>

MutationStarts(r) ==
  /\ origin[r].at = "sent"
  /\ req[r].kind \in Mutations
  /\ origin' = [origin EXCEPT ![r] = [at |-> "writing"]]
  /\ generation' = generation + 1
  /\ UNCHANGED <<req, reval, markers, copy, ages, snapshot, inflight, data, faults>>

MutationWrites(r) ==
  /\ origin[r].at = "writing"
  /\ origin' = [origin EXCEPT ![r] = [at |-> "written"]]
  /\ stored' = stored \union {r}
  /\ times' = [times EXCEPT ![r] = @ + 1]
  /\ UNCHANGED <<req, reval, markers, caches, pending, faults>>

MutationEnds(r) ==
  /\ origin[r].at = "written"
  /\ origin' = [origin EXCEPT ![r] = [at |-> "done"]]
  /\ generation' = generation + 1
  /\ UNCHANGED <<req, reval, markers, copy, ages, snapshot, inflight, data, faults>>

\* The handler throws before or after its write: the router answers 500, or the
\* route's own catch a 4xx ("rejected").
MutationFails(r) ==
  /\ Fault("origin")
  /\ origin[r].at \in {"writing", "written"}
  /\ \E outcome \in {"error", "rejected"} :
       origin' = [origin EXCEPT ![r] = [at |-> outcome]]
  /\ generation' = generation + 1
  /\ UNCHANGED <<req, reval, markers, copy, ages, snapshot, inflight, data>>

(***************************************************************************)
(* cachedAdminData: a snapshot of the current generation answers, and past *)
(* a minute starts a refresh too; otherwise the request waits for the      *)
(* refresh under way, or starts one.                                       *)
(***************************************************************************)
Refreshing == IF inflight = None THEN [at |-> "reading", gen |-> generation] ELSE inflight

OriginServesSnapshot(r) ==
  /\ origin[r].at = "sent"
  /\ req[r].kind = "load"
  /\ snapshot # None
  /\ snapshot.gen = generation
  /\ origin' = [origin EXCEPT ![r] = [at |-> "data", got |-> snapshot.got]]
  /\ inflight' \in {inflight, Refreshing}
  /\ UNCHANGED <<req, reval, markers, copy, ages, generation, snapshot, data, faults>>

\* Also a snapshot older than 15 minutes, which is not used (the age is not kept).
OriginWaits(r) ==
  /\ origin[r].at = "sent"
  /\ req[r].kind = "load"
  /\ origin' = [origin EXCEPT ![r] = [at |-> "wait"]]
  /\ inflight' = Refreshing
  /\ UNCHANGED <<req, reval, markers, copy, ages, generation, snapshot, data, faults>>

Prewarm ==
  /\ inflight = None
  /\ inflight' = Refreshing
  /\ UNCHANGED <<req, origin, reval, markers, copy, ages, generation, snapshot, data, faults>>

\* adminData() reads the store ...
RefreshReads ==
  /\ inflight.at = "reading"
  /\ inflight' = [at |-> "read", gen |-> inflight.gen, got |-> stored]
  /\ UNCHANGED <<req, origin, reval, markers, copy, ages, generation, snapshot, data, faults>>

\* ... and its result goes to everyone who waits; it is kept only if no mutation
\* began or ended meanwhile.
\* Mutant: the result is kept under the generation of now.
RefreshEndsAsCurrent ==
  /\ inflight.at = "read"
  /\ snapshot' = [at |-> "kept", gen |-> generation, got |-> inflight.got]
  /\ origin' = [q \in Request |-> IF origin[q].at = "wait"
                                    THEN [at |-> "data", got |-> inflight.got] ELSE origin[q]]
  /\ inflight' = None
  /\ UNCHANGED <<req, reval, markers, copy, ages, generation, data, faults>>
RefreshEnds ==
  /\ inflight.at = "read"
  /\ snapshot' = IF inflight.gen = generation
                   THEN [at |-> "kept", gen |-> inflight.gen, got |-> inflight.got]
                   ELSE snapshot
  /\ origin' = [q \in Request |-> IF origin[q].at = "wait"
                                    THEN [at |-> "data", got |-> inflight.got] ELSE origin[q]]
  /\ inflight' = None
  /\ UNCHANGED <<req, reval, markers, copy, ages, generation, data, faults>>

RefreshFails ==
  /\ Fault("origin")
  /\ inflight # None
  /\ origin' = [q \in Request |-> IF origin[q].at = "wait" THEN [at |-> "error"] ELSE origin[q]]
  /\ inflight' = None
  /\ UNCHANGED <<req, reval, markers, copy, ages, generation, snapshot, data>>

\* The process restarts: its memory is gone and its callers get an error.
OriginRestart ==
  /\ Fault("restart")
  /\ generation' = 0 /\ snapshot' = None /\ inflight' = None
  /\ origin' = [q \in Request |-> IF origin[q] = None THEN None ELSE [at |-> "error"]]
  /\ <<generation, snapshot, inflight>> # <<0, None, None>>
  /\ UNCHANGED <<req, reval, markers, copy, ages, data>>

\* reconcileReplication brings the edge's writes to the server's store (DualStore).
Replay ==
  /\ pending # {}
  /\ stored' = stored \union pending
  /\ pending' = {}
  /\ UNCHANGED <<req, origin, reval, markers, caches, times, faults>>

EdgeInit ==
  /\ req = [r \in Request |-> [at |-> "idle", kind |-> "none", session |-> "none",
                               status |-> "none", heard |-> "none", got |-> {}, owed |-> {},
                               before |-> {}, late |-> FALSE, quiet |-> FALSE]]
  /\ origin = [r \in Request |-> None]
  /\ reval = [r \in Request |-> None]
  /\ revoked = {} /\ spreading = {} /\ copy = None /\ ages = 0
  /\ generation = 0 /\ snapshot = None /\ inflight = None
  /\ stored = {} /\ pending = {} /\ times = [r \in Request |-> 0] /\ faults = 0

EdgeStep(r) ==
  \/ \E k \in Kinds, s \in Session : Begin(r, k, s)
  \/ BootVerify(r) \/ BootFromCopy(r) \/ BootFetch(r) \/ BootFetched(r) \/ BootMissed(r)
  \/ RevalFetched(r) \/ StoreCopy(r)
  \/ Guard(r) \/ ProxyAnswered(r) \/ ProxyRefused(r) \/ ProxyRejected(r)
  \/ ProxyFailed(r) \/ ProxyTimeout(r)
  \/ EdgeHandles(r) \/ Invalidate(r)
  \/ LogoutVerify(r) \/ Revoke(r)

OriginStep(r) ==
  \/ OriginRefuses(r) \/ MutationStarts(r) \/ MutationWrites(r) \/ MutationEnds(r)
  \/ MutationFails(r) \/ OriginServesSnapshot(r) \/ OriginWaits(r)

EdgeNext ==
  \/ \E r \in Request : EdgeStep(r) \/ OriginStep(r)
  \/ Prewarm \/ RefreshReads \/ RefreshEnds \/ RefreshFails \/ OriginRestart
  \/ CopyAges \/ Replay
  \/ \E s \in Session : Spread(s)

EdgeSpec == EdgeInit /\ [][EdgeNext]_edgeVars

-----------------------------------------------------------------------------
(***************************************************************************)
(* Once a logout has been answered and its marker, if it left one, is read *)
(* everywhere, no request of that session that begins is carried out: the  *)
(* load is given no data, the mutation is applied neither at the server    *)
(* nor at the edge.  Requests that were under way by then may still        *)
(* finish, and so may others while the marker is missed somewhere.         *)
(***************************************************************************)
NothingAfterLogout ==
  \A r \in Request : req[r].late => req[r].status # "ok" /\ times[r] = 0

(***************************************************************************)
(* The server's snapshot, while its generation is current, contains every  *)
(* mutation whose handler has ended: a refresh that read the store before  *)
(* a mutation cannot be kept after it (refreshAdminSnapshot, handler).     *)
(***************************************************************************)
CurrentSnapshotComplete ==
  (snapshot # None /\ snapshot.gen = generation) =>
    \A r \in Request : origin[r].at = "done" => r \in snapshot.got

(***************************************************************************)
(* A load that begins after a mutation was answered shows it, whichever of *)
(* the two caches answers, provided no load and no refresh was under way   *)
(* when the edge dropped its copy.                                         *)
(***************************************************************************)
QuietWritesSeen ==
  \A r \in Request :
    (req[r].kind = "load" /\ req[r].status = "ok" /\ req[r].heard # "edge")
      => req[r].owed \subseteq req[r].got

(***************************************************************************)
(* A mutation is applied a second time (at the edge) only when the server  *)
(* was not heard in time or failed, never after a refusal or a success,    *)
(* and a mutation answered ok has been applied.                            *)
(***************************************************************************)
TwiceOnlyIfUnheard ==
  \A r \in Request :
    /\ times[r] <= 2
    /\ times[r] = 2 => req[r].heard \in {"timeout", "failed"}
    /\ req[r].kind \in Mutations /\ req[r].status = "ok" => times[r] > 0

(***************************************************************************)
(* What the comment on the server's cache promises (backend/index.ts:3079: *)
(* "any mutating request invalidates it so writes are always reflected on  *)
(* the next load"): a load that begins after a mutation was answered shows *)
(* that mutation.                                                          *)
(***************************************************************************)
NextLoadReflectsWrites ==
  \A r \in Request :
    (req[r].kind = "load" /\ req[r].status = "ok" /\ req[r].heard # "edge")
      => req[r].before \subseteq req[r].got
=============================================================================
