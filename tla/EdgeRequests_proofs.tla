------------------------- MODULE EdgeRequests_proofs -------------------------
(* Proofs about EdgeRequests, for any number of requests, sessions and faults. *)
EXTENDS EdgeRequests, TLAPS

-----------------------------------------------------------------------------
(* Shapes.  An entry is the record None or knows where it stands. *)

ReqPlaces == {"idle", "boot", "cache", "fetch", "guard", "proxied", "edge", "invalidate",
              "logout", "revoke", "answered"}
Entry(x, places) == x.at \in places /\ (x.at = "none" => x = None)
OriginPlaces == {"none", "sent", "wait", "data", "writing", "written", "done", "refused",
                 "rejected", "error"}

\* Only the fields are named: what a session or a load's data is does not matter here.
ReqShape(x) ==
  /\ x = [at |-> x.at, kind |-> x.kind, session |-> x.session, status |-> x.status,
          heard |-> x.heard, got |-> x.got, owed |-> x.owed, before |-> x.before,
          late |-> x.late, quiet |-> x.quiet]
  /\ x.at \in ReqPlaces /\ x.late \in BOOLEAN /\ x.quiet \in BOOLEAN

Shapes ==
  /\ req = [r \in Request |-> req[r]] /\ \A r \in Request : ReqShape(req[r])
  /\ origin = [r \in Request |-> origin[r]]
  /\ \A r \in Request : Entry(origin[r], OriginPlaces)
  /\ reval = [r \in Request |-> reval[r]]
  /\ \A r \in Request : Entry(reval[r], {"none", "fetch", "put"})
  /\ times \in [Request -> Nat]

CacheShapes ==
  /\ Entry(copy, {"none", "fresh", "stale", "expired"})
  /\ copy # None => copy = [at |-> copy.at, got |-> copy.got]
  /\ Entry(inflight, {"none", "reading", "read"})
  /\ Entry(snapshot, {"none", "kept"})
  /\ generation \in Nat

(***************************************************************************)
(* The life of one request: x at the edge, o at the server, b behind it,   *)
(* applied t times.  A place belongs to a kind; what has not begun has     *)
(* touched nothing; a mutation leaves for the server once, is applied      *)
(* there at most once, and at the edge only after the server was unheard.  *)
(***************************************************************************)
PlaceOfKind(x) ==
  /\ x.at \in {"boot", "cache", "fetch"} => x.kind = "load"
  /\ x.at \in {"guard", "proxied", "edge"} => x.kind \in {"load"} \union Mutations
  /\ x.at = "invalidate" => x.kind \in Mutations
  /\ x.at \in {"logout", "revoke"} => x.kind = "logout"
  /\ x.at = "idle" <=> x.kind = "none"
  /\ x.at # "answered" => x.status = "none" /\ ~x.quiet
  /\ x.kind \in {"none", "load", "logout"} \union Mutations

Untouched(x, o, b, t) ==
  /\ x.at \in {"idle", "boot", "cache", "guard", "logout", "revoke"} => o = None /\ x.heard = "none"
  /\ x.at # "answered" => b = None
  /\ x.at \in {"fetch", "proxied"} => x.heard = "none"
  /\ x.kind \notin Mutations \/ x.at \in {"idle", "guard"} => t = 0
  /\ x.kind # "load" => b = None /\ o.at \notin {"wait", "data"}
  /\ x.kind = "logout" => o = None
  /\ x.kind = "load" => o.at \notin {"writing", "written", "done"}

Applied(x, o, t) ==
  /\ o # None /\ x.kind \in Mutations =>
       x.at = "proxied" \/ (x.heard = "timeout" /\ x.at \in {"edge", "invalidate", "answered"})
  /\ o.at \in {"sent", "writing"} => t <= 1 /\ (x.at \in {"proxied", "edge"} => t = 0)
  /\ o.at \in {"written", "done"} => t >= 1
  /\ o.at = "refused" /\ x.at = "proxied" => t = 0
  /\ x.at \in {"proxied", "edge"} => t <= 1
  /\ x.at = "edge" => x.heard \in {"refused", "failed", "timeout"}
  /\ x.at = "edge" /\ x.heard = "refused" => t = 0
  /\ x.heard \notin {"timeout", "failed"} => t <= 1
  /\ x.heard = "ok" => x.kind \in Mutations /\ x.at \in {"invalidate", "answered"}
  /\ x.at = "invalidate" => t >= 1
  /\ t <= 2
  /\ x.kind \in Mutations /\ x.status = "ok" => t >= 1

\* The marker of a session that was logged out is put (gone); a request that began once
\* it was read everywhere (known) got nowhere.
Barred(x, o, t, gone, known) ==
  /\ x.kind = "logout" /\ x.status = "ok" => x.session \in gone
  /\ x.late => /\ x.session \in known
               /\ x.at \in {"boot", "guard", "logout", "answered"}
               /\ x.status # "ok" /\ o = None /\ t = 0

Lives(x, o, b, t, gone, known) ==
  PlaceOfKind(x) /\ Untouched(x, o, b, t) /\ Applied(x, o, t) /\ Barred(x, o, t, gone, known)
Life(r) == Lives(req[r], origin[r], reval[r], times[r], revoked, Visible)

(***************************************************************************)
(* The caches.  Kept: what the server ended is in its store, and in its    *)
(* snapshot (or the refresh that will become it) of the same generation.   *)
(* Shown: what is settled is in every answer still under way.              *)
(***************************************************************************)
Ready(x, o, b) == o.at = "data" /\ (x.at \in {"fetch", "proxied"} \/ b.at = "fetch")
Shows(x) == x.kind = "load" /\ x.status = "ok" /\ x.heard # "edge"
Ended(x, o) == o.at = "done" \/ x.heard = "ok"
SettledReq(x) == x.heard = "ok" /\ x.status = "ok" /\ x.quiet
Finished == {q \in Request : Ended(req[q], origin[q])}
Arriving(r) == Ready(req[r], origin[r], reval[r])

Kept ==
  /\ Finished \subseteq stored
  /\ \A q \in Request : origin[q].at = "written" => q \in stored
  /\ snapshot # None =>
       /\ snapshot.gen \in Nat /\ snapshot.gen <= generation
       /\ snapshot.gen = generation => Finished \subseteq snapshot.got
  /\ inflight # None => inflight.gen \in Nat /\ inflight.gen <= generation
  /\ inflight.at = "read" /\ inflight.gen = generation => Finished \subseteq inflight.got

Shown ==
  /\ copy # None => Settled \subseteq copy.got
  /\ inflight.at = "read" => Settled \subseteq inflight.got
  /\ \A r \in Request : reval[r].at = "put" => Settled \subseteq reval[r].got
  /\ \A r \in Request : Arriving(r) => Settled \subseteq origin[r].got
  /\ \A r \in Request : req[r].owed \subseteq Settled
  /\ \A r \in Request : Shows(req[r]) => req[r].owed \subseteq req[r].got

(* What the guards and updates of the requests do, said once. *)

Edited(x, at, status, got, heard, quiet) ==
  [at |-> at, kind |-> x.kind, session |-> x.session, status |-> status, heard |-> heard,
   got |-> got, owed |-> x.owed, before |-> x.before, late |-> x.late, quiet |-> quiet]

LEMMA EditAt ==
  ASSUME NEW x, ReqShape(x), NEW p
  PROVE  [x EXCEPT !.at = p] = Edited(x, p, x.status, x.got, x.heard, x.quiet)
BY DEF ReqShape, Edited

LEMMA EditHeard ==
  ASSUME NEW x, ReqShape(x), NEW p, NEW h
  PROVE  [x EXCEPT !.at = p, !.heard = h] = Edited(x, p, x.status, x.got, h, x.quiet)
<1>1. [x EXCEPT !.at = p, !.heard = h] = [[x EXCEPT !.at = p] EXCEPT !.heard = h]
  OBVIOUS
<1>2. [[x EXCEPT !.at = p] EXCEPT !.heard = h]
        = [Edited(x, p, x.status, x.got, x.heard, x.quiet) EXCEPT !.heard = h]
  BY EditAt
<1> QED BY <1>1, <1>2 DEF Edited

LEMMA EditStatus ==
  ASSUME NEW x, ReqShape(x), NEW p, NEW st
  PROVE  [[x EXCEPT !.at = p] EXCEPT !.status = st] = Edited(x, p, st, x.got, x.heard, x.quiet)
<1>1. [[x EXCEPT !.at = p] EXCEPT !.status = st]
        = [Edited(x, p, x.status, x.got, x.heard, x.quiet) EXCEPT !.status = st]
  BY EditAt
<1> QED BY <1>1 DEF Edited

LEMMA EditAnswer ==
  ASSUME NEW x, ReqShape(x), NEW p, NEW st, NEW g
  PROVE  [x EXCEPT !.at = p, !.status = st, !.got = g] = Edited(x, p, st, g, x.heard, x.quiet)
<1>1. [x EXCEPT !.at = p, !.status = st, !.got = g]
        = [[[x EXCEPT !.at = p] EXCEPT !.status = st] EXCEPT !.got = g]
  OBVIOUS
<1>2. [[[x EXCEPT !.at = p] EXCEPT !.status = st] EXCEPT !.got = g]
        = [Edited(x, p, st, x.got, x.heard, x.quiet) EXCEPT !.got = g]
  BY EditStatus
<1> QED BY <1>1, <1>2 DEF Edited

LEMMA EditRead ==
  ASSUME NEW x, ReqShape(x), NEW p, NEW st, NEW g, NEW h
  PROVE  [x EXCEPT !.at = p, !.status = st, !.got = g, !.heard = h] = Edited(x, p, st, g, h, x.quiet)
<1>1. [x EXCEPT !.at = p, !.status = st, !.got = g, !.heard = h]
        = [[x EXCEPT !.at = p, !.status = st, !.got = g] EXCEPT !.heard = h]
  OBVIOUS
<1>2. [[x EXCEPT !.at = p, !.status = st, !.got = g] EXCEPT !.heard = h]
        = [Edited(x, p, st, g, x.heard, x.quiet) EXCEPT !.heard = h]
  BY EditAnswer
<1> QED BY <1>1, <1>2 DEF Edited

\* The request r, and no other, is now this.
Becomes(r, at, status, got, heard, quiet) ==
  req' = [req EXCEPT ![r] = Edited(req[r], at, status, got, heard, quiet)]
Stays(r, at) == Becomes(r, at, req[r].status, req[r].got, req[r].heard, req[r].quiet)
Answered(r, status, got) == Becomes(r, "answered", status, got, req[r].heard, req[r].quiet)

LEMMA HeardBecomes ==
  ASSUME Shapes, NEW r \in Request, NEW p, NEW h
  PROVE  req' = [req EXCEPT ![r].at = p, ![r].heard = h]
           => Becomes(r, p, req[r].status, req[r].got, h, req[r].quiet)
<1> SUFFICES ASSUME req' = [req EXCEPT ![r].at = p, ![r].heard = h]
             PROVE  Becomes(r, p, req[r].status, req[r].got, h, req[r].quiet)
  OBVIOUS
<1>1. ReqShape(req[r]) /\ req = [d \in Request |-> req[d]]
  BY DEF Shapes
<1>2. PICK x, y : req[r] = x /\ y = [req EXCEPT ![r] = [x EXCEPT !.at = p]]
  OBVIOUS
<1>3. req' = [y EXCEPT ![r] = [y[r] EXCEPT !.heard = h]]
  BY <1>2
<1>4. y[r] = Edited(x, p, x.status, x.got, x.heard, x.quiet)
  BY <1>1, <1>2, EditAt
<1>5. [y[r] EXCEPT !.heard = h] = Edited(x, p, x.status, x.got, h, x.quiet)
  BY <1>4 DEF Edited
<1>6. req' = [req EXCEPT ![r] = Edited(x, p, x.status, x.got, h, x.quiet)]
  BY <1>1, <1>2, <1>3, <1>5
<1> QED BY <1>2, <1>6 DEF Becomes

LEMMA GoBecomes ==
  ASSUME Shapes, NEW r \in Request, NEW p
  PROVE  Go(r, p) => Stays(r, p)
BY EditAt, Zenon DEF Shapes, Go, Stays, Becomes

LEMMA AnswerBecomes ==
  ASSUME Shapes, NEW r \in Request, NEW st, NEW g
  PROVE  Answer(r, st, g) => Answered(r, st, g)
<1>1. ReqShape(req[r])
  BY DEF Shapes
<1>2. Answer(r, st, g) => req' = [req EXCEPT ![r] = [req[r] EXCEPT !.at = "answered", !.status = st, !.got = g]]
  BY DEF Answer
<1> QED BY <1>1, <1>2, EditAnswer, Zenon DEF Answered, Becomes

LEMMA ReadBecomes ==
  ASSUME Shapes, NEW r \in Request, NEW p, NEW st, NEW g, NEW h
  PROVE  req' = [req EXCEPT ![r] = [@ EXCEPT !.at = p, !.status = st, !.got = g, !.heard = h]]
           => Becomes(r, p, st, g, h, req[r].quiet)
<1>1. ReqShape(req[r])
  BY DEF Shapes
<1>2. [req[r] EXCEPT !.at = p, !.status = st, !.got = g, !.heard = h]
        = Edited(req[r], p, st, g, h, req[r].quiet)
  BY <1>1, EditRead
<1> QED BY <1>2, Zenon DEF Becomes

LEMMA QuietBecomes ==
  ASSUME Shapes, NEW r \in Request, NEW p, NEW st, NEW q
  PROVE  req' = [req EXCEPT ![r] = [@ EXCEPT !.at = p, !.status = st, !.quiet = q]]
           => Becomes(r, p, st, req[r].got, req[r].heard, q)
<1>1. ReqShape(req[r])
  BY DEF Shapes
<1>2. [req[r] EXCEPT !.at = p, !.status = st, !.quiet = q]
        = Edited(req[r], p, st, req[r].got, req[r].heard, q)
  <2>1. PICK x : x = req[r]
    OBVIOUS
  <2>2. [x EXCEPT !.at = p, !.status = st, !.quiet = q]
          = [[[x EXCEPT !.at = p] EXCEPT !.status = st] EXCEPT !.quiet = q]
    OBVIOUS
  <2>3. [[[x EXCEPT !.at = p] EXCEPT !.status = st] EXCEPT !.quiet = q]
          = [Edited(x, p, st, x.got, x.heard, x.quiet) EXCEPT !.quiet = q]
    <3>1. ReqShape(x)
      BY <1>1, <2>1
    <3> QED BY <3>1, EditStatus
  <2>4. [x EXCEPT !.at = p, !.status = st, !.quiet = q] = Edited(x, p, st, x.got, x.heard, q)
    BY <2>2, <2>3 DEF Edited
  <2> QED BY <2>1, <2>4, Zenon
<1> QED BY <1>2, Zenon DEF Becomes

LEMMA SameRequest ==
  ASSUME Shapes, NEW r \in Request, UNCHANGED req
  PROVE  Stays(r, req[r].at) /\ req[r].at \in ReqPlaces
<1>1. ReqShape(req[r]) /\ req = [d \in Request |-> req[d]]
  BY DEF Shapes
<1>2. Edited(req[r], req[r].at, req[r].status, req[r].got, req[r].heard, req[r].quiet) = req[r]
  BY <1>1 DEF ReqShape, Edited
<1> QED BY <1>1, <1>2 DEF Stays, Becomes, ReqShape

\* The fields of the request that moved; the others are what they were.
LEMMA BecomesFields ==
  ASSUME Shapes, NEW r \in Request, NEW p \in ReqPlaces, NEW st, NEW g, NEW h, NEW q \in BOOLEAN,
         Becomes(r, p, st, g, h, q)
  PROVE  /\ req'[r] = Edited(req[r], p, st, g, h, q)
         /\ \A d \in Request : d # r => req'[d] = req[d]
         /\ req' = [d \in Request |-> req'[d]]
         /\ \A d \in Request : ReqShape(req'[d])
<1>1. req'[r] = Edited(req[r], p, st, g, h, q) /\ req' = [d \in Request |-> req'[d]]
  BY DEF Shapes, Becomes
<1>2. \A d \in Request : d # r => req'[d] = req[d]
  BY DEF Shapes, Becomes
<1>3. ReqShape(Edited(req[r], p, st, g, h, q))
  BY DEF Shapes, ReqShape, Edited
<1> QED BY <1>1, <1>2, <1>3 DEF Shapes
-----------------------------------------------------------------------------
(* The life of a request, action by action. *)

\* A marker stays, and stays read where it was read.
MarkersKept == revoked \subseteq revoked' /\ Visible \subseteq Visible'
USE DEF markers, Visible, MarkersKept

\* Only request r was touched, and no session was restored.
Alone(r) ==
  /\ \A d \in Request : d # r => /\ req'[d] = req[d] /\ origin'[d] = origin[d]
                                 /\ reval'[d] = reval[d] /\ times'[d] = times[d]
  /\ MarkersKept

LivesOn(r) == Shapes' /\ Life(r)' /\ Alone(r)

\* What the edge's steps do to a request (x, o, b become y, n, c) for the caches: nothing
\* new is finished or arrives, and what a load is given or leaves to be stored is what
\* arrived or the copy cp.

Course(x, o, b, y, n, c, cp) ==
  /\ Ended(y, n) => Ended(x, o)
  /\ n.at = "written" => o.at = "written"
  /\ Ready(y, n, c) => Ready(x, o, b) /\ n = o
  /\ c.at = "put" => c = b \/ (Ready(x, o, b) /\ c.got = o.got)
  /\ y.kind = x.kind /\ y.owed = x.owed
  /\ Shows(y) => \/ Shows(x) /\ y.got = x.got
                 \/ Ready(x, o, b) /\ y.got = o.got
                 \/ cp # None /\ y.got = cp.got

EdgeMoves(r) ==
  /\ Course(req[r], origin[r], reval[r], req'[r], origin'[r], reval'[r], copy)
  /\ SettledReq(req'[r]) <=> SettledReq(req[r])

OriginOf(r, o) == origin' = [origin EXCEPT ![r] = o]
RevalOf(r, b)  == reval' = [reval EXCEPT ![r] = b]
TimesOf(r, t)  == times' = [times EXCEPT ![r] = t]

LEMMA SameEntries ==
  ASSUME Shapes, NEW r \in Request
  PROVE  /\ UNCHANGED origin => OriginOf(r, origin[r]) /\ Entry(origin[r], OriginPlaces)
         /\ UNCHANGED reval => RevalOf(r, reval[r]) /\ Entry(reval[r], {"none", "fetch", "put"})
         /\ UNCHANGED times => TimesOf(r, times[r]) /\ times[r] \in Nat
BY DEF Shapes, OriginOf, RevalOf, TimesOf

LEMMA LivesTo ==
  ASSUME Shapes, NEW r \in Request,
         NEW x, ReqShape(x), req' = [req EXCEPT ![r] = x],
         NEW o, Entry(o, OriginPlaces), OriginOf(r, o),
         NEW b, Entry(b, {"none", "fetch", "put"}), RevalOf(r, b),
         NEW t \in Nat, TimesOf(r, t), MarkersKept,
         Lives(x, o, b, t, revoked', Visible')
  PROVE  LivesOn(r) /\ req'[r] = x /\ origin'[r] = o /\ reval'[r] = b
<1>1. /\ req'[r] = x /\ req' = [d \in Request |-> req'[d]]
      /\ \A d \in Request : d # r => req'[d] = req[d]
      /\ \A d \in Request : ReqShape(req'[d])
  BY DEF Shapes
<1>2. /\ origin'[r] = o /\ origin' = [d \in Request |-> origin'[d]]
      /\ \A d \in Request : d # r => origin'[d] = origin[d]
  BY DEF OriginOf, Shapes
<1>3. /\ reval'[r] = b /\ reval' = [d \in Request |-> reval'[d]]
      /\ \A d \in Request : d # r => reval'[d] = reval[d]
  BY DEF RevalOf, Shapes
<1>4. /\ times'[r] = t /\ times' \in [Request -> Nat]
      /\ \A d \in Request : d # r => times'[d] = times[d]
  BY DEF TimesOf, Shapes
<1>5. Shapes'
  BY <1>1, <1>2, <1>3, <1>4 DEF Shapes
<1>6. Life(r)'
  BY <1>1, <1>2, <1>3, <1>4 DEF Life
<1> QED BY <1>1, <1>2, <1>3, <1>4, <1>5, <1>6 DEF LivesOn, Alone

LEMMA LivesFrom ==
  ASSUME Shapes, NEW r \in Request,
         NEW p \in ReqPlaces, NEW st, NEW g, NEW h, NEW q \in BOOLEAN, Becomes(r, p, st, g, h, q),
         NEW o, Entry(o, OriginPlaces), OriginOf(r, o),
         NEW b, Entry(b, {"none", "fetch", "put"}), RevalOf(r, b),
         NEW t \in Nat, TimesOf(r, t), MarkersKept,
         Lives(Edited(req[r], p, st, g, h, q), o, b, t, revoked', Visible')
  PROVE  LivesOn(r) /\ req'[r] = Edited(req[r], p, st, g, h, q) /\ origin'[r] = o /\ reval'[r] = b
<1>1. ReqShape(Edited(req[r], p, st, g, h, q))
  BY DEF Shapes, ReqShape, Edited
<1> QED BY <1>1, LivesTo DEF Becomes

LEMMA LifeBegin ==
  ASSUME Shapes, NEW r \in Request, Life(r), NEW k, NEW s, Begin(r, k, s),
         LoggedOut \subseteq revoked
  PROVE  /\ LivesOn(r) /\ origin'[r] = None /\ reval'[r] = None /\ origin[r] = None
         /\ req'[r].heard = "none" /\ req'[r].status = "none" /\ req'[r].owed \subseteq Settled
         /\ ~SettledReq(req[r])
<1>1. PICK p, w, y, z : /\ p = CASE k = "load" -> "boot" [] k = "logout" -> "logout" [] OTHER -> "guard"
                        /\ z = (s \in LoggedOut \ spreading)
                        /\ w = {q \in Settled : k = "load"} /\ y = {q \in Heard : k = "load"}
  OBVIOUS
<1>2. ReqShape(req[r]) /\ k \in AllKinds /\ req[r].at = "idle" /\ z \in BOOLEAN
  BY <1>1, KindsAssumption DEF Shapes, Begin
<1>3. PICK x : x = [at |-> p, kind |-> k, session |-> s, status |-> req[r].status,
          heard |-> req[r].heard, got |-> req[r].got, owed |-> w, before |-> y, late |-> z,
          quiet |-> req[r].quiet]
  OBVIOUS
<1>4. req' = [req EXCEPT ![r] = x]
  <2> DEFINE Rec(kind, session, owed, before, late) ==
               [at |-> p, kind |-> kind, session |-> session, status |-> req[r].status,
                heard |-> req[r].heard, got |-> req[r].got, owed |-> owed, before |-> before,
                late |-> late, quiet |-> req[r].quiet]
             x1 == Rec(req[r].kind, req[r].session, req[r].owed, req[r].before, req[r].late)
             x2 == Rec(k, req[r].session, req[r].owed, req[r].before, req[r].late)
             x3 == Rec(k, s, req[r].owed, req[r].before, req[r].late)
             x4 == Rec(k, s, w, req[r].before, req[r].late)
             x5 == Rec(k, s, w, y, req[r].late)
  <2>1. [req[r] EXCEPT !.at = p] = x1
    BY <1>2, EditAt DEF Edited
  <2>2. [x1 EXCEPT !.kind = k] = x2
    OBVIOUS
  <2>3. [x2 EXCEPT !.session = s] = x3
    OBVIOUS
  <2>4. [x3 EXCEPT !.owed = w] = x4
    OBVIOUS
  <2>5. [x4 EXCEPT !.before = y] = x5
    OBVIOUS
  <2>6. [x5 EXCEPT !.late = z] = x
    BY <1>3
  <2> HIDE DEF x1, x2, x3, x4, x5
  <2>7. [req[r] EXCEPT !.at = p, !.kind = k, !.session = s, !.owed = w, !.before = y, !.late = z] = x
    BY <2>1, <2>2, <2>3, <2>4, <2>5, <2>6, Zenon
  <2> QED BY <1>1, <2>7 DEF Begin
<1>5. ReqShape(x)
  BY <1>1, <1>2, <1>3 DEF ReqShape, ReqPlaces, AllKinds
<1>6. Lives(x, origin[r], reval[r], times[r], revoked, Visible)
  <2>1. /\ k = "load" => p = "boot"
        /\ k = "logout" => p = "logout"
        /\ k \in Mutations => p = "guard"
        /\ k \in {"load", "logout"} \union Mutations
    BY <1>1, <1>2 DEF AllKinds, Mutations
  <2>0. k \in {"load", "logout"} \union {"mutate", "originOnly"}
    BY <2>1 DEF Mutations
  <2>2. /\ x.at = p /\ x.kind = k /\ x.session = s /\ x.status = "none" /\ x.heard = "none"
        /\ x.late = z /\ (z => s \in Visible) /\ ~x.quiet
        /\ origin[r] = None /\ reval[r] = None /\ times[r] = 0
    BY <1>1, <1>2, <1>3 DEF Life, Lives, PlaceOfKind, Untouched, Applied
  <2>3. CASE k = "load"
    <3>0. p = "boot"
      BY <2>1, <2>3
    <3>1. PlaceOfKind(x)
      BY <2>0, <2>2, <2>3, <3>0 DEF PlaceOfKind, Mutations
    <3>2. Untouched(x, origin[r], reval[r], times[r])
      BY <2>0, <2>2, <2>3, <3>0 DEF Untouched, Mutations, None
    <3>3. Applied(x, origin[r], times[r])
      BY <2>0, <2>2, <2>3, <3>0 DEF Applied, Mutations, None
    <3>4. Barred(x, origin[r], times[r], revoked, Visible)
      BY <2>0, <2>2, <2>3, <3>0 DEF Barred
    <3> QED BY <3>1, <3>2, <3>3, <3>4 DEF Lives
  <2>4. CASE k = "logout"
    <3>0. p = "logout"
      BY <2>1, <2>4
    <3>1. PlaceOfKind(x)
      BY <2>0, <2>2, <2>4, <3>0 DEF PlaceOfKind, Mutations
    <3>2. Untouched(x, origin[r], reval[r], times[r])
      BY <2>0, <2>2, <2>4, <3>0 DEF Untouched, Mutations, None
    <3>3. Applied(x, origin[r], times[r])
      BY <2>0, <2>2, <2>4, <3>0 DEF Applied, Mutations, None
    <3>4. Barred(x, origin[r], times[r], revoked, Visible)
      BY <2>0, <2>2, <2>4, <3>0 DEF Barred
    <3> QED BY <3>1, <3>2, <3>3, <3>4 DEF Lives
  <2>5. CASE k \in Mutations
    <3>0. p = "guard"
      BY <2>1, <2>5
    <3>1. PlaceOfKind(x)
      BY <2>0, <2>2, <2>5, <3>0 DEF PlaceOfKind, Mutations
    <3>2. Untouched(x, origin[r], reval[r], times[r])
      BY <2>0, <2>2, <2>5, <3>0 DEF Untouched, Mutations, None
    <3>3. Applied(x, origin[r], times[r])
      BY <2>0, <2>2, <2>5, <3>0 DEF Applied, Mutations, None
    <3>4. Barred(x, origin[r], times[r], revoked, Visible)
      BY <2>0, <2>2, <2>5, <3>0 DEF Barred
    <3> QED BY <3>1, <3>2, <3>3, <3>4 DEF Lives
  <2> QED BY <2>1, <2>3, <2>4, <2>5
<1>7. /\ OriginOf(r, origin[r]) /\ RevalOf(r, reval[r]) /\ TimesOf(r, times[r])
      /\ revoked' = revoked /\ Visible' = Visible
      /\ Entry(origin[r], OriginPlaces) /\ Entry(reval[r], {"none", "fetch", "put"}) /\ times[r] \in Nat
  BY SameEntries DEF Begin, data, Shapes
<1>8. LivesOn(r) /\ req'[r] = x /\ origin'[r] = origin[r] /\ reval'[r] = reval[r]
  BY <1>4, <1>5, <1>6, <1>7, LivesTo
<1>9. /\ x.heard = "none" /\ x.status = "none" /\ origin[r] = None /\ reval[r] = None
      /\ ~SettledReq(req[r])
  BY <1>2, <1>3 DEF Life, Lives, PlaceOfKind, Untouched, SettledReq
<1> QED BY <1>1, <1>3, <1>8, <1>9

LEMMA LifeBootVerify ==
  ASSUME Shapes, NEW r \in Request, Life(r), BootVerify(r)
  PROVE  LivesOn(r) /\ EdgeMoves(r)
<1>0. /\ ReqShape(req[r]) /\ req[r].at \in ReqPlaces /\ req[r].late \in BOOLEAN /\ req[r].quiet \in BOOLEAN
      /\ Entry(origin[r], OriginPlaces) /\ Entry(reval[r], {"none", "fetch", "put"}) /\ times[r] \in Nat
  BY DEF Shapes, ReqShape
<1>c. (Verified(req[r].session) /\ Go(r, "cache")) \/ (NotVerified(req[r].session) /\ Go(r, "guard"))
  BY DEF BootVerify, Verified
<1>1. CASE Verified(req[r].session) /\ Go(r, "cache")
  <2>1. Becomes(r, "cache", req[r].status, req[r].got, req[r].heard, req[r].quiet)
    BY <1>0, <1>1, GoBecomes, AnswerBecomes DEF BootVerify, Stays, Answered, Verified
  <2>2. OriginOf(r, origin[r]) /\ RevalOf(r, reval[r]) /\ TimesOf(r, times[r]) /\ MarkersKept
    BY <1>1, SameEntries DEF BootVerify, OriginOf, RevalOf, TimesOf, caches, data
  <2>3. "cache" \in ReqPlaces /\ Entry(origin[r], OriginPlaces) /\ Entry(reval[r], {"none", "fetch", "put"}) /\ times[r] \in Nat
    BY <1>0 DEF Entry, OriginPlaces, None, ReqPlaces
  <2>4. Lives(Edited(req[r], "cache", req[r].status, req[r].got, req[r].heard, req[r].quiet),
             origin[r], reval[r], times[r], revoked', Visible')
    BY <1>0, <1>1, <2>2 DEF Lives, PlaceOfKind, Untouched, Applied, Barred, Edited, Mutations, Entry, None, Life, BootVerify, Verified
  <2>5. /\ Course(req[r], origin[r], reval[r],
                   Edited(req[r], "cache", req[r].status, req[r].got, req[r].heard, req[r].quiet), origin[r], reval[r], copy)
        /\ SettledReq(Edited(req[r], "cache", req[r].status, req[r].got, req[r].heard, req[r].quiet)) <=> SettledReq(req[r])
    BY <1>0, <1>1, <2>2 DEF Course, Ready, Shows, Ended, SettledReq, Lives, PlaceOfKind, Untouched, Applied,
         Edited, Mutations, Entry, None, Life, BootVerify, Verified
  <2>6. /\ LivesOn(r) /\ req'[r] = Edited(req[r], "cache", req[r].status, req[r].got, req[r].heard, req[r].quiet)
        /\ origin'[r] = origin[r] /\ reval'[r] = reval[r]
    BY <1>0, <2>1, <2>2, <2>3, <2>4, LivesFrom
  <2> QED BY <2>5, <2>6 DEF EdgeMoves
<1>2. CASE NotVerified(req[r].session) /\ Go(r, "guard")
  <2>1. Becomes(r, "guard", req[r].status, req[r].got, req[r].heard, req[r].quiet)
    BY <1>0, <1>2, GoBecomes, AnswerBecomes DEF BootVerify, Stays, Answered, Verified
  <2>2. OriginOf(r, origin[r]) /\ RevalOf(r, reval[r]) /\ TimesOf(r, times[r]) /\ MarkersKept
    BY <1>2, SameEntries DEF BootVerify, OriginOf, RevalOf, TimesOf, caches, data
  <2>3. "guard" \in ReqPlaces /\ Entry(origin[r], OriginPlaces) /\ Entry(reval[r], {"none", "fetch", "put"}) /\ times[r] \in Nat
    BY <1>0 DEF Entry, OriginPlaces, None, ReqPlaces
  <2>4. Lives(Edited(req[r], "guard", req[r].status, req[r].got, req[r].heard, req[r].quiet),
             origin[r], reval[r], times[r], revoked', Visible')
    BY <1>0, <1>2, <2>2 DEF Lives, PlaceOfKind, Untouched, Applied, Barred, Edited, Mutations, Entry, None, Life, BootVerify, Verified
  <2>5. /\ Course(req[r], origin[r], reval[r],
                   Edited(req[r], "guard", req[r].status, req[r].got, req[r].heard, req[r].quiet), origin[r], reval[r], copy)
        /\ SettledReq(Edited(req[r], "guard", req[r].status, req[r].got, req[r].heard, req[r].quiet)) <=> SettledReq(req[r])
    BY <1>0, <1>2, <2>2 DEF Course, Ready, Shows, Ended, SettledReq, Lives, PlaceOfKind, Untouched, Applied,
         Edited, Mutations, Entry, None, Life, BootVerify, Verified
  <2>6. /\ LivesOn(r) /\ req'[r] = Edited(req[r], "guard", req[r].status, req[r].got, req[r].heard, req[r].quiet)
        /\ origin'[r] = origin[r] /\ reval'[r] = reval[r]
    BY <1>0, <2>1, <2>2, <2>3, <2>4, LivesFrom
  <2> QED BY <2>5, <2>6 DEF EdgeMoves
<1> QED BY <1>c, <1>1, <1>2

LEMMA LifeBootFromCopy ==
  ASSUME Shapes, NEW r \in Request, Life(r), BootFromCopy(r)
  PROVE  LivesOn(r) /\ EdgeMoves(r)
<1>0. /\ ReqShape(req[r]) /\ req[r].at \in ReqPlaces /\ req[r].late \in BOOLEAN /\ req[r].quiet \in BOOLEAN
      /\ Entry(origin[r], OriginPlaces) /\ Entry(reval[r], {"none", "fetch", "put"}) /\ times[r] \in Nat
  BY DEF Shapes, ReqShape
<1>c. (copy.at = "stale") \/ (copy.at # "stale")
  BY DEF BootFromCopy
<1>1. CASE copy.at = "stale"
  <2>1. Becomes(r, "answered", "ok", copy.got, req[r].heard, req[r].quiet)
    BY <1>0, <1>1, GoBecomes, AnswerBecomes DEF BootFromCopy, Stays, Answered
  <2>2. OriginOf(r, [at |-> "sent"]) /\ RevalOf(r, [at |-> "fetch", was |-> {copy.got}]) /\ TimesOf(r, times[r]) /\ MarkersKept
    BY <1>1, SameEntries DEF BootFromCopy, OriginOf, RevalOf, TimesOf, caches, data
  <2>3. "answered" \in ReqPlaces /\ Entry([at |-> "sent"], OriginPlaces) /\ Entry([at |-> "fetch", was |-> {copy.got}], {"none", "fetch", "put"}) /\ times[r] \in Nat
    BY <1>0 DEF Entry, OriginPlaces, None, ReqPlaces
  <2>4. Lives(Edited(req[r], "answered", "ok", copy.got, req[r].heard, req[r].quiet),
             [at |-> "sent"], [at |-> "fetch", was |-> {copy.got}], times[r], revoked', Visible')
    BY <1>0, <1>1, <2>2 DEF Lives, PlaceOfKind, Untouched, Applied, Barred, Edited, Mutations, Entry, None, Life, BootFromCopy
  <2>5. /\ Course(req[r], origin[r], reval[r],
                   Edited(req[r], "answered", "ok", copy.got, req[r].heard, req[r].quiet), [at |-> "sent"], [at |-> "fetch", was |-> {copy.got}], copy)
        /\ SettledReq(Edited(req[r], "answered", "ok", copy.got, req[r].heard, req[r].quiet)) <=> SettledReq(req[r])
    BY <1>0, <1>1, <2>2 DEF Course, Ready, Shows, Ended, SettledReq, Lives, PlaceOfKind, Untouched, Applied,
         Edited, Mutations, Entry, None, Life, BootFromCopy
  <2>6. /\ LivesOn(r) /\ req'[r] = Edited(req[r], "answered", "ok", copy.got, req[r].heard, req[r].quiet)
        /\ origin'[r] = [at |-> "sent"] /\ reval'[r] = [at |-> "fetch", was |-> {copy.got}]
    BY <1>0, <2>1, <2>2, <2>3, <2>4, LivesFrom
  <2> QED BY <2>5, <2>6 DEF EdgeMoves
<1>2. CASE copy.at # "stale"
  <2>1. Becomes(r, "answered", "ok", copy.got, req[r].heard, req[r].quiet)
    BY <1>0, <1>2, GoBecomes, AnswerBecomes DEF BootFromCopy, Stays, Answered
  <2>2. OriginOf(r, origin[r]) /\ RevalOf(r, reval[r]) /\ TimesOf(r, times[r]) /\ MarkersKept
    BY <1>2, SameEntries DEF BootFromCopy, OriginOf, RevalOf, TimesOf, caches, data
  <2>3. "answered" \in ReqPlaces /\ Entry(origin[r], OriginPlaces) /\ Entry(reval[r], {"none", "fetch", "put"}) /\ times[r] \in Nat
    BY <1>0 DEF Entry, OriginPlaces, None, ReqPlaces
  <2>4. Lives(Edited(req[r], "answered", "ok", copy.got, req[r].heard, req[r].quiet),
             origin[r], reval[r], times[r], revoked', Visible')
    BY <1>0, <1>2, <2>2 DEF Lives, PlaceOfKind, Untouched, Applied, Barred, Edited, Mutations, Entry, None, Life, BootFromCopy
  <2>5. /\ Course(req[r], origin[r], reval[r],
                   Edited(req[r], "answered", "ok", copy.got, req[r].heard, req[r].quiet), origin[r], reval[r], copy)
        /\ SettledReq(Edited(req[r], "answered", "ok", copy.got, req[r].heard, req[r].quiet)) <=> SettledReq(req[r])
    BY <1>0, <1>2, <2>2 DEF Course, Ready, Shows, Ended, SettledReq, Lives, PlaceOfKind, Untouched, Applied,
         Edited, Mutations, Entry, None, Life, BootFromCopy
  <2>6. /\ LivesOn(r) /\ req'[r] = Edited(req[r], "answered", "ok", copy.got, req[r].heard, req[r].quiet)
        /\ origin'[r] = origin[r] /\ reval'[r] = reval[r]
    BY <1>0, <2>1, <2>2, <2>3, <2>4, LivesFrom
  <2> QED BY <2>5, <2>6 DEF EdgeMoves
<1> QED BY <1>c, <1>1, <1>2

LEMMA LifeBootFetch ==
  ASSUME Shapes, NEW r \in Request, Life(r), BootFetch(r)
  PROVE  LivesOn(r) /\ EdgeMoves(r)
<1>0. /\ ReqShape(req[r]) /\ req[r].at \in ReqPlaces /\ req[r].late \in BOOLEAN /\ req[r].quiet \in BOOLEAN
      /\ Entry(origin[r], OriginPlaces) /\ Entry(reval[r], {"none", "fetch", "put"}) /\ times[r] \in Nat
  BY DEF Shapes, ReqShape
<1>1. Becomes(r, "fetch", req[r].status, req[r].got, req[r].heard, req[r].quiet)
  BY <1>0, GoBecomes, AnswerBecomes DEF BootFetch, Stays, Answered
<1>2. OriginOf(r, [at |-> "sent"]) /\ RevalOf(r, reval[r]) /\ TimesOf(r, times[r]) /\ MarkersKept
  BY SameEntries DEF BootFetch, OriginOf, RevalOf, TimesOf, caches, data
<1>3. "fetch" \in ReqPlaces /\ Entry([at |-> "sent"], OriginPlaces) /\ Entry(reval[r], {"none", "fetch", "put"}) /\ times[r] \in Nat
  BY <1>0 DEF Entry, OriginPlaces, None, ReqPlaces
<1>4. Lives(Edited(req[r], "fetch", req[r].status, req[r].got, req[r].heard, req[r].quiet),
           [at |-> "sent"], reval[r], times[r], revoked', Visible')
  BY <1>0, <1>2 DEF Lives, PlaceOfKind, Untouched, Applied, Barred, Edited, Mutations, Entry, None, Life, BootFetch
<1>5. /\ Course(req[r], origin[r], reval[r],
                 Edited(req[r], "fetch", req[r].status, req[r].got, req[r].heard, req[r].quiet), [at |-> "sent"], reval[r], copy)
      /\ SettledReq(Edited(req[r], "fetch", req[r].status, req[r].got, req[r].heard, req[r].quiet)) <=> SettledReq(req[r])
  BY <1>0, <1>2 DEF Course, Ready, Shows, Ended, SettledReq, Lives, PlaceOfKind, Untouched, Applied,
       Edited, Mutations, Entry, None, Life, BootFetch
<1>6. /\ LivesOn(r) /\ req'[r] = Edited(req[r], "fetch", req[r].status, req[r].got, req[r].heard, req[r].quiet)
      /\ origin'[r] = [at |-> "sent"] /\ reval'[r] = reval[r]
  BY <1>0, <1>1, <1>2, <1>3, <1>4, LivesFrom
<1> QED BY <1>5, <1>6 DEF EdgeMoves

LEMMA LifeBootFetched ==
  ASSUME Shapes, NEW r \in Request, Life(r), BootFetched(r)
  PROVE  LivesOn(r) /\ EdgeMoves(r)
<1>0. /\ ReqShape(req[r]) /\ req[r].at \in ReqPlaces /\ req[r].late \in BOOLEAN /\ req[r].quiet \in BOOLEAN
      /\ Entry(origin[r], OriginPlaces) /\ Entry(reval[r], {"none", "fetch", "put"}) /\ times[r] \in Nat
  BY DEF Shapes, ReqShape
<1>1. Becomes(r, "answered", "ok", origin[r].got, req[r].heard, req[r].quiet)
  BY <1>0, GoBecomes, AnswerBecomes DEF BootFetched, Stays, Answered
<1>2. OriginOf(r, None) /\ RevalOf(r, [at |-> "put", got |-> origin[r].got, was |-> {}]) /\ TimesOf(r, times[r]) /\ MarkersKept
  BY SameEntries DEF BootFetched, OriginOf, RevalOf, TimesOf, caches, data
<1>3. "answered" \in ReqPlaces /\ Entry(None, OriginPlaces) /\ Entry([at |-> "put", got |-> origin[r].got, was |-> {}], {"none", "fetch", "put"}) /\ times[r] \in Nat
  BY <1>0 DEF Entry, OriginPlaces, None, ReqPlaces
<1>4. Lives(Edited(req[r], "answered", "ok", origin[r].got, req[r].heard, req[r].quiet),
           None, [at |-> "put", got |-> origin[r].got, was |-> {}], times[r], revoked', Visible')
  BY <1>0, <1>2 DEF Lives, PlaceOfKind, Untouched, Applied, Barred, Edited, Mutations, Entry, None, Life, BootFetched
<1>5. /\ Course(req[r], origin[r], reval[r],
                 Edited(req[r], "answered", "ok", origin[r].got, req[r].heard, req[r].quiet), None, [at |-> "put", got |-> origin[r].got, was |-> {}], copy)
      /\ SettledReq(Edited(req[r], "answered", "ok", origin[r].got, req[r].heard, req[r].quiet)) <=> SettledReq(req[r])
  BY <1>0, <1>2 DEF Course, Ready, Shows, Ended, SettledReq, Lives, PlaceOfKind, Untouched, Applied,
       Edited, Mutations, Entry, None, Life, BootFetched
<1>6. /\ LivesOn(r) /\ req'[r] = Edited(req[r], "answered", "ok", origin[r].got, req[r].heard, req[r].quiet)
      /\ origin'[r] = None /\ reval'[r] = [at |-> "put", got |-> origin[r].got, was |-> {}]
  BY <1>0, <1>1, <1>2, <1>3, <1>4, LivesFrom
<1> QED BY <1>5, <1>6 DEF EdgeMoves

LEMMA LifeBootMissed ==
  ASSUME Shapes, NEW r \in Request, Life(r), BootMissed(r)
  PROVE  LivesOn(r) /\ EdgeMoves(r)
<1>0. /\ ReqShape(req[r]) /\ req[r].at \in ReqPlaces /\ req[r].late \in BOOLEAN /\ req[r].quiet \in BOOLEAN
      /\ Entry(origin[r], OriginPlaces) /\ Entry(reval[r], {"none", "fetch", "put"}) /\ times[r] \in Nat
  BY DEF Shapes, ReqShape
<1>1. Becomes(r, "guard", req[r].status, req[r].got, req[r].heard, req[r].quiet)
  BY <1>0, GoBecomes, AnswerBecomes DEF BootMissed, Stays, Answered
<1>2. OriginOf(r, None) /\ RevalOf(r, reval[r]) /\ TimesOf(r, times[r]) /\ MarkersKept
  BY SameEntries DEF BootMissed, OriginOf, RevalOf, TimesOf, caches, data
<1>3. "guard" \in ReqPlaces /\ Entry(None, OriginPlaces) /\ Entry(reval[r], {"none", "fetch", "put"}) /\ times[r] \in Nat
  BY <1>0 DEF Entry, OriginPlaces, None, ReqPlaces
<1>4. Lives(Edited(req[r], "guard", req[r].status, req[r].got, req[r].heard, req[r].quiet),
           None, reval[r], times[r], revoked', Visible')
  BY <1>0, <1>2 DEF Lives, PlaceOfKind, Untouched, Applied, Barred, Edited, Mutations, Entry, None, Life, BootMissed
<1>5. /\ Course(req[r], origin[r], reval[r],
                 Edited(req[r], "guard", req[r].status, req[r].got, req[r].heard, req[r].quiet), None, reval[r], copy)
      /\ SettledReq(Edited(req[r], "guard", req[r].status, req[r].got, req[r].heard, req[r].quiet)) <=> SettledReq(req[r])
  BY <1>0, <1>2 DEF Course, Ready, Shows, Ended, SettledReq, Lives, PlaceOfKind, Untouched, Applied,
       Edited, Mutations, Entry, None, Life, BootMissed
<1>6. /\ LivesOn(r) /\ req'[r] = Edited(req[r], "guard", req[r].status, req[r].got, req[r].heard, req[r].quiet)
      /\ origin'[r] = None /\ reval'[r] = reval[r]
  BY <1>0, <1>1, <1>2, <1>3, <1>4, LivesFrom
<1> QED BY <1>5, <1>6 DEF EdgeMoves

LEMMA LifeRevalFetched ==
  ASSUME Shapes, NEW r \in Request, Life(r), RevalFetched(r)
  PROVE  LivesOn(r) /\ EdgeMoves(r)
<1>0. /\ ReqShape(req[r]) /\ req[r].at \in ReqPlaces /\ req[r].late \in BOOLEAN /\ req[r].quiet \in BOOLEAN
      /\ Entry(origin[r], OriginPlaces) /\ Entry(reval[r], {"none", "fetch", "put"}) /\ times[r] \in Nat
  BY DEF Shapes, ReqShape
<1>c. (origin[r].at = "data" /\ reval' = [reval EXCEPT ![r] = [at |-> "put", got |-> origin[r].got, was |-> reval[r].was]]) \/ (reval' = [reval EXCEPT ![r] = None])
  BY DEF RevalFetched
<1>1. CASE origin[r].at = "data" /\ reval' = [reval EXCEPT ![r] = [at |-> "put", got |-> origin[r].got, was |-> reval[r].was]]
  <2>1. Becomes(r, req[r].at, req[r].status, req[r].got, req[r].heard, req[r].quiet)
    BY <1>0, <1>1, SameRequest DEF RevalFetched, Stays, Answered
  <2>2. OriginOf(r, None) /\ RevalOf(r, [at |-> "put", got |-> origin[r].got, was |-> reval[r].was]) /\ TimesOf(r, times[r]) /\ MarkersKept
    BY <1>1, SameEntries DEF RevalFetched, OriginOf, RevalOf, TimesOf, caches, data
  <2>3. Entry(None, OriginPlaces) /\ Entry([at |-> "put", got |-> origin[r].got, was |-> reval[r].was], {"none", "fetch", "put"}) /\ times[r] \in Nat
    BY <1>0 DEF Entry, OriginPlaces, None
  <2>4. Lives(Edited(req[r], req[r].at, req[r].status, req[r].got, req[r].heard, req[r].quiet),
             None, [at |-> "put", got |-> origin[r].got, was |-> reval[r].was], times[r], revoked', Visible')
    BY <1>0, <1>1, <2>2 DEF Lives, PlaceOfKind, Untouched, Applied, Barred, Edited, Mutations, Entry, None, Life, RevalFetched
  <2>5. /\ Course(req[r], origin[r], reval[r],
                   Edited(req[r], req[r].at, req[r].status, req[r].got, req[r].heard, req[r].quiet), None, [at |-> "put", got |-> origin[r].got, was |-> reval[r].was], copy)
        /\ SettledReq(Edited(req[r], req[r].at, req[r].status, req[r].got, req[r].heard, req[r].quiet)) <=> SettledReq(req[r])
    BY <1>0, <1>1, <2>2 DEF Course, Ready, Shows, Ended, SettledReq, Lives, PlaceOfKind, Untouched, Applied,
         Edited, Mutations, Entry, None, Life, RevalFetched
  <2>6. /\ LivesOn(r) /\ req'[r] = Edited(req[r], req[r].at, req[r].status, req[r].got, req[r].heard, req[r].quiet)
        /\ origin'[r] = None /\ reval'[r] = [at |-> "put", got |-> origin[r].got, was |-> reval[r].was]
    BY <1>0, <2>1, <2>2, <2>3, <2>4, LivesFrom
  <2> QED BY <2>5, <2>6 DEF EdgeMoves
<1>2. CASE reval' = [reval EXCEPT ![r] = None]
  <2>1. Becomes(r, req[r].at, req[r].status, req[r].got, req[r].heard, req[r].quiet)
    BY <1>0, <1>2, SameRequest DEF RevalFetched, Stays, Answered
  <2>2. OriginOf(r, None) /\ RevalOf(r, None) /\ TimesOf(r, times[r]) /\ MarkersKept
    BY <1>2, SameEntries DEF RevalFetched, OriginOf, RevalOf, TimesOf, caches, data
  <2>3. Entry(None, OriginPlaces) /\ Entry(None, {"none", "fetch", "put"}) /\ times[r] \in Nat
    BY <1>0 DEF Entry, OriginPlaces, None
  <2>4. Lives(Edited(req[r], req[r].at, req[r].status, req[r].got, req[r].heard, req[r].quiet),
             None, None, times[r], revoked', Visible')
    BY <1>0, <1>2, <2>2 DEF Lives, PlaceOfKind, Untouched, Applied, Barred, Edited, Mutations, Entry, None, Life, RevalFetched
  <2>5. /\ Course(req[r], origin[r], reval[r],
                   Edited(req[r], req[r].at, req[r].status, req[r].got, req[r].heard, req[r].quiet), None, None, copy)
        /\ SettledReq(Edited(req[r], req[r].at, req[r].status, req[r].got, req[r].heard, req[r].quiet)) <=> SettledReq(req[r])
    BY <1>0, <1>2, <2>2 DEF Course, Ready, Shows, Ended, SettledReq, Lives, PlaceOfKind, Untouched, Applied,
         Edited, Mutations, Entry, None, Life, RevalFetched
  <2>6. /\ LivesOn(r) /\ req'[r] = Edited(req[r], req[r].at, req[r].status, req[r].got, req[r].heard, req[r].quiet)
        /\ origin'[r] = None /\ reval'[r] = None
    BY <1>0, <2>1, <2>2, <2>3, <2>4, LivesFrom
  <2> QED BY <2>5, <2>6 DEF EdgeMoves
<1> QED BY <1>c, <1>1, <1>2

LEMMA LifeStoreCopy ==
  ASSUME Shapes, NEW r \in Request, Life(r), StoreCopy(r)
  PROVE  LivesOn(r) /\ EdgeMoves(r)
<1>0. /\ ReqShape(req[r]) /\ req[r].at \in ReqPlaces /\ req[r].late \in BOOLEAN /\ req[r].quiet \in BOOLEAN
      /\ Entry(origin[r], OriginPlaces) /\ Entry(reval[r], {"none", "fetch", "put"}) /\ times[r] \in Nat
  BY DEF Shapes, ReqShape
<1>1. Becomes(r, req[r].at, req[r].status, req[r].got, req[r].heard, req[r].quiet)
  BY <1>0, SameRequest DEF StoreCopy, Stays, Answered
<1>2. OriginOf(r, origin[r]) /\ RevalOf(r, None) /\ TimesOf(r, times[r]) /\ MarkersKept
  BY SameEntries DEF StoreCopy, OriginOf, RevalOf, TimesOf, caches, data
<1>3. Entry(origin[r], OriginPlaces) /\ Entry(None, {"none", "fetch", "put"}) /\ times[r] \in Nat
  BY <1>0 DEF Entry, OriginPlaces, None
<1>4. Lives(Edited(req[r], req[r].at, req[r].status, req[r].got, req[r].heard, req[r].quiet),
           origin[r], None, times[r], revoked', Visible')
  BY <1>0, <1>2 DEF Lives, PlaceOfKind, Untouched, Applied, Barred, Edited, Mutations, Entry, None, Life, StoreCopy
<1>5. /\ Course(req[r], origin[r], reval[r],
                 Edited(req[r], req[r].at, req[r].status, req[r].got, req[r].heard, req[r].quiet), origin[r], None, copy)
      /\ SettledReq(Edited(req[r], req[r].at, req[r].status, req[r].got, req[r].heard, req[r].quiet)) <=> SettledReq(req[r])
  BY <1>0, <1>2 DEF Course, Ready, Shows, Ended, SettledReq, Lives, PlaceOfKind, Untouched, Applied,
       Edited, Mutations, Entry, None, Life, StoreCopy
<1>6. /\ LivesOn(r) /\ req'[r] = Edited(req[r], req[r].at, req[r].status, req[r].got, req[r].heard, req[r].quiet)
      /\ origin'[r] = origin[r] /\ reval'[r] = None
  BY <1>0, <1>1, <1>2, <1>3, <1>4, LivesFrom
<1> QED BY <1>5, <1>6 DEF EdgeMoves

LEMMA LifeGuard ==
  ASSUME Shapes, NEW r \in Request, Life(r), Guard(r)
  PROVE  LivesOn(r) /\ EdgeMoves(r)
<1>0. /\ ReqShape(req[r]) /\ req[r].at \in ReqPlaces /\ req[r].late \in BOOLEAN /\ req[r].quiet \in BOOLEAN
      /\ Entry(origin[r], OriginPlaces) /\ Entry(reval[r], {"none", "fetch", "put"}) /\ times[r] \in Nat
  BY DEF Shapes, ReqShape
<1>c. (Verified(req[r].session) /\ Go(r, "proxied") /\ origin' = [origin EXCEPT ![r] = [at |-> "sent"]]) \/ (NotVerified(req[r].session) /\ Answer(r, "unauthorized", {}) /\ UNCHANGED origin)
  BY DEF Guard, Verified
<1>1. CASE Verified(req[r].session) /\ Go(r, "proxied") /\ origin' = [origin EXCEPT ![r] = [at |-> "sent"]]
  <2>1. Becomes(r, "proxied", req[r].status, req[r].got, req[r].heard, req[r].quiet)
    BY <1>0, <1>1, GoBecomes, AnswerBecomes DEF Guard, Stays, Answered, Verified
  <2>2. OriginOf(r, [at |-> "sent"]) /\ RevalOf(r, reval[r]) /\ TimesOf(r, times[r]) /\ MarkersKept
    BY <1>1, SameEntries DEF Guard, OriginOf, RevalOf, TimesOf, caches, data
  <2>3. "proxied" \in ReqPlaces /\ Entry([at |-> "sent"], OriginPlaces) /\ Entry(reval[r], {"none", "fetch", "put"}) /\ times[r] \in Nat
    BY <1>0 DEF Entry, OriginPlaces, None, ReqPlaces
  <2>4. Lives(Edited(req[r], "proxied", req[r].status, req[r].got, req[r].heard, req[r].quiet),
             [at |-> "sent"], reval[r], times[r], revoked', Visible')
    BY <1>0, <1>1, <2>2 DEF Lives, PlaceOfKind, Untouched, Applied, Barred, Edited, Mutations, Entry, None, Life, Guard, Verified
  <2>5. /\ Course(req[r], origin[r], reval[r],
                   Edited(req[r], "proxied", req[r].status, req[r].got, req[r].heard, req[r].quiet), [at |-> "sent"], reval[r], copy)
        /\ SettledReq(Edited(req[r], "proxied", req[r].status, req[r].got, req[r].heard, req[r].quiet)) <=> SettledReq(req[r])
    BY <1>0, <1>1, <2>2 DEF Course, Ready, Shows, Ended, SettledReq, Lives, PlaceOfKind, Untouched, Applied,
         Edited, Mutations, Entry, None, Life, Guard, Verified
  <2>6. /\ LivesOn(r) /\ req'[r] = Edited(req[r], "proxied", req[r].status, req[r].got, req[r].heard, req[r].quiet)
        /\ origin'[r] = [at |-> "sent"] /\ reval'[r] = reval[r]
    BY <1>0, <2>1, <2>2, <2>3, <2>4, LivesFrom
  <2> QED BY <2>5, <2>6 DEF EdgeMoves
<1>2. CASE NotVerified(req[r].session) /\ Answer(r, "unauthorized", {}) /\ UNCHANGED origin
  <2>1. Becomes(r, "answered", "unauthorized", {}, req[r].heard, req[r].quiet)
    BY <1>0, <1>2, GoBecomes, AnswerBecomes DEF Guard, Stays, Answered, Verified
  <2>2. OriginOf(r, origin[r]) /\ RevalOf(r, reval[r]) /\ TimesOf(r, times[r]) /\ MarkersKept
    BY <1>2, SameEntries DEF Guard, OriginOf, RevalOf, TimesOf, caches, data
  <2>3. "answered" \in ReqPlaces /\ Entry(origin[r], OriginPlaces) /\ Entry(reval[r], {"none", "fetch", "put"}) /\ times[r] \in Nat
    BY <1>0 DEF Entry, OriginPlaces, None, ReqPlaces
  <2>4. Lives(Edited(req[r], "answered", "unauthorized", {}, req[r].heard, req[r].quiet),
             origin[r], reval[r], times[r], revoked', Visible')
    BY <1>0, <1>2, <2>2 DEF Lives, PlaceOfKind, Untouched, Applied, Barred, Edited, Mutations, Entry, None, Life, Guard, Verified
  <2>5. /\ Course(req[r], origin[r], reval[r],
                   Edited(req[r], "answered", "unauthorized", {}, req[r].heard, req[r].quiet), origin[r], reval[r], copy)
        /\ SettledReq(Edited(req[r], "answered", "unauthorized", {}, req[r].heard, req[r].quiet)) <=> SettledReq(req[r])
    BY <1>0, <1>2, <2>2 DEF Course, Ready, Shows, Ended, SettledReq, Lives, PlaceOfKind, Untouched, Applied,
         Edited, Mutations, Entry, None, Life, Guard, Verified
  <2>6. /\ LivesOn(r) /\ req'[r] = Edited(req[r], "answered", "unauthorized", {}, req[r].heard, req[r].quiet)
        /\ origin'[r] = origin[r] /\ reval'[r] = reval[r]
    BY <1>0, <2>1, <2>2, <2>3, <2>4, LivesFrom
  <2> QED BY <2>5, <2>6 DEF EdgeMoves
<1> QED BY <1>c, <1>1, <1>2

LEMMA LifeProxyAnswered ==
  ASSUME Shapes, NEW r \in Request, Life(r), ProxyAnswered(r)
  PROVE  LivesOn(r) /\ EdgeMoves(r)
<1>0. /\ ReqShape(req[r]) /\ req[r].at \in ReqPlaces /\ req[r].late \in BOOLEAN /\ req[r].quiet \in BOOLEAN
      /\ Entry(origin[r], OriginPlaces) /\ Entry(reval[r], {"none", "fetch", "put"}) /\ times[r] \in Nat
  BY DEF Shapes, ReqShape
<1>c. (req[r].kind = "load") \/ (req[r].kind # "load")
  BY DEF ProxyAnswered
<1>1. CASE req[r].kind = "load"
  <2>1. Becomes(r, "answered", "ok", origin[r].got, req[r].heard, req[r].quiet)
    BY <1>0, <1>1, GoBecomes, AnswerBecomes, HeardBecomes DEF ProxyAnswered, Stays, Answered
  <2>2. OriginOf(r, None) /\ RevalOf(r, reval[r]) /\ TimesOf(r, times[r]) /\ MarkersKept
    BY <1>1, SameEntries DEF ProxyAnswered, OriginOf, RevalOf, TimesOf, caches, data
  <2>3. "answered" \in ReqPlaces /\ Entry(None, OriginPlaces) /\ Entry(reval[r], {"none", "fetch", "put"}) /\ times[r] \in Nat
    BY <1>0 DEF Entry, OriginPlaces, None, ReqPlaces
  <2>4. Lives(Edited(req[r], "answered", "ok", origin[r].got, req[r].heard, req[r].quiet),
             None, reval[r], times[r], revoked', Visible')
    BY <1>0, <1>1, <2>2 DEF Lives, PlaceOfKind, Untouched, Applied, Barred, Edited, Mutations, Entry, None, Life, ProxyAnswered
  <2>5. /\ Course(req[r], origin[r], reval[r],
                   Edited(req[r], "answered", "ok", origin[r].got, req[r].heard, req[r].quiet), None, reval[r], copy)
        /\ SettledReq(Edited(req[r], "answered", "ok", origin[r].got, req[r].heard, req[r].quiet)) <=> SettledReq(req[r])
    BY <1>0, <1>1, <2>2 DEF Course, Ready, Shows, Ended, SettledReq, Lives, PlaceOfKind, Untouched, Applied,
         Edited, Mutations, Entry, None, Life, ProxyAnswered
  <2>6. /\ LivesOn(r) /\ req'[r] = Edited(req[r], "answered", "ok", origin[r].got, req[r].heard, req[r].quiet)
        /\ origin'[r] = None /\ reval'[r] = reval[r]
    BY <1>0, <2>1, <2>2, <2>3, <2>4, LivesFrom
  <2> QED BY <2>5, <2>6 DEF EdgeMoves
<1>2. CASE req[r].kind # "load"
  <2>1. Becomes(r, "invalidate", req[r].status, req[r].got, "ok", req[r].quiet)
    BY <1>0, <1>2, GoBecomes, AnswerBecomes, HeardBecomes DEF ProxyAnswered, Stays, Answered
  <2>2. OriginOf(r, None) /\ RevalOf(r, reval[r]) /\ TimesOf(r, times[r]) /\ MarkersKept
    BY <1>2, SameEntries DEF ProxyAnswered, OriginOf, RevalOf, TimesOf, caches, data
  <2>3. "invalidate" \in ReqPlaces /\ Entry(None, OriginPlaces) /\ Entry(reval[r], {"none", "fetch", "put"}) /\ times[r] \in Nat
    BY <1>0 DEF Entry, OriginPlaces, None, ReqPlaces
  <2>4. Lives(Edited(req[r], "invalidate", req[r].status, req[r].got, "ok", req[r].quiet),
             None, reval[r], times[r], revoked', Visible')
    BY <1>0, <1>2, <2>2 DEF Lives, PlaceOfKind, Untouched, Applied, Barred, Edited, Mutations, Entry, None, Life, ProxyAnswered
  <2>5. /\ Course(req[r], origin[r], reval[r],
                   Edited(req[r], "invalidate", req[r].status, req[r].got, "ok", req[r].quiet), None, reval[r], copy)
        /\ SettledReq(Edited(req[r], "invalidate", req[r].status, req[r].got, "ok", req[r].quiet)) <=> SettledReq(req[r])
    BY <1>0, <1>2, <2>2 DEF Course, Ready, Shows, Ended, SettledReq, Lives, PlaceOfKind, Untouched, Applied,
         Edited, Mutations, Entry, None, Life, ProxyAnswered
  <2>6. /\ LivesOn(r) /\ req'[r] = Edited(req[r], "invalidate", req[r].status, req[r].got, "ok", req[r].quiet)
        /\ origin'[r] = None /\ reval'[r] = reval[r]
    BY <1>0, <2>1, <2>2, <2>3, <2>4, LivesFrom
  <2> QED BY <2>5, <2>6 DEF EdgeMoves
<1> QED BY <1>c, <1>1, <1>2

LEMMA LifeProxyRefused ==
  ASSUME Shapes, NEW r \in Request, Life(r), ProxyRefused(r)
  PROVE  LivesOn(r) /\ EdgeMoves(r)
<1>0. /\ ReqShape(req[r]) /\ req[r].at \in ReqPlaces /\ req[r].late \in BOOLEAN /\ req[r].quiet \in BOOLEAN
      /\ Entry(origin[r], OriginPlaces) /\ Entry(reval[r], {"none", "fetch", "put"}) /\ times[r] \in Nat
  BY DEF Shapes, ReqShape
<1>c. (req' = [req EXCEPT ![r].at = "edge", ![r].heard = "refused"]) \/ (Answer(r, "unauthorized", {}))
  BY DEF ProxyRefused
<1>1. CASE req' = [req EXCEPT ![r].at = "edge", ![r].heard = "refused"]
  <2>1. Becomes(r, "edge", req[r].status, req[r].got, "refused", req[r].quiet)
    BY <1>0, <1>1, HeardBecomes, AnswerBecomes DEF ProxyRefused, Stays, Answered
  <2>2. OriginOf(r, None) /\ RevalOf(r, reval[r]) /\ TimesOf(r, times[r]) /\ MarkersKept
    BY <1>1, SameEntries DEF ProxyRefused, OriginOf, RevalOf, TimesOf, caches, data
  <2>3. "edge" \in ReqPlaces /\ Entry(None, OriginPlaces) /\ Entry(reval[r], {"none", "fetch", "put"}) /\ times[r] \in Nat
    BY <1>0 DEF Entry, OriginPlaces, None, ReqPlaces
  <2>4. Lives(Edited(req[r], "edge", req[r].status, req[r].got, "refused", req[r].quiet),
             None, reval[r], times[r], revoked', Visible')
    BY <1>0, <1>1, <2>2 DEF Lives, PlaceOfKind, Untouched, Applied, Barred, Edited, Mutations, Entry, None, Life, ProxyRefused
  <2>5. /\ Course(req[r], origin[r], reval[r],
                   Edited(req[r], "edge", req[r].status, req[r].got, "refused", req[r].quiet), None, reval[r], copy)
        /\ SettledReq(Edited(req[r], "edge", req[r].status, req[r].got, "refused", req[r].quiet)) <=> SettledReq(req[r])
    BY <1>0, <1>1, <2>2 DEF Course, Ready, Shows, Ended, SettledReq, Lives, PlaceOfKind, Untouched, Applied,
         Edited, Mutations, Entry, None, Life, ProxyRefused
  <2>6. /\ LivesOn(r) /\ req'[r] = Edited(req[r], "edge", req[r].status, req[r].got, "refused", req[r].quiet)
        /\ origin'[r] = None /\ reval'[r] = reval[r]
    BY <1>0, <2>1, <2>2, <2>3, <2>4, LivesFrom
  <2> QED BY <2>5, <2>6 DEF EdgeMoves
<1>2. CASE Answer(r, "unauthorized", {})
  <2>1. Becomes(r, "answered", "unauthorized", {}, req[r].heard, req[r].quiet)
    BY <1>0, <1>2, HeardBecomes, AnswerBecomes DEF ProxyRefused, Stays, Answered
  <2>2. OriginOf(r, None) /\ RevalOf(r, reval[r]) /\ TimesOf(r, times[r]) /\ MarkersKept
    BY <1>2, SameEntries DEF ProxyRefused, OriginOf, RevalOf, TimesOf, caches, data
  <2>3. "answered" \in ReqPlaces /\ Entry(None, OriginPlaces) /\ Entry(reval[r], {"none", "fetch", "put"}) /\ times[r] \in Nat
    BY <1>0 DEF Entry, OriginPlaces, None, ReqPlaces
  <2>4. Lives(Edited(req[r], "answered", "unauthorized", {}, req[r].heard, req[r].quiet),
             None, reval[r], times[r], revoked', Visible')
    BY <1>0, <1>2, <2>2 DEF Lives, PlaceOfKind, Untouched, Applied, Barred, Edited, Mutations, Entry, None, Life, ProxyRefused
  <2>5. /\ Course(req[r], origin[r], reval[r],
                   Edited(req[r], "answered", "unauthorized", {}, req[r].heard, req[r].quiet), None, reval[r], copy)
        /\ SettledReq(Edited(req[r], "answered", "unauthorized", {}, req[r].heard, req[r].quiet)) <=> SettledReq(req[r])
    BY <1>0, <1>2, <2>2 DEF Course, Ready, Shows, Ended, SettledReq, Lives, PlaceOfKind, Untouched, Applied,
         Edited, Mutations, Entry, None, Life, ProxyRefused
  <2>6. /\ LivesOn(r) /\ req'[r] = Edited(req[r], "answered", "unauthorized", {}, req[r].heard, req[r].quiet)
        /\ origin'[r] = None /\ reval'[r] = reval[r]
    BY <1>0, <2>1, <2>2, <2>3, <2>4, LivesFrom
  <2> QED BY <2>5, <2>6 DEF EdgeMoves
<1> QED BY <1>c, <1>1, <1>2

LEMMA LifeProxyRejected ==
  ASSUME Shapes, NEW r \in Request, Life(r), ProxyRejected(r)
  PROVE  LivesOn(r) /\ EdgeMoves(r)
<1>0. /\ ReqShape(req[r]) /\ req[r].at \in ReqPlaces /\ req[r].late \in BOOLEAN /\ req[r].quiet \in BOOLEAN
      /\ Entry(origin[r], OriginPlaces) /\ Entry(reval[r], {"none", "fetch", "put"}) /\ times[r] \in Nat
  BY DEF Shapes, ReqShape
<1>1. Becomes(r, "answered", "rejected", {}, req[r].heard, req[r].quiet)
  BY <1>0, GoBecomes, AnswerBecomes DEF ProxyRejected, Stays, Answered
<1>2. OriginOf(r, None) /\ RevalOf(r, reval[r]) /\ TimesOf(r, times[r]) /\ MarkersKept
  BY SameEntries DEF ProxyRejected, OriginOf, RevalOf, TimesOf, caches, data
<1>3. "answered" \in ReqPlaces /\ Entry(None, OriginPlaces) /\ Entry(reval[r], {"none", "fetch", "put"}) /\ times[r] \in Nat
  BY <1>0 DEF Entry, OriginPlaces, None, ReqPlaces
<1>4. Lives(Edited(req[r], "answered", "rejected", {}, req[r].heard, req[r].quiet),
           None, reval[r], times[r], revoked', Visible')
  BY <1>0, <1>2 DEF Lives, PlaceOfKind, Untouched, Applied, Barred, Edited, Mutations, Entry, None, Life, ProxyRejected
<1>5. /\ Course(req[r], origin[r], reval[r],
                 Edited(req[r], "answered", "rejected", {}, req[r].heard, req[r].quiet), None, reval[r], copy)
      /\ SettledReq(Edited(req[r], "answered", "rejected", {}, req[r].heard, req[r].quiet)) <=> SettledReq(req[r])
  BY <1>0, <1>2 DEF Course, Ready, Shows, Ended, SettledReq, Lives, PlaceOfKind, Untouched, Applied,
       Edited, Mutations, Entry, None, Life, ProxyRejected
<1>6. /\ LivesOn(r) /\ req'[r] = Edited(req[r], "answered", "rejected", {}, req[r].heard, req[r].quiet)
      /\ origin'[r] = None /\ reval'[r] = reval[r]
  BY <1>0, <1>1, <1>2, <1>3, <1>4, LivesFrom
<1> QED BY <1>5, <1>6 DEF EdgeMoves

LEMMA LifeProxyFailed ==
  ASSUME Shapes, NEW r \in Request, Life(r), ProxyFailed(r)
  PROVE  LivesOn(r) /\ EdgeMoves(r)
<1>0. /\ ReqShape(req[r]) /\ req[r].at \in ReqPlaces /\ req[r].late \in BOOLEAN /\ req[r].quiet \in BOOLEAN
      /\ Entry(origin[r], OriginPlaces) /\ Entry(reval[r], {"none", "fetch", "put"}) /\ times[r] \in Nat
  BY DEF Shapes, ReqShape
<1>1. Becomes(r, "edge", req[r].status, req[r].got, "failed", req[r].quiet)
  BY <1>0, HeardBecomes DEF ProxyFailed, Stays, Answered
<1>2. OriginOf(r, None) /\ RevalOf(r, reval[r]) /\ TimesOf(r, times[r]) /\ MarkersKept
  BY SameEntries DEF ProxyFailed, OriginOf, RevalOf, TimesOf, caches, data
<1>3. "edge" \in ReqPlaces /\ Entry(None, OriginPlaces) /\ Entry(reval[r], {"none", "fetch", "put"}) /\ times[r] \in Nat
  BY <1>0 DEF Entry, OriginPlaces, None, ReqPlaces
<1>4. Lives(Edited(req[r], "edge", req[r].status, req[r].got, "failed", req[r].quiet),
           None, reval[r], times[r], revoked', Visible')
  BY <1>0, <1>2 DEF Lives, PlaceOfKind, Untouched, Applied, Barred, Edited, Mutations, Entry, None, Life, ProxyFailed
<1>5. /\ Course(req[r], origin[r], reval[r],
                 Edited(req[r], "edge", req[r].status, req[r].got, "failed", req[r].quiet), None, reval[r], copy)
      /\ SettledReq(Edited(req[r], "edge", req[r].status, req[r].got, "failed", req[r].quiet)) <=> SettledReq(req[r])
  BY <1>0, <1>2 DEF Course, Ready, Shows, Ended, SettledReq, Lives, PlaceOfKind, Untouched, Applied,
       Edited, Mutations, Entry, None, Life, ProxyFailed
<1>6. /\ LivesOn(r) /\ req'[r] = Edited(req[r], "edge", req[r].status, req[r].got, "failed", req[r].quiet)
      /\ origin'[r] = None /\ reval'[r] = reval[r]
  BY <1>0, <1>1, <1>2, <1>3, <1>4, LivesFrom
<1> QED BY <1>5, <1>6 DEF EdgeMoves

LEMMA LifeProxyTimeout ==
  ASSUME Shapes, NEW r \in Request, Life(r), ProxyTimeout(r)
  PROVE  LivesOn(r) /\ EdgeMoves(r)
<1>0. /\ ReqShape(req[r]) /\ req[r].at \in ReqPlaces /\ req[r].late \in BOOLEAN /\ req[r].quiet \in BOOLEAN
      /\ Entry(origin[r], OriginPlaces) /\ Entry(reval[r], {"none", "fetch", "put"}) /\ times[r] \in Nat
  BY DEF Shapes, ReqShape
<1>1. Becomes(r, "edge", req[r].status, req[r].got, "timeout", req[r].quiet)
  BY <1>0, HeardBecomes DEF ProxyTimeout, Stays, Answered
<1>2. OriginOf(r, origin[r]) /\ RevalOf(r, reval[r]) /\ TimesOf(r, times[r]) /\ MarkersKept
  BY SameEntries DEF ProxyTimeout, OriginOf, RevalOf, TimesOf, caches, data
<1>3. "edge" \in ReqPlaces /\ Entry(origin[r], OriginPlaces) /\ Entry(reval[r], {"none", "fetch", "put"}) /\ times[r] \in Nat
  BY <1>0 DEF Entry, OriginPlaces, None, ReqPlaces
<1>4. Lives(Edited(req[r], "edge", req[r].status, req[r].got, "timeout", req[r].quiet),
           origin[r], reval[r], times[r], revoked', Visible')
  BY <1>0, <1>2 DEF Lives, PlaceOfKind, Untouched, Applied, Barred, Edited, Mutations, Entry, None, Life, ProxyTimeout
<1>5. /\ Course(req[r], origin[r], reval[r],
                 Edited(req[r], "edge", req[r].status, req[r].got, "timeout", req[r].quiet), origin[r], reval[r], copy)
      /\ SettledReq(Edited(req[r], "edge", req[r].status, req[r].got, "timeout", req[r].quiet)) <=> SettledReq(req[r])
  BY <1>0, <1>2 DEF Course, Ready, Shows, Ended, SettledReq, Lives, PlaceOfKind, Untouched, Applied,
       Edited, Mutations, Entry, None, Life, ProxyTimeout
<1>6. /\ LivesOn(r) /\ req'[r] = Edited(req[r], "edge", req[r].status, req[r].got, "timeout", req[r].quiet)
      /\ origin'[r] = origin[r] /\ reval'[r] = reval[r]
  BY <1>0, <1>1, <1>2, <1>3, <1>4, LivesFrom
<1> QED BY <1>5, <1>6 DEF EdgeMoves

LEMMA LifeLogoutVerify ==
  ASSUME Shapes, NEW r \in Request, Life(r), LogoutVerify(r)
  PROVE  LivesOn(r) /\ EdgeMoves(r)
<1>0. /\ ReqShape(req[r]) /\ req[r].at \in ReqPlaces /\ req[r].late \in BOOLEAN /\ req[r].quiet \in BOOLEAN
      /\ Entry(origin[r], OriginPlaces) /\ Entry(reval[r], {"none", "fetch", "put"}) /\ times[r] \in Nat
  BY DEF Shapes, ReqShape
<1>c. (Verified(req[r].session) /\ Go(r, "revoke")) \/ (NotVerified(req[r].session) /\ Answer(r, "unauthorized", {}))
  BY DEF LogoutVerify, Verified
<1>1. CASE Verified(req[r].session) /\ Go(r, "revoke")
  <2>1. Becomes(r, "revoke", req[r].status, req[r].got, req[r].heard, req[r].quiet)
    BY <1>0, <1>1, GoBecomes, AnswerBecomes DEF LogoutVerify, Stays, Answered, Verified
  <2>2. OriginOf(r, origin[r]) /\ RevalOf(r, reval[r]) /\ TimesOf(r, times[r]) /\ MarkersKept
    BY <1>1, SameEntries DEF LogoutVerify, OriginOf, RevalOf, TimesOf, caches, data
  <2>3. "revoke" \in ReqPlaces /\ Entry(origin[r], OriginPlaces) /\ Entry(reval[r], {"none", "fetch", "put"}) /\ times[r] \in Nat
    BY <1>0 DEF Entry, OriginPlaces, None, ReqPlaces
  <2>4. Lives(Edited(req[r], "revoke", req[r].status, req[r].got, req[r].heard, req[r].quiet),
             origin[r], reval[r], times[r], revoked', Visible')
    BY <1>0, <1>1, <2>2 DEF Lives, PlaceOfKind, Untouched, Applied, Barred, Edited, Mutations, Entry, None, Life, LogoutVerify, Verified
  <2>5. /\ Course(req[r], origin[r], reval[r],
                   Edited(req[r], "revoke", req[r].status, req[r].got, req[r].heard, req[r].quiet), origin[r], reval[r], copy)
        /\ SettledReq(Edited(req[r], "revoke", req[r].status, req[r].got, req[r].heard, req[r].quiet)) <=> SettledReq(req[r])
    BY <1>0, <1>1, <2>2 DEF Course, Ready, Shows, Ended, SettledReq, Lives, PlaceOfKind, Untouched, Applied,
         Edited, Mutations, Entry, None, Life, LogoutVerify, Verified
  <2>6. /\ LivesOn(r) /\ req'[r] = Edited(req[r], "revoke", req[r].status, req[r].got, req[r].heard, req[r].quiet)
        /\ origin'[r] = origin[r] /\ reval'[r] = reval[r]
    BY <1>0, <2>1, <2>2, <2>3, <2>4, LivesFrom
  <2> QED BY <2>5, <2>6 DEF EdgeMoves
<1>2. CASE NotVerified(req[r].session) /\ Answer(r, "unauthorized", {})
  <2>1. Becomes(r, "answered", "unauthorized", {}, req[r].heard, req[r].quiet)
    BY <1>0, <1>2, GoBecomes, AnswerBecomes DEF LogoutVerify, Stays, Answered, Verified
  <2>2. OriginOf(r, origin[r]) /\ RevalOf(r, reval[r]) /\ TimesOf(r, times[r]) /\ MarkersKept
    BY <1>2, SameEntries DEF LogoutVerify, OriginOf, RevalOf, TimesOf, caches, data
  <2>3. "answered" \in ReqPlaces /\ Entry(origin[r], OriginPlaces) /\ Entry(reval[r], {"none", "fetch", "put"}) /\ times[r] \in Nat
    BY <1>0 DEF Entry, OriginPlaces, None, ReqPlaces
  <2>4. Lives(Edited(req[r], "answered", "unauthorized", {}, req[r].heard, req[r].quiet),
             origin[r], reval[r], times[r], revoked', Visible')
    BY <1>0, <1>2, <2>2 DEF Lives, PlaceOfKind, Untouched, Applied, Barred, Edited, Mutations, Entry, None, Life, LogoutVerify, Verified
  <2>5. /\ Course(req[r], origin[r], reval[r],
                   Edited(req[r], "answered", "unauthorized", {}, req[r].heard, req[r].quiet), origin[r], reval[r], copy)
        /\ SettledReq(Edited(req[r], "answered", "unauthorized", {}, req[r].heard, req[r].quiet)) <=> SettledReq(req[r])
    BY <1>0, <1>2, <2>2 DEF Course, Ready, Shows, Ended, SettledReq, Lives, PlaceOfKind, Untouched, Applied,
         Edited, Mutations, Entry, None, Life, LogoutVerify, Verified
  <2>6. /\ LivesOn(r) /\ req'[r] = Edited(req[r], "answered", "unauthorized", {}, req[r].heard, req[r].quiet)
        /\ origin'[r] = origin[r] /\ reval'[r] = reval[r]
    BY <1>0, <2>1, <2>2, <2>3, <2>4, LivesFrom
  <2> QED BY <2>5, <2>6 DEF EdgeMoves
<1> QED BY <1>c, <1>1, <1>2

LEMMA LifeRevoke ==
  ASSUME Shapes, NEW r \in Request, Life(r), Revoke(r)
  PROVE  LivesOn(r) /\ EdgeMoves(r)
<1>0. /\ ReqShape(req[r]) /\ req[r].at \in ReqPlaces /\ req[r].late \in BOOLEAN /\ req[r].quiet \in BOOLEAN
      /\ Entry(origin[r], OriginPlaces) /\ Entry(reval[r], {"none", "fetch", "put"}) /\ times[r] \in Nat
  BY DEF Shapes, ReqShape
<1>c. (PutMarker(req[r].session) /\ Answer(r, "ok", {})) \/ (Answer(r, "unavailable", {}) /\ UNCHANGED markers)
  BY DEF Revoke
<1>1. CASE PutMarker(req[r].session) /\ Answer(r, "ok", {})
  <2>1. Becomes(r, "answered", "ok", {}, req[r].heard, req[r].quiet)
    BY <1>0, <1>1, GoBecomes, AnswerBecomes DEF Revoke, Stays, Answered
  <2>2. OriginOf(r, origin[r]) /\ RevalOf(r, reval[r]) /\ TimesOf(r, times[r]) /\ MarkersKept
    BY <1>1, SameEntries DEF Revoke, PutMarker, OriginOf, RevalOf, TimesOf, caches, data
  <2>3. "answered" \in ReqPlaces /\ Entry(origin[r], OriginPlaces) /\ Entry(reval[r], {"none", "fetch", "put"}) /\ times[r] \in Nat
    BY <1>0 DEF Entry, OriginPlaces, None, ReqPlaces
  <2>4. Lives(Edited(req[r], "answered", "ok", {}, req[r].heard, req[r].quiet),
             origin[r], reval[r], times[r], revoked', Visible')
    BY <1>0, <1>1, <2>2 DEF Lives, PlaceOfKind, Untouched, Applied, Barred, Edited, Mutations, Entry, None, Life, Revoke, PutMarker
  <2>5. /\ Course(req[r], origin[r], reval[r],
                   Edited(req[r], "answered", "ok", {}, req[r].heard, req[r].quiet), origin[r], reval[r], copy)
        /\ SettledReq(Edited(req[r], "answered", "ok", {}, req[r].heard, req[r].quiet)) <=> SettledReq(req[r])
    BY <1>0, <1>1, <2>2 DEF Course, Ready, Shows, Ended, SettledReq, Lives, PlaceOfKind, Untouched, Applied,
         Edited, Mutations, Entry, None, Life, Revoke
  <2>6. /\ LivesOn(r) /\ req'[r] = Edited(req[r], "answered", "ok", {}, req[r].heard, req[r].quiet)
        /\ origin'[r] = origin[r] /\ reval'[r] = reval[r]
    BY <1>0, <2>1, <2>2, <2>3, <2>4, LivesFrom
  <2> QED BY <2>5, <2>6 DEF EdgeMoves
<1>2. CASE Answer(r, "unavailable", {}) /\ UNCHANGED markers
  <2>1. Becomes(r, "answered", "unavailable", {}, req[r].heard, req[r].quiet)
    BY <1>0, <1>2, GoBecomes, AnswerBecomes DEF Revoke, Stays, Answered
  <2>2. OriginOf(r, origin[r]) /\ RevalOf(r, reval[r]) /\ TimesOf(r, times[r]) /\ MarkersKept
    BY <1>2, SameEntries DEF Revoke, OriginOf, RevalOf, TimesOf, caches, data
  <2>3. "answered" \in ReqPlaces /\ Entry(origin[r], OriginPlaces) /\ Entry(reval[r], {"none", "fetch", "put"}) /\ times[r] \in Nat
    BY <1>0 DEF Entry, OriginPlaces, None, ReqPlaces
  <2>4. Lives(Edited(req[r], "answered", "unavailable", {}, req[r].heard, req[r].quiet),
             origin[r], reval[r], times[r], revoked', Visible')
    BY <1>0, <1>2, <2>2 DEF Lives, PlaceOfKind, Untouched, Applied, Barred, Edited, Mutations, Entry, None, Life, Revoke
  <2>5. /\ Course(req[r], origin[r], reval[r],
                   Edited(req[r], "answered", "unavailable", {}, req[r].heard, req[r].quiet), origin[r], reval[r], copy)
        /\ SettledReq(Edited(req[r], "answered", "unavailable", {}, req[r].heard, req[r].quiet)) <=> SettledReq(req[r])
    BY <1>0, <1>2, <2>2 DEF Course, Ready, Shows, Ended, SettledReq, Lives, PlaceOfKind, Untouched, Applied,
         Edited, Mutations, Entry, None, Life, Revoke
  <2>6. /\ LivesOn(r) /\ req'[r] = Edited(req[r], "answered", "unavailable", {}, req[r].heard, req[r].quiet)
        /\ origin'[r] = origin[r] /\ reval'[r] = reval[r]
    BY <1>0, <2>1, <2>2, <2>3, <2>4, LivesFrom
  <2> QED BY <2>5, <2>6 DEF EdgeMoves
<1> QED BY <1>c, <1>1, <1>2

LEMMA LifeOriginRefuses ==
  ASSUME Shapes, NEW r \in Request, Life(r), OriginRefuses(r)
  PROVE  LivesOn(r)
<1>0. /\ ReqShape(req[r]) /\ req[r].at \in ReqPlaces /\ req[r].late \in BOOLEAN /\ req[r].quiet \in BOOLEAN
      /\ Entry(origin[r], OriginPlaces) /\ Entry(reval[r], {"none", "fetch", "put"}) /\ times[r] \in Nat
  BY DEF Shapes, ReqShape
<1>c. (req[r].at = "proxied") \/ (req[r].at # "proxied")
  BY DEF OriginRefuses
<1>1. CASE req[r].at = "proxied"
  <2>1. Becomes(r, req[r].at, req[r].status, req[r].got, req[r].heard, req[r].quiet)
    BY <1>0, <1>1, SameRequest DEF OriginRefuses, Stays, Answered
  <2>2. OriginOf(r, [at |-> "refused"]) /\ RevalOf(r, reval[r]) /\ TimesOf(r, times[r]) /\ MarkersKept
    BY <1>1, SameEntries DEF OriginRefuses, OriginOf, RevalOf, TimesOf, caches, data
  <2>3. Entry([at |-> "refused"], OriginPlaces) /\ Entry(reval[r], {"none", "fetch", "put"}) /\ times[r] \in Nat
    BY <1>0 DEF Entry, OriginPlaces, None
  <2>4. Lives(Edited(req[r], req[r].at, req[r].status, req[r].got, req[r].heard, req[r].quiet),
             [at |-> "refused"], reval[r], times[r], revoked', Visible')
    BY <1>0, <1>1, <2>2 DEF Lives, PlaceOfKind, Untouched, Applied, Barred, Edited, Mutations, Entry, None, Life, OriginRefuses
  <2> QED BY <1>0, <2>1, <2>2, <2>3, <2>4, LivesFrom
<1>2. CASE req[r].at # "proxied"
  <2>1. Becomes(r, req[r].at, req[r].status, req[r].got, req[r].heard, req[r].quiet)
    BY <1>0, <1>2, SameRequest DEF OriginRefuses, Stays, Answered
  <2>2. OriginOf(r, [at |-> "error"]) /\ RevalOf(r, reval[r]) /\ TimesOf(r, times[r]) /\ MarkersKept
    BY <1>2, SameEntries DEF OriginRefuses, OriginOf, RevalOf, TimesOf, caches, data
  <2>3. Entry([at |-> "error"], OriginPlaces) /\ Entry(reval[r], {"none", "fetch", "put"}) /\ times[r] \in Nat
    BY <1>0 DEF Entry, OriginPlaces, None
  <2>4. Lives(Edited(req[r], req[r].at, req[r].status, req[r].got, req[r].heard, req[r].quiet),
             [at |-> "error"], reval[r], times[r], revoked', Visible')
    BY <1>0, <1>2, <2>2 DEF Lives, PlaceOfKind, Untouched, Applied, Barred, Edited, Mutations, Entry, None, Life, OriginRefuses
  <2> QED BY <1>0, <2>1, <2>2, <2>3, <2>4, LivesFrom
<1> QED BY <1>c, <1>1, <1>2

LEMMA LifeMutationStarts ==
  ASSUME Shapes, NEW r \in Request, Life(r), MutationStarts(r)
  PROVE  LivesOn(r)
<1>0. /\ ReqShape(req[r]) /\ req[r].at \in ReqPlaces /\ req[r].late \in BOOLEAN /\ req[r].quiet \in BOOLEAN
      /\ Entry(origin[r], OriginPlaces) /\ Entry(reval[r], {"none", "fetch", "put"}) /\ times[r] \in Nat
  BY DEF Shapes, ReqShape
<1>1. Becomes(r, req[r].at, req[r].status, req[r].got, req[r].heard, req[r].quiet)
  BY <1>0, SameRequest DEF MutationStarts, Stays, Answered
<1>2. OriginOf(r, [at |-> "writing"]) /\ RevalOf(r, reval[r]) /\ TimesOf(r, times[r]) /\ MarkersKept
  BY SameEntries DEF MutationStarts, OriginOf, RevalOf, TimesOf, caches, data
<1>3. Entry([at |-> "writing"], OriginPlaces) /\ Entry(reval[r], {"none", "fetch", "put"}) /\ times[r] \in Nat
  BY <1>0 DEF Entry, OriginPlaces, None
<1>4. Lives(Edited(req[r], req[r].at, req[r].status, req[r].got, req[r].heard, req[r].quiet),
           [at |-> "writing"], reval[r], times[r], revoked', Visible')
  BY <1>0, <1>2 DEF Lives, PlaceOfKind, Untouched, Applied, Barred, Edited, Mutations, Entry, None, Life, MutationStarts
<1> QED BY <1>0, <1>1, <1>2, <1>3, <1>4, LivesFrom

LEMMA LifeMutationWrites ==
  ASSUME Shapes, NEW r \in Request, Life(r), MutationWrites(r)
  PROVE  LivesOn(r)
<1>0. /\ ReqShape(req[r]) /\ req[r].at \in ReqPlaces /\ req[r].late \in BOOLEAN /\ req[r].quiet \in BOOLEAN
      /\ Entry(origin[r], OriginPlaces) /\ Entry(reval[r], {"none", "fetch", "put"}) /\ times[r] \in Nat
  BY DEF Shapes, ReqShape
<1>1. Becomes(r, req[r].at, req[r].status, req[r].got, req[r].heard, req[r].quiet)
  BY <1>0, SameRequest DEF MutationWrites, Stays, Answered
<1>2. OriginOf(r, [at |-> "written"]) /\ RevalOf(r, reval[r]) /\ TimesOf(r, times[r] + 1) /\ MarkersKept
  BY SameEntries DEF MutationWrites, OriginOf, RevalOf, TimesOf, caches, data
<1>3. Entry([at |-> "written"], OriginPlaces) /\ Entry(reval[r], {"none", "fetch", "put"}) /\ times[r] + 1 \in Nat
  BY <1>0 DEF Entry, OriginPlaces, None
<1>4. Lives(Edited(req[r], req[r].at, req[r].status, req[r].got, req[r].heard, req[r].quiet),
           [at |-> "written"], reval[r], times[r] + 1, revoked', Visible')
  BY <1>0, <1>2 DEF Lives, PlaceOfKind, Untouched, Applied, Barred, Edited, Mutations, Entry, None, Life, MutationWrites
<1> QED BY <1>0, <1>1, <1>2, <1>3, <1>4, LivesFrom

LEMMA LifeMutationEnds ==
  ASSUME Shapes, NEW r \in Request, Life(r), MutationEnds(r)
  PROVE  LivesOn(r)
<1>0. /\ ReqShape(req[r]) /\ req[r].at \in ReqPlaces /\ req[r].late \in BOOLEAN /\ req[r].quiet \in BOOLEAN
      /\ Entry(origin[r], OriginPlaces) /\ Entry(reval[r], {"none", "fetch", "put"}) /\ times[r] \in Nat
  BY DEF Shapes, ReqShape
<1>1. Becomes(r, req[r].at, req[r].status, req[r].got, req[r].heard, req[r].quiet)
  BY <1>0, SameRequest DEF MutationEnds, Stays, Answered
<1>2. OriginOf(r, [at |-> "done"]) /\ RevalOf(r, reval[r]) /\ TimesOf(r, times[r]) /\ MarkersKept
  BY SameEntries DEF MutationEnds, OriginOf, RevalOf, TimesOf, caches, data
<1>3. Entry([at |-> "done"], OriginPlaces) /\ Entry(reval[r], {"none", "fetch", "put"}) /\ times[r] \in Nat
  BY <1>0 DEF Entry, OriginPlaces, None
<1>4. Lives(Edited(req[r], req[r].at, req[r].status, req[r].got, req[r].heard, req[r].quiet),
           [at |-> "done"], reval[r], times[r], revoked', Visible')
  BY <1>0, <1>2 DEF Lives, PlaceOfKind, Untouched, Applied, Barred, Edited, Mutations, Entry, None, Life, MutationEnds
<1> QED BY <1>0, <1>1, <1>2, <1>3, <1>4, LivesFrom

LEMMA LifeMutationFails ==
  ASSUME Shapes, NEW r \in Request, Life(r), MutationFails(r)
  PROVE  LivesOn(r)
<1>0. /\ ReqShape(req[r]) /\ req[r].at \in ReqPlaces /\ req[r].late \in BOOLEAN /\ req[r].quiet \in BOOLEAN
      /\ Entry(origin[r], OriginPlaces) /\ Entry(reval[r], {"none", "fetch", "put"}) /\ times[r] \in Nat
  BY DEF Shapes, ReqShape
<1>c. (origin' = [origin EXCEPT ![r] = [at |-> "error"]]) \/ (origin' = [origin EXCEPT ![r] = [at |-> "rejected"]])
  BY DEF MutationFails
<1>1. CASE origin' = [origin EXCEPT ![r] = [at |-> "error"]]
  <2>1. Becomes(r, req[r].at, req[r].status, req[r].got, req[r].heard, req[r].quiet)
    BY <1>0, <1>1, SameRequest DEF MutationFails, Stays, Answered
  <2>2. OriginOf(r, [at |-> "error"]) /\ RevalOf(r, reval[r]) /\ TimesOf(r, times[r]) /\ MarkersKept
    BY <1>1, SameEntries DEF MutationFails, OriginOf, RevalOf, TimesOf, caches, data
  <2>3. Entry([at |-> "error"], OriginPlaces) /\ Entry(reval[r], {"none", "fetch", "put"}) /\ times[r] \in Nat
    BY <1>0 DEF Entry, OriginPlaces, None
  <2>4. Lives(Edited(req[r], req[r].at, req[r].status, req[r].got, req[r].heard, req[r].quiet),
             [at |-> "error"], reval[r], times[r], revoked', Visible')
    BY <1>0, <1>1, <2>2 DEF Lives, PlaceOfKind, Untouched, Applied, Barred, Edited, Mutations, Entry, None, Life, MutationFails
  <2> QED BY <1>0, <2>1, <2>2, <2>3, <2>4, LivesFrom
<1>2. CASE origin' = [origin EXCEPT ![r] = [at |-> "rejected"]]
  <2>1. Becomes(r, req[r].at, req[r].status, req[r].got, req[r].heard, req[r].quiet)
    BY <1>0, <1>2, SameRequest DEF MutationFails, Stays, Answered
  <2>2. OriginOf(r, [at |-> "rejected"]) /\ RevalOf(r, reval[r]) /\ TimesOf(r, times[r]) /\ MarkersKept
    BY <1>2, SameEntries DEF MutationFails, OriginOf, RevalOf, TimesOf, caches, data
  <2>3. Entry([at |-> "rejected"], OriginPlaces) /\ Entry(reval[r], {"none", "fetch", "put"}) /\ times[r] \in Nat
    BY <1>0 DEF Entry, OriginPlaces, None
  <2>4. Lives(Edited(req[r], req[r].at, req[r].status, req[r].got, req[r].heard, req[r].quiet),
             [at |-> "rejected"], reval[r], times[r], revoked', Visible')
    BY <1>0, <1>2, <2>2 DEF Lives, PlaceOfKind, Untouched, Applied, Barred, Edited, Mutations, Entry, None, Life, MutationFails
  <2> QED BY <1>0, <2>1, <2>2, <2>3, <2>4, LivesFrom
<1> QED BY <1>c, <1>1, <1>2

LEMMA LifeOriginServesSnapshot ==
  ASSUME Shapes, NEW r \in Request, Life(r), OriginServesSnapshot(r)
  PROVE  LivesOn(r)
<1>0. /\ ReqShape(req[r]) /\ req[r].at \in ReqPlaces /\ req[r].late \in BOOLEAN /\ req[r].quiet \in BOOLEAN
      /\ Entry(origin[r], OriginPlaces) /\ Entry(reval[r], {"none", "fetch", "put"}) /\ times[r] \in Nat
  BY DEF Shapes, ReqShape
<1>1. Becomes(r, req[r].at, req[r].status, req[r].got, req[r].heard, req[r].quiet)
  BY <1>0, SameRequest DEF OriginServesSnapshot, Stays, Answered
<1>2. OriginOf(r, [at |-> "data", got |-> snapshot.got]) /\ RevalOf(r, reval[r]) /\ TimesOf(r, times[r]) /\ MarkersKept
  BY SameEntries DEF OriginServesSnapshot, OriginOf, RevalOf, TimesOf, caches, data
<1>3. Entry([at |-> "data", got |-> snapshot.got], OriginPlaces) /\ Entry(reval[r], {"none", "fetch", "put"}) /\ times[r] \in Nat
  BY <1>0 DEF Entry, OriginPlaces, None
<1>4. Lives(Edited(req[r], req[r].at, req[r].status, req[r].got, req[r].heard, req[r].quiet),
           [at |-> "data", got |-> snapshot.got], reval[r], times[r], revoked', Visible')
  BY <1>0, <1>2 DEF Lives, PlaceOfKind, Untouched, Applied, Barred, Edited, Mutations, Entry, None, Life, OriginServesSnapshot
<1> QED BY <1>0, <1>1, <1>2, <1>3, <1>4, LivesFrom

LEMMA LifeOriginWaits ==
  ASSUME Shapes, NEW r \in Request, Life(r), OriginWaits(r)
  PROVE  LivesOn(r)
<1>0. /\ ReqShape(req[r]) /\ req[r].at \in ReqPlaces /\ req[r].late \in BOOLEAN /\ req[r].quiet \in BOOLEAN
      /\ Entry(origin[r], OriginPlaces) /\ Entry(reval[r], {"none", "fetch", "put"}) /\ times[r] \in Nat
  BY DEF Shapes, ReqShape
<1>1. Becomes(r, req[r].at, req[r].status, req[r].got, req[r].heard, req[r].quiet)
  BY <1>0, SameRequest DEF OriginWaits, Stays, Answered
<1>2. OriginOf(r, [at |-> "wait"]) /\ RevalOf(r, reval[r]) /\ TimesOf(r, times[r]) /\ MarkersKept
  BY SameEntries DEF OriginWaits, OriginOf, RevalOf, TimesOf, caches, data
<1>3. Entry([at |-> "wait"], OriginPlaces) /\ Entry(reval[r], {"none", "fetch", "put"}) /\ times[r] \in Nat
  BY <1>0 DEF Entry, OriginPlaces, None
<1>4. Lives(Edited(req[r], req[r].at, req[r].status, req[r].got, req[r].heard, req[r].quiet),
           [at |-> "wait"], reval[r], times[r], revoked', Visible')
  BY <1>0, <1>2 DEF Lives, PlaceOfKind, Untouched, Applied, Barred, Edited, Mutations, Entry, None, Life, OriginWaits
<1> QED BY <1>0, <1>1, <1>2, <1>3, <1>4, LivesFrom

LEMMA LifeEdgeHandles ==
  ASSUME Shapes, NEW r \in Request, Life(r), EdgeHandles(r)
  PROVE  LivesOn(r) /\ EdgeMoves(r)
<1>0. /\ ReqShape(req[r]) /\ req[r].at \in ReqPlaces /\ req[r].late \in BOOLEAN /\ req[r].quiet \in BOOLEAN
      /\ Entry(origin[r], OriginPlaces) /\ Entry(reval[r], {"none", "fetch", "put"}) /\ times[r] \in Nat
  BY DEF Shapes, ReqShape
<1>c. (Answer(r, "unavailable", {}) /\ UNCHANGED data) \/ (Answer(r, "unauthorized", {}) /\ UNCHANGED data) \/ (/\ req[r].kind = "load" /\ UNCHANGED data
            /\ req' = [req EXCEPT ![r] = [@ EXCEPT !.at = "answered", !.status = "ok",
                                     !.got = stored \union pending, !.heard = "edge"]]) \/ (/\ req[r].kind = "mutate" /\ Go(r, "invalidate")
            /\ times' = [times EXCEPT ![r] = times[r] + 1]) \/ (Answer(r, "failed", {}) /\ UNCHANGED data)
  BY DEF EdgeHandles
<1>1. CASE Answer(r, "unavailable", {}) /\ UNCHANGED data
  <2>1. Becomes(r, "answered", "unavailable", {}, req[r].heard, req[r].quiet)
    BY <1>0, <1>1, GoBecomes, AnswerBecomes, ReadBecomes DEF EdgeHandles, Stays, Answered
  <2>2. OriginOf(r, origin[r]) /\ RevalOf(r, reval[r]) /\ TimesOf(r, times[r]) /\ MarkersKept
    BY <1>1, SameEntries DEF EdgeHandles, OriginOf, RevalOf, TimesOf, caches, data
  <2>3. "answered" \in ReqPlaces /\ Entry(origin[r], OriginPlaces) /\ Entry(reval[r], {"none", "fetch", "put"}) /\ times[r] \in Nat
    BY <1>0 DEF Entry, OriginPlaces, None, ReqPlaces
  <2>4. Lives(Edited(req[r], "answered", "unavailable", {}, req[r].heard, req[r].quiet),
             origin[r], reval[r], times[r], revoked', Visible')
    BY <1>0, <1>1, <2>2 DEF Lives, PlaceOfKind, Untouched, Applied, Barred, Edited, Mutations, Entry, None, Life, EdgeHandles
  <2>5. /\ Course(req[r], origin[r], reval[r],
                   Edited(req[r], "answered", "unavailable", {}, req[r].heard, req[r].quiet), origin[r], reval[r], copy)
        /\ SettledReq(Edited(req[r], "answered", "unavailable", {}, req[r].heard, req[r].quiet)) <=> SettledReq(req[r])
    BY <1>0, <1>1, <2>2 DEF Course, Ready, Shows, Ended, SettledReq, Lives, PlaceOfKind, Untouched, Applied,
         Edited, Mutations, Entry, None, Life, EdgeHandles
  <2>6. /\ LivesOn(r) /\ req'[r] = Edited(req[r], "answered", "unavailable", {}, req[r].heard, req[r].quiet)
        /\ origin'[r] = origin[r] /\ reval'[r] = reval[r]
    BY <1>0, <2>1, <2>2, <2>3, <2>4, LivesFrom
  <2> QED BY <2>5, <2>6 DEF EdgeMoves
<1>2. CASE Answer(r, "unauthorized", {}) /\ UNCHANGED data
  <2>1. Becomes(r, "answered", "unauthorized", {}, req[r].heard, req[r].quiet)
    BY <1>0, <1>2, GoBecomes, AnswerBecomes, ReadBecomes DEF EdgeHandles, Stays, Answered
  <2>2. OriginOf(r, origin[r]) /\ RevalOf(r, reval[r]) /\ TimesOf(r, times[r]) /\ MarkersKept
    BY <1>2, SameEntries DEF EdgeHandles, OriginOf, RevalOf, TimesOf, caches, data
  <2>3. "answered" \in ReqPlaces /\ Entry(origin[r], OriginPlaces) /\ Entry(reval[r], {"none", "fetch", "put"}) /\ times[r] \in Nat
    BY <1>0 DEF Entry, OriginPlaces, None, ReqPlaces
  <2>4. Lives(Edited(req[r], "answered", "unauthorized", {}, req[r].heard, req[r].quiet),
             origin[r], reval[r], times[r], revoked', Visible')
    BY <1>0, <1>2, <2>2 DEF Lives, PlaceOfKind, Untouched, Applied, Barred, Edited, Mutations, Entry, None, Life, EdgeHandles
  <2>5. /\ Course(req[r], origin[r], reval[r],
                   Edited(req[r], "answered", "unauthorized", {}, req[r].heard, req[r].quiet), origin[r], reval[r], copy)
        /\ SettledReq(Edited(req[r], "answered", "unauthorized", {}, req[r].heard, req[r].quiet)) <=> SettledReq(req[r])
    BY <1>0, <1>2, <2>2 DEF Course, Ready, Shows, Ended, SettledReq, Lives, PlaceOfKind, Untouched, Applied,
         Edited, Mutations, Entry, None, Life, EdgeHandles
  <2>6. /\ LivesOn(r) /\ req'[r] = Edited(req[r], "answered", "unauthorized", {}, req[r].heard, req[r].quiet)
        /\ origin'[r] = origin[r] /\ reval'[r] = reval[r]
    BY <1>0, <2>1, <2>2, <2>3, <2>4, LivesFrom
  <2> QED BY <2>5, <2>6 DEF EdgeMoves
<1>3. CASE /\ req[r].kind = "load" /\ UNCHANGED data
            /\ req' = [req EXCEPT ![r] = [@ EXCEPT !.at = "answered", !.status = "ok",
                                     !.got = stored \union pending, !.heard = "edge"]]
  <2>1. Becomes(r, "answered", "ok", stored \union pending, "edge", req[r].quiet)
    BY <1>0, <1>3, GoBecomes, AnswerBecomes, ReadBecomes DEF EdgeHandles, Stays, Answered
  <2>2. OriginOf(r, origin[r]) /\ RevalOf(r, reval[r]) /\ TimesOf(r, times[r]) /\ MarkersKept
    BY <1>3, SameEntries DEF EdgeHandles, OriginOf, RevalOf, TimesOf, caches, data
  <2>3. "answered" \in ReqPlaces /\ Entry(origin[r], OriginPlaces) /\ Entry(reval[r], {"none", "fetch", "put"}) /\ times[r] \in Nat
    BY <1>0 DEF Entry, OriginPlaces, None, ReqPlaces
  <2>4. Lives(Edited(req[r], "answered", "ok", stored \union pending, "edge", req[r].quiet),
             origin[r], reval[r], times[r], revoked', Visible')
    BY <1>0, <1>3, <2>2 DEF Lives, PlaceOfKind, Untouched, Applied, Barred, Edited, Mutations, Entry, None, Life, EdgeHandles
  <2>5. /\ Course(req[r], origin[r], reval[r],
                   Edited(req[r], "answered", "ok", stored \union pending, "edge", req[r].quiet), origin[r], reval[r], copy)
        /\ SettledReq(Edited(req[r], "answered", "ok", stored \union pending, "edge", req[r].quiet)) <=> SettledReq(req[r])
    BY <1>0, <1>3, <2>2 DEF Course, Ready, Shows, Ended, SettledReq, Lives, PlaceOfKind, Untouched, Applied,
         Edited, Mutations, Entry, None, Life, EdgeHandles
  <2>6. /\ LivesOn(r) /\ req'[r] = Edited(req[r], "answered", "ok", stored \union pending, "edge", req[r].quiet)
        /\ origin'[r] = origin[r] /\ reval'[r] = reval[r]
    BY <1>0, <2>1, <2>2, <2>3, <2>4, LivesFrom
  <2> QED BY <2>5, <2>6 DEF EdgeMoves
<1>4. CASE /\ req[r].kind = "mutate" /\ Go(r, "invalidate")
            /\ times' = [times EXCEPT ![r] = times[r] + 1]
  <2>1. Becomes(r, "invalidate", req[r].status, req[r].got, req[r].heard, req[r].quiet)
    BY <1>0, <1>4, GoBecomes, AnswerBecomes, ReadBecomes DEF EdgeHandles, Stays, Answered
  <2>2. OriginOf(r, origin[r]) /\ RevalOf(r, reval[r]) /\ TimesOf(r, times[r] + 1) /\ MarkersKept
    BY <1>4, SameEntries DEF EdgeHandles, OriginOf, RevalOf, TimesOf, caches, data
  <2>3. "invalidate" \in ReqPlaces /\ Entry(origin[r], OriginPlaces) /\ Entry(reval[r], {"none", "fetch", "put"}) /\ times[r] + 1 \in Nat
    BY <1>0 DEF Entry, OriginPlaces, None, ReqPlaces
  <2>4. Lives(Edited(req[r], "invalidate", req[r].status, req[r].got, req[r].heard, req[r].quiet),
             origin[r], reval[r], times[r] + 1, revoked', Visible')
    BY <1>0, <1>4, <2>2 DEF Lives, PlaceOfKind, Untouched, Applied, Barred, Edited, Mutations, Entry, None, Life, EdgeHandles
  <2>5. /\ Course(req[r], origin[r], reval[r],
                   Edited(req[r], "invalidate", req[r].status, req[r].got, req[r].heard, req[r].quiet), origin[r], reval[r], copy)
        /\ SettledReq(Edited(req[r], "invalidate", req[r].status, req[r].got, req[r].heard, req[r].quiet)) <=> SettledReq(req[r])
    BY <1>0, <1>4, <2>2 DEF Course, Ready, Shows, Ended, SettledReq, Lives, PlaceOfKind, Untouched, Applied,
         Edited, Mutations, Entry, None, Life, EdgeHandles
  <2>6. /\ LivesOn(r) /\ req'[r] = Edited(req[r], "invalidate", req[r].status, req[r].got, req[r].heard, req[r].quiet)
        /\ origin'[r] = origin[r] /\ reval'[r] = reval[r]
    BY <1>0, <2>1, <2>2, <2>3, <2>4, LivesFrom
  <2> QED BY <2>5, <2>6 DEF EdgeMoves
<1>5. CASE Answer(r, "failed", {}) /\ UNCHANGED data
  <2>1. Becomes(r, "answered", "failed", {}, req[r].heard, req[r].quiet)
    BY <1>0, <1>5, GoBecomes, AnswerBecomes, ReadBecomes DEF EdgeHandles, Stays, Answered
  <2>2. OriginOf(r, origin[r]) /\ RevalOf(r, reval[r]) /\ TimesOf(r, times[r]) /\ MarkersKept
    BY <1>5, SameEntries DEF EdgeHandles, OriginOf, RevalOf, TimesOf, caches, data
  <2>3. "answered" \in ReqPlaces /\ Entry(origin[r], OriginPlaces) /\ Entry(reval[r], {"none", "fetch", "put"}) /\ times[r] \in Nat
    BY <1>0 DEF Entry, OriginPlaces, None, ReqPlaces
  <2>4. Lives(Edited(req[r], "answered", "failed", {}, req[r].heard, req[r].quiet),
             origin[r], reval[r], times[r], revoked', Visible')
    BY <1>0, <1>5, <2>2 DEF Lives, PlaceOfKind, Untouched, Applied, Barred, Edited, Mutations, Entry, None, Life, EdgeHandles
  <2>5. /\ Course(req[r], origin[r], reval[r],
                   Edited(req[r], "answered", "failed", {}, req[r].heard, req[r].quiet), origin[r], reval[r], copy)
        /\ SettledReq(Edited(req[r], "answered", "failed", {}, req[r].heard, req[r].quiet)) <=> SettledReq(req[r])
    BY <1>0, <1>5, <2>2 DEF Course, Ready, Shows, Ended, SettledReq, Lives, PlaceOfKind, Untouched, Applied,
         Edited, Mutations, Entry, None, Life, EdgeHandles
  <2>6. /\ LivesOn(r) /\ req'[r] = Edited(req[r], "answered", "failed", {}, req[r].heard, req[r].quiet)
        /\ origin'[r] = origin[r] /\ reval'[r] = reval[r]
    BY <1>0, <2>1, <2>2, <2>3, <2>4, LivesFrom
  <2> QED BY <2>5, <2>6 DEF EdgeMoves
<1> QED BY <1>c, <1>1, <1>2, <1>3, <1>4, <1>5

LEMMA LifeInvalidate ==
  ASSUME Shapes, NEW r \in Request, Life(r), Invalidate(r)
  PROVE  /\ LivesOn(r) /\ Course(req[r], origin[r], reval[r], req'[r], origin'[r], reval'[r], copy)
         /\ ~SettledReq(req[r])
         /\ SettledReq(req'[r]) => Quiet /\ copy' = None /\ req[r].heard = "ok"
<1>0. /\ ReqShape(req[r]) /\ req[r].at \in ReqPlaces /\ req[r].late \in BOOLEAN /\ req[r].quiet \in BOOLEAN
      /\ Entry(origin[r], OriginPlaces) /\ Entry(reval[r], {"none", "fetch", "put"}) /\ times[r] \in Nat
  BY DEF Shapes, ReqShape
<1>q. PICK q \in BOOLEAN : q = (req[r].quiet \/ (req[r].heard = "ok" /\ Quiet))
  BY <1>0
<1>c. (copy' = None /\ req' = [req EXCEPT ![r] = [req[r] EXCEPT !.at = "answered", !.status = "ok", !.quiet = q]]) \/ (Answer(r, "ok", {}))
  BY <1>q DEF Invalidate
<1>1. CASE copy' = None /\ req' = [req EXCEPT ![r] = [req[r] EXCEPT !.at = "answered", !.status = "ok", !.quiet = q]]
  <2>1. Becomes(r, "answered", "ok", req[r].got, req[r].heard, q)
    BY <1>0, <1>1, AnswerBecomes, QuietBecomes DEF Invalidate, Stays, Answered
  <2>2. OriginOf(r, origin[r]) /\ RevalOf(r, reval[r]) /\ TimesOf(r, times[r]) /\ MarkersKept
    BY <1>1, SameEntries DEF Invalidate, OriginOf, RevalOf, TimesOf, caches, data
  <2>3. "answered" \in ReqPlaces /\ Entry(origin[r], OriginPlaces) /\ Entry(reval[r], {"none", "fetch", "put"}) /\ times[r] \in Nat
    BY <1>0 DEF Entry, OriginPlaces, None, ReqPlaces
  <2>4. Lives(Edited(req[r], "answered", "ok", req[r].got, req[r].heard, q),
             origin[r], reval[r], times[r], revoked', Visible')
    BY <1>0, <1>1, <2>2 DEF Lives, PlaceOfKind, Untouched, Applied, Barred, Edited, Mutations, Entry, None, Life, Invalidate
  <2>5. /\ Course(req[r], origin[r], reval[r],
                   Edited(req[r], "answered", "ok", req[r].got, req[r].heard, q), origin[r], reval[r], copy)
        /\ ~SettledReq(req[r])
        /\ SettledReq(Edited(req[r], "answered", "ok", req[r].got, req[r].heard, q)) => Quiet /\ copy' = None /\ req[r].heard = "ok"
    BY <1>0, <1>q, <1>1, <2>2 DEF Course, Ready, Shows, Ended, SettledReq, Lives, PlaceOfKind, Untouched, Applied,
         Edited, Mutations, Entry, None, Life, Invalidate
  <2>6. /\ LivesOn(r) /\ req'[r] = Edited(req[r], "answered", "ok", req[r].got, req[r].heard, q)
        /\ origin'[r] = origin[r] /\ reval'[r] = reval[r]
    BY <1>0, <2>1, <2>2, <2>3, <2>4, LivesFrom
  <2> QED BY <2>5, <2>6
<1>2. CASE Answer(r, "ok", {})
  <2>1. Becomes(r, "answered", "ok", {}, req[r].heard, req[r].quiet)
    BY <1>0, <1>2, AnswerBecomes, QuietBecomes DEF Invalidate, Stays, Answered
  <2>2. OriginOf(r, origin[r]) /\ RevalOf(r, reval[r]) /\ TimesOf(r, times[r]) /\ MarkersKept
    BY <1>2, SameEntries DEF Invalidate, OriginOf, RevalOf, TimesOf, caches, data
  <2>3. "answered" \in ReqPlaces /\ Entry(origin[r], OriginPlaces) /\ Entry(reval[r], {"none", "fetch", "put"}) /\ times[r] \in Nat
    BY <1>0 DEF Entry, OriginPlaces, None, ReqPlaces
  <2>4. Lives(Edited(req[r], "answered", "ok", {}, req[r].heard, req[r].quiet),
             origin[r], reval[r], times[r], revoked', Visible')
    BY <1>0, <1>2, <2>2 DEF Lives, PlaceOfKind, Untouched, Applied, Barred, Edited, Mutations, Entry, None, Life, Invalidate
  <2>5. /\ Course(req[r], origin[r], reval[r],
                   Edited(req[r], "answered", "ok", {}, req[r].heard, req[r].quiet), origin[r], reval[r], copy)
        /\ ~SettledReq(req[r])
        /\ SettledReq(Edited(req[r], "answered", "ok", {}, req[r].heard, req[r].quiet)) => Quiet /\ copy' = None /\ req[r].heard = "ok"
    BY <1>0, <1>2, <2>2 DEF Course, Ready, Shows, Ended, SettledReq, Lives, PlaceOfKind, Untouched, Applied,
         Edited, Mutations, Entry, None, Life, Invalidate
  <2>6. /\ LivesOn(r) /\ req'[r] = Edited(req[r], "answered", "ok", {}, req[r].heard, req[r].quiet)
        /\ origin'[r] = origin[r] /\ reval'[r] = reval[r]
    BY <1>0, <2>1, <2>2, <2>3, <2>4, LivesFrom
  <2> QED BY <2>5, <2>6
<1> QED BY <1>c, <1>1, <1>2

-----------------------------------------------------------------------------
(* The life of every request through every step. *)

LEMMA LoggedOutRevoked ==
  ASSUME \A d \in Request : Life(d)
  PROVE  LoggedOut \subseteq revoked
BY DEF LoggedOut, Life, Lives, Barred

LEMMA AllLive ==
  ASSUME \A d \in Request : Life(d), NEW r \in Request, LivesOn(r)
  PROVE  Shapes' /\ \A d \in Request : Life(d)'
<1>1. ASSUME NEW d \in Request, d # r PROVE Life(d)'
  <2>1. /\ req'[d] = req[d] /\ origin'[d] = origin[d] /\ reval'[d] = reval[d]
        /\ times'[d] = times[d] /\ MarkersKept
    BY <1>1 DEF LivesOn, Alone
  <2>2. Barred(req[d], origin[d], times[d], revoked', Visible')
    BY <2>1 DEF Life, Lives, Barred
  <2> QED BY <2>1, <2>2 DEF Life, Lives
<1> QED BY <1>1 DEF LivesOn

\* The server turns waiting callers away or serves them, all at once.
Turned(o, n) == \/ n = o
                \/ o # None /\ n = [at |-> "error"]
                \/ o.at = "wait" /\ n.at = "data"

LEMMA AllTurned ==
  ASSUME Shapes, \A d \in Request : Life(d),
         UNCHANGED <<req, reval, times, markers>>,
         origin' = [d \in Request |-> origin'[d]],
         \A d \in Request : Turned(origin[d], origin'[d])
  PROVE  Shapes' /\ \A d \in Request : Life(d)'
<1>1. ASSUME NEW d \in Request PROVE Entry(origin'[d], OriginPlaces) /\ Life(d)'
  <2>1. Turned(origin[d], origin'[d]) /\ Entry(origin[d], OriginPlaces)
    BY DEF Shapes
  <2>2. Entry(origin'[d], OriginPlaces)
    BY <2>1 DEF Turned, Entry, OriginPlaces, None
  <2>3. Lives(req[d], origin'[d], reval[d], times[d], revoked, Visible)
    <3>1. Untouched(req[d], origin'[d], reval[d], times[d])
      BY <2>1 DEF Life, Lives, Untouched, Turned, Entry, None
    <3>2. Applied(req[d], origin'[d], times[d])
      BY <2>1 DEF Life, Lives, Applied, Turned, Entry, None
    <3>3. Barred(req[d], origin'[d], times[d], revoked, Visible)
      BY <2>1 DEF Life, Lives, Barred, Turned, Entry, None
    <3> QED BY <3>1, <3>2, <3>3 DEF Life, Lives
  <2> QED BY <2>2, <2>3 DEF Life
<1> QED BY <1>1 DEF Shapes

EdgeMove(r) ==
  \/ BootVerify(r) \/ BootFromCopy(r) \/ BootFetch(r) \/ BootFetched(r) \/ BootMissed(r)
  \/ RevalFetched(r) \/ StoreCopy(r)
  \/ Guard(r) \/ ProxyAnswered(r) \/ ProxyRefused(r) \/ ProxyRejected(r)
  \/ ProxyFailed(r) \/ ProxyTimeout(r)
  \/ EdgeHandles(r) \/ LogoutVerify(r) \/ Revoke(r)

LEMMA EdgeMoveEffect ==
  ASSUME Shapes, NEW r \in Request, Life(r), EdgeMove(r)
  PROVE  /\ LivesOn(r) /\ EdgeMoves(r)
         /\ UNCHANGED <<generation, snapshot, inflight, stored>>
         /\ UNCHANGED copy \/ (reval[r].at = "put" /\ copy' = [at |-> "fresh", got |-> reval[r].got])
<1>1. LivesOn(r) /\ EdgeMoves(r)
  BY LifeBootVerify, LifeBootFromCopy, LifeBootFetch, LifeBootFetched, LifeBootMissed, LifeRevalFetched,
     LifeStoreCopy, LifeGuard, LifeProxyAnswered, LifeProxyRefused, LifeProxyRejected, LifeProxyFailed,
     LifeProxyTimeout, LifeEdgeHandles, LifeLogoutVerify, LifeRevoke DEF EdgeMove
<1>2. UNCHANGED <<generation, snapshot, inflight, stored>>
  BY DEF EdgeMove, BootVerify, BootFromCopy, BootFetch, BootFetched, BootMissed, RevalFetched, StoreCopy,
     Guard, ProxyAnswered, ProxyRefused, ProxyRejected, ProxyFailed, ProxyTimeout, EdgeHandles,
     LogoutVerify, Revoke, caches, data
<1>3. UNCHANGED copy \/ (reval[r].at = "put" /\ copy' = [at |-> "fresh", got |-> reval[r].got])
  BY DEF EdgeMove, BootVerify, BootFromCopy, BootFetch, BootFetched, BootMissed, RevalFetched, StoreCopy,
     Guard, ProxyAnswered, ProxyRefused, ProxyRejected, ProxyFailed, ProxyTimeout, EdgeHandles,
     LogoutVerify, Revoke, caches
<1> QED BY <1>1, <1>2, <1>3

LEMMA ServerMoveLives ==
  ASSUME Shapes, NEW r \in Request, Life(r), OriginStep(r)
  PROVE  LivesOn(r)
BY LifeOriginRefuses, LifeMutationStarts, LifeMutationWrites, LifeMutationEnds, LifeMutationFails,
   LifeOriginServesSnapshot, LifeOriginWaits DEF OriginStep

LEMMA RefreshEndsTurns ==
  ASSUME Shapes, RefreshEnds \/ RefreshFails \/ OriginRestart
  PROVE  /\ UNCHANGED <<req, reval, times, markers>>
         /\ origin' = [d \in Request |-> origin'[d]]
         /\ \A d \in Request : Turned(origin[d], origin'[d])
<1>1. CASE RefreshEnds
  BY <1>1 DEF RefreshEnds, Turned, data
<1>2. CASE RefreshFails
  BY <1>2 DEF RefreshFails, Turned, None, data
<1>3. CASE OriginRestart
  BY <1>3 DEF OriginRestart, Turned, None, data
<1> QED BY <1>1, <1>2, <1>3

LEMMA LifeNext ==
  ASSUME Shapes, \A d \in Request : Life(d), [EdgeNext]_edgeVars
  PROVE  Shapes' /\ \A d \in Request : Life(d)'
<1>1. ASSUME NEW r \in Request, NEW k \in Kinds, NEW s \in Session, Begin(r, k, s)
      PROVE  Shapes' /\ \A d \in Request : Life(d)'
  BY <1>1, LifeBegin, LoggedOutRevoked, AllLive
<1>2. ASSUME NEW r \in Request, EdgeMove(r) PROVE Shapes' /\ \A d \in Request : Life(d)'
  BY <1>2, EdgeMoveEffect, AllLive
<1>3. ASSUME NEW r \in Request, Invalidate(r) PROVE Shapes' /\ \A d \in Request : Life(d)'
  BY <1>3, LifeInvalidate, AllLive
<1>4. ASSUME NEW r \in Request, OriginStep(r) PROVE Shapes' /\ \A d \in Request : Life(d)'
  BY <1>4, ServerMoveLives, AllLive
<1>5. CASE RefreshEnds \/ RefreshFails \/ OriginRestart
  BY <1>5, RefreshEndsTurns, AllTurned
<1>6. CASE \/ Prewarm \/ RefreshReads \/ CopyAges \/ Replay \/ UNCHANGED edgeVars
  <2>1. UNCHANGED <<req, origin, reval, times, markers>>
    BY <1>6 DEF Prewarm, RefreshReads, CopyAges, Replay, edgeVars, data
  <2> QED BY <2>1 DEF Shapes, Life
<1>7. ASSUME NEW s \in Session, Spread(s) PROVE Shapes' /\ \A d \in Request : Life(d)'
  <2>1. UNCHANGED <<req, origin, reval, times>> /\ MarkersKept
    BY <1>7 DEF Spread, data
  <2>2. ASSUME NEW d \in Request PROVE Barred(req[d], origin[d], times[d], revoked', Visible')
    BY <2>1 DEF Life, Lives, Barred
  <2> QED BY <2>1, <2>2 DEF Shapes, Life, Lives
<1> QED BY <1>1, <1>2, <1>3, <1>4, <1>5, <1>6, <1>7 DEF EdgeNext, EdgeStep, EdgeMove

-----------------------------------------------------------------------------
(* The caches through every step. *)

LEMMA OnlyAges ==
  ASSUME CacheShapes, CopyAges
  PROVE  \E a \in {"stale", "expired"} : copy' = [at |-> a, got |-> copy.got]
<1>1. PICK a \in {"stale", "expired"} : copy' = [copy EXCEPT !.at = a]
  BY DEF CopyAges
<1>2. PICK p, g : copy = [at |-> p, got |-> g]
  BY DEF CopyAges, CacheShapes, None
<1>3. copy' = [at |-> a, got |-> g] /\ copy.got = g
  BY <1>1, <1>2
<1> QED BY <1>3

LEMMA CacheShapesNext ==
  ASSUME CacheShapes, Shapes, \A d \in Request : Life(d), [EdgeNext]_edgeVars
  PROVE  CacheShapes'
<1>1. ASSUME NEW r \in Request, NEW k \in Kinds, NEW s \in Session, Begin(r, k, s) PROVE CacheShapes'
  BY <1>1 DEF Begin, CacheShapes, caches, Entry
<1>2. ASSUME NEW r \in Request, EdgeMove(r) PROVE CacheShapes'
  <2>1. /\ UNCHANGED <<generation, snapshot, inflight>>
        /\ UNCHANGED copy \/ copy' = [at |-> "fresh", got |-> reval[r].got]
    BY <1>2, EdgeMoveEffect
  <2> QED BY <2>1 DEF CacheShapes, Entry, None
<1>3. ASSUME NEW r \in Request, Invalidate(r) PROVE CacheShapes'
  BY <1>3 DEF Invalidate, CacheShapes, Entry, None
<1>4. ASSUME NEW r \in Request, OriginStep(r) PROVE CacheShapes'
  BY <1>4 DEF OriginStep, OriginRefuses, MutationStarts, MutationWrites, MutationEnds, MutationFails,
              OriginServesSnapshot, OriginWaits, Refreshing, CacheShapes, Entry, None, caches
<1>5. CASE RefreshEnds \/ RefreshFails \/ OriginRestart
  BY <1>5 DEF RefreshEnds, RefreshFails, OriginRestart, CacheShapes, Entry, None
<1>6. CASE CopyAges
  <2>1. PICK a \in {"stale", "expired"} : copy' = [at |-> a, got |-> copy.got]
    BY <1>6, OnlyAges
  <2> QED BY <1>6, <2>1 DEF CopyAges, CacheShapes, Entry, None
<1>7. CASE Prewarm \/ RefreshReads \/ Replay \/ (\E s \in Session : Spread(s)) \/ UNCHANGED edgeVars
  BY <1>7 DEF Spread, Prewarm, RefreshReads, Replay, edgeVars, caches, Refreshing, CacheShapes, Entry, None
<1> QED BY <1>1, <1>2, <1>3, <1>4, <1>5, <1>6, <1>7 DEF EdgeNext, EdgeStep, EdgeMove

\* Settled is what the requests say.
LEMMA SettledIs == Settled = {q \in Request : SettledReq(req[q])}
BY DEF Settled, Heard, SettledReq

LEMMA SettledIsNext == Settled' = {q \in Request : SettledReq(req'[q])}
BY DEF Settled, Heard, SettledReq

LEMMA SettledFinished ==
  ASSUME NEW q \in Settled
  PROVE  q \in Finished
BY DEF Settled, Heard, Finished, Ended

\* A step that finishes nothing leaves what is kept as it was, or drops it.
LEMMA KeptFrame ==
  ASSUME CacheShapes, Kept, Finished' \subseteq Finished, stored \subseteq stored',
         \A q \in Request : origin'[q].at = "written" => origin[q].at = "written" \/ q \in stored',
         generation' \in Nat, generation' >= generation, UNCHANGED snapshot,
         \/ inflight' = inflight
         \/ inflight' = None
         \/ inflight' = [at |-> "reading", gen |-> generation']
  PROVE  Kept'
<1> USE DEF CacheShapes
<1>1. /\ Finished' \subseteq stored'
      /\ \A q \in Request : origin'[q].at = "written" => q \in stored'
  BY DEF Kept
<1>2. snapshot' # None =>
       /\ snapshot'.gen \in Nat /\ snapshot'.gen <= generation'
       /\ snapshot'.gen = generation' => Finished' \subseteq snapshot'.got
  BY DEF Kept
<1>3. CASE inflight' = inflight
  <2>1. inflight # None => inflight.gen \in Nat /\ inflight.gen <= generation'
    BY DEF Kept
  <2>2. ASSUME inflight.at = "read", inflight.gen = generation' PROVE Finished' \subseteq inflight.got
    <3>1. inflight.gen = generation
      BY <2>2 DEF Kept, None
    <3> QED BY <2>2, <3>1 DEF Kept
  <2> QED BY <1>1, <1>2, <1>3, <2>1, <2>2 DEF Kept
<1>4. CASE inflight' = None
  BY <1>1, <1>2, <1>4 DEF Kept, None
<1>5. CASE inflight' = [at |-> "reading", gen |-> generation']
  BY <1>1, <1>2, <1>5 DEF Kept, None
<1> QED BY <1>3, <1>4, <1>5

LEMMA FinishedShrinks ==
  ASSUME Shapes, NEW r \in Request, LivesOn(r),
         Ended(req'[r], origin'[r]) => Ended(req[r], origin[r])
  PROVE  Finished' \subseteq Finished
BY DEF Finished, LivesOn, Alone, Ended

LEMMA KeptEdge ==
  ASSUME Shapes, CacheShapes, Kept, NEW r \in Request, LivesOn(r),
         Ended(req'[r], origin'[r]) => Ended(req[r], origin[r]),
         origin'[r].at = "written" => origin[r].at = "written",
         UNCHANGED <<generation, snapshot, inflight, stored>>
  PROVE  Kept'
<1>1. Finished' \subseteq Finished
  BY FinishedShrinks
<1>2. \A q \in Request : origin'[q].at = "written" => origin[q].at = "written"
  BY DEF LivesOn, Alone
<1>3. generation' \in Nat /\ generation' >= generation
  BY DEF CacheShapes
<1> QED BY <1>1, <1>2, <1>3, KeptFrame

LEMMA KeptServer ==
  ASSUME Shapes, CacheShapes, Kept, NEW r \in Request, Life(r), OriginStep(r)
  PROVE  Kept'
<1> USE DEF CacheShapes
<1>0. /\ UNCHANGED <<req, snapshot>>
      /\ \A q \in Request : q # r => origin'[q] = origin[q]
      /\ LivesOn(r)
  BY ServerMoveLives DEF OriginStep, OriginRefuses, MutationStarts, MutationWrites, MutationEnds, MutationFails,
     OriginServesSnapshot, OriginWaits, caches, LivesOn, Alone
<1>1. CASE OriginRefuses(r) \/ MutationStarts(r) \/ MutationFails(r)
  <2>1. origin'[r].at \in {"refused", "error", "writing", "rejected"}
    BY <1>1 DEF OriginRefuses, MutationStarts, MutationFails, Shapes
  <2>2. generation' \in Nat /\ generation' >= generation /\ UNCHANGED <<inflight, stored>>
    BY <1>1 DEF OriginRefuses, MutationStarts, MutationFails, data
  <2>3. Finished' \subseteq Finished
    BY <1>0, <2>1, FinishedShrinks DEF Ended
  <2> QED BY <1>0, <2>1, <2>2, <2>3, KeptFrame
<1>2. CASE MutationWrites(r)
  <2>1. origin'[r].at = "written" /\ stored' = stored \union {r} /\ UNCHANGED <<inflight, generation>>
    BY <1>2 DEF MutationWrites, Shapes, caches
  <2>2. Finished' \subseteq Finished
    BY <1>0, <2>1, FinishedShrinks DEF Ended
  <2> QED BY <1>0, <2>1, <2>2, KeptFrame
<1>3. CASE MutationEnds(r)
  <2>1. origin'[r].at = "done" /\ origin[r].at = "written" /\ UNCHANGED <<inflight, stored>>
        /\ generation' = generation + 1
    BY <1>3 DEF MutationEnds, Shapes, data
  <2>2. Finished' \subseteq Finished \union {r} /\ r \in stored
    BY <1>0, <2>1 DEF Finished, Ended, Kept
  <2>3. snapshot # None => snapshot.gen < generation' /\ snapshot.gen \in Nat
    BY <2>1 DEF Kept
  <2>4. inflight # None => inflight.gen < generation' /\ inflight.gen \in Nat
    BY <2>1 DEF Kept
  <2>5. \A q \in Request : origin'[q].at = "written" => q \in stored
    BY <1>0, <2>1 DEF Kept
  <2>6. inflight.at = "read" => inflight # None
    BY DEF None
  <2>7. Finished' \subseteq stored'
    BY <2>1, <2>2 DEF Kept
  <2> QED BY <1>0, <2>1, <2>3, <2>4, <2>5, <2>6, <2>7 DEF Kept
<1>4. CASE OriginServesSnapshot(r) \/ OriginWaits(r)
  <2>1. origin'[r].at \in {"data", "wait"} /\ UNCHANGED <<generation, stored>>
    BY <1>4 DEF OriginServesSnapshot, OriginWaits, Shapes, data
  <2>2. Finished' \subseteq Finished
    BY <1>0, <2>1, FinishedShrinks DEF Ended
  <2>3. inflight' = inflight \/ inflight' = [at |-> "reading", gen |-> generation']
    BY <1>4, <2>1 DEF OriginServesSnapshot, OriginWaits, Refreshing
  <2> QED BY <1>0, <2>1, <2>2, <2>3, KeptFrame
<1> QED BY <1>1, <1>2, <1>3, <1>4 DEF OriginStep

LEMMA KeptRefresh ==
  ASSUME Shapes, CacheShapes, Kept, RefreshReads \/ RefreshEnds \/ RefreshFails \/ OriginRestart
  PROVE  Kept'
<1> USE DEF CacheShapes
<1>0. /\ UNCHANGED <<req, stored>>
      /\ \A q \in Request : Turned(origin[q], origin'[q])
  BY RefreshEndsTurns DEF RefreshReads, RefreshEnds, RefreshFails, OriginRestart, data, Turned
<1>1. /\ Finished' \subseteq Finished
      /\ \A q \in Request : origin'[q].at = "written" => origin[q].at = "written"
  BY <1>0 DEF Finished, Ended, Turned
<1>2. CASE RefreshReads
  <2>1. UNCHANGED <<generation, snapshot>> /\ inflight.gen \in Nat /\ inflight.gen <= generation
    BY <1>2 DEF RefreshReads, Kept, None
  <2>2. inflight' = [at |-> "read", gen |-> inflight.gen, got |-> stored]
    BY <1>2 DEF RefreshReads
  <2> QED BY <1>0, <1>1, <2>1, <2>2 DEF Kept
<1>3. CASE RefreshEnds
  <2>1. /\ UNCHANGED generation /\ inflight' = None
        /\ inflight.gen \in Nat /\ inflight.gen <= generation
        /\ inflight.gen = generation => Finished \subseteq inflight.got
    BY <1>3 DEF RefreshEnds, Kept, None
  <2>2. \/ UNCHANGED snapshot
        \/ /\ snapshot' = [at |-> "kept", gen |-> inflight.gen, got |-> inflight.got]
           /\ inflight.gen = generation
    BY <1>3 DEF RefreshEnds
  <2>3. CASE UNCHANGED snapshot
    BY <1>0, <1>1, <2>1, <2>3, KeptFrame
  <2>4. CASE /\ snapshot' = [at |-> "kept", gen |-> inflight.gen, got |-> inflight.got]
             /\ inflight.gen = generation
    BY <1>0, <1>1, <2>1, <2>4 DEF Kept, None
  <2> QED BY <2>2, <2>3, <2>4
<1>4. CASE RefreshFails
  <2>1. UNCHANGED <<generation, snapshot>> /\ inflight' = None
    BY <1>4 DEF RefreshFails
  <2> QED BY <1>0, <1>1, <2>1, KeptFrame
<1>5. CASE OriginRestart
  <2>1. generation' = 0 /\ snapshot' = None /\ inflight' = None
    BY <1>5 DEF OriginRestart
  <2> QED BY <1>0, <1>1, <2>1 DEF Kept, None
<1> QED BY <1>2, <1>3, <1>4, <1>5

LEMMA KeptNext ==
  ASSUME Shapes, CacheShapes, \A d \in Request : Life(d), Kept, [EdgeNext]_edgeVars
  PROVE  Kept'
<1>1. ASSUME NEW r \in Request, NEW k \in Kinds, NEW s \in Session, Begin(r, k, s) PROVE Kept'
  <2>1. /\ LivesOn(r) /\ origin'[r] = None /\ req'[r].heard = "none"
    BY <1>1, LifeBegin, LoggedOutRevoked
  <2>2. UNCHANGED <<generation, snapshot, inflight, stored>>
    BY <1>1 DEF Begin, caches, data
  <2> QED BY <2>1, <2>2, KeptEdge DEF Ended, None
<1>2. ASSUME NEW r \in Request, EdgeMove(r) PROVE Kept'
  BY <1>2, EdgeMoveEffect, KeptEdge DEF EdgeMoves, Course
<1>3. ASSUME NEW r \in Request, Invalidate(r) PROVE Kept'
  <2>1. UNCHANGED <<generation, snapshot, inflight, stored>>
    BY <1>3 DEF Invalidate, data
  <2> QED BY <1>3, <2>1, LifeInvalidate, KeptEdge DEF Course
<1>4. ASSUME NEW r \in Request, OriginStep(r) PROVE Kept'
  BY <1>4, KeptServer
<1>5. CASE RefreshReads \/ RefreshEnds \/ RefreshFails \/ OriginRestart
  BY <1>5, KeptRefresh
<1>6. CASE Prewarm \/ CopyAges \/ Replay \/ (\E s \in Session : Spread(s)) \/ UNCHANGED edgeVars
  <2>1. /\ UNCHANGED <<req, origin, generation, snapshot>> /\ stored \subseteq stored'
        /\ \/ inflight' = inflight
           \/ inflight' = [at |-> "reading", gen |-> generation']
    BY <1>6 DEF Spread, Prewarm, CopyAges, Replay, edgeVars, caches, data, Refreshing
  <2>2. Finished' \subseteq Finished
    BY <2>1 DEF Finished
  <2> QED BY <2>1, <2>2, KeptFrame DEF CacheShapes
<1> QED BY <1>1, <1>2, <1>3, <1>4, <1>5, <1>6 DEF EdgeNext, EdgeStep, EdgeMove

\* What one request's step leaves of what is shown.
LEMMA ShownAlone ==
  ASSUME Shapes, Shown, NEW r \in Request, LivesOn(r),
         SettledReq(req'[r]) <=> SettledReq(req[r]),
         Ready(req'[r], origin'[r], reval'[r]) =>
           Ready(req[r], origin[r], reval[r]) /\ origin'[r] = origin[r],
         reval'[r].at = "put" => \/ reval'[r] = reval[r]
                                 \/ Arriving(r) /\ reval'[r].got = origin[r].got,
         req'[r].owed \subseteq Settled,
         Shows(req'[r]) => \/ req'[r].owed = req[r].owed /\ Shows(req[r]) /\ req'[r].got = req[r].got
                           \/ Arriving(r) /\ req'[r].got = origin[r].got
                           \/ copy # None /\ req'[r].got = copy.got,
         UNCHANGED inflight,
         copy' # None => copy' = copy \/ (reval[r].at = "put" /\ copy'.got = reval[r].got)
                                      \/ (copy # None /\ copy'.got = copy.got)
  PROVE  Shown'
<1>1. Settled' = Settled
  BY SettledIs, SettledIsNext DEF LivesOn, Alone
<1>2. ASSUME NEW d \in Request, d # r
      PROVE  req'[d] = req[d] /\ origin'[d] = origin[d] /\ reval'[d] = reval[d]
  BY <1>2 DEF LivesOn, Alone
<1>3. copy' # None => Settled' \subseteq copy'.got
  BY <1>1 DEF Shown
<1>4. inflight'.at = "read" => Settled' \subseteq inflight'.got
  BY <1>1 DEF Shown
<1>5. ASSUME NEW d \in Request, reval'[d].at = "put" PROVE Settled' \subseteq reval'[d].got
  BY <1>1, <1>2, <1>5 DEF Shown, Arriving
<1>6. ASSUME NEW d \in Request, Arriving(d)' PROVE Settled' \subseteq origin'[d].got
  BY <1>1, <1>2, <1>6 DEF Shown, Arriving
<1>7. ASSUME NEW d \in Request
      PROVE  /\ req'[d].owed \subseteq Settled'
             /\ Shows(req'[d]) => req'[d].owed \subseteq req'[d].got
  BY <1>1, <1>2 DEF Shown, Arriving
<1> QED BY <1>3, <1>4, <1>5, <1>6, <1>7 DEF Shown

\* Where nothing is under way and the copy is dropped, a request may become settled.
LEMMA ShownQuiet ==
  ASSUME Shapes, \A d \in Request : Life(d), Shown, NEW r \in Request, LivesOn(r),
         Course(req[r], origin[r], reval[r], req'[r], origin'[r], reval'[r], copy),
         ~SettledReq(req[r]), Quiet, req[r].at = "invalidate",
         copy' = None, UNCHANGED <<inflight, origin, reval>>
  PROVE  Shown'
<1>0. /\ inflight = None /\ req[r].kind \in Mutations
      /\ \A d \in Request : reval[d] = None
      /\ \A d \in Request : ~Arriving(d)
  BY DEF Quiet, Life, Lives, PlaceOfKind, Untouched, Arriving, Ready, None, Mutations
<1>1. Settled \subseteq Settled'
  BY SettledIs, SettledIsNext DEF LivesOn, Alone
<1>2. ASSUME NEW d \in Request, d # r
      PROVE  req'[d] = req[d]
  BY <1>2 DEF LivesOn, Alone
<1>3. ~Ready(req'[r], origin'[r], reval'[r])
  BY <1>0 DEF Course, Arriving
<1>4. ASSUME NEW d \in Request PROVE ~Arriving(d)' /\ reval'[d].at # "put"
  BY <1>0, <1>2, <1>3 DEF Arriving, None
<1>5. ASSUME NEW d \in Request PROVE req'[d].owed \subseteq Settled'
  BY <1>1, <1>2 DEF Shown, Course
<1>6. ~Shows(req'[r])
  BY <1>0 DEF Shows, Course, Mutations
<1> QED BY <1>0, <1>2, <1>4, <1>5, <1>6 DEF Shown, None

\* The server's steps: callers are answered with what holds the settled mutations.
LEMMA ShownServer ==
  ASSUME Shapes, Shown, UNCHANGED <<req, reval, copy>>,
         inflight'.at = "read" => inflight' = inflight \/ Settled \subseteq inflight'.got,
         \A d \in Request : origin'[d].at = "data" =>
            origin'[d] = origin[d] \/ Settled \subseteq origin'[d].got
  PROVE  Shown'
<1>1. Settled' = Settled
  BY SettledIs, SettledIsNext
<1>2. ASSUME NEW d \in Request, Arriving(d)' PROVE Settled' \subseteq origin'[d].got
  BY <1>1, <1>2 DEF Shown, Arriving, Ready
<1> QED BY <1>1, <1>2 DEF Shown

LEMMA ShownNext ==
  ASSUME Shapes, CacheShapes, \A d \in Request : Life(d), Kept, Shown, [EdgeNext]_edgeVars
  PROVE  Shown'
<1>0. Settled \subseteq stored
  BY SettledFinished DEF Kept
<1>1. ASSUME NEW r \in Request, NEW k \in Kinds, NEW s \in Session, Begin(r, k, s) PROVE Shown'
  <2>1. /\ LivesOn(r) /\ origin'[r] = None /\ reval'[r] = None
        /\ req'[r].heard = "none" /\ req'[r].status = "none" /\ req'[r].owed \subseteq Settled
        /\ ~SettledReq(req[r])
    BY <1>1, LifeBegin, LoggedOutRevoked
  <2>2. UNCHANGED <<inflight, copy>>
    BY <1>1 DEF Begin, caches
  <2>3. ~SettledReq(req'[r]) /\ ~Ready(req'[r], origin'[r], reval'[r]) /\ ~Shows(req'[r])
        /\ reval'[r].at # "put"
    BY <2>1 DEF SettledReq, Ready, Shows, None
  <2> QED BY <2>1, <2>2, <2>3, ShownAlone
<1>2. ASSUME NEW r \in Request, EdgeMove(r) PROVE Shown'
  <2>1. /\ LivesOn(r) /\ EdgeMoves(r) /\ UNCHANGED inflight
        /\ UNCHANGED copy \/ (reval[r].at = "put" /\ copy' = [at |-> "fresh", got |-> reval[r].got])
    BY <1>2, EdgeMoveEffect
  <2>2. copy' # None => copy' = copy \/ (reval[r].at = "put" /\ copy'.got = reval[r].got)
    BY <2>1
  <2>3. req'[r].owed \subseteq Settled
    BY <2>1 DEF EdgeMoves, Course, Shown
  <2> QED BY <2>1, <2>2, <2>3, ShownAlone DEF EdgeMoves, Course, Arriving
<1>3. ASSUME NEW r \in Request, Invalidate(r) PROVE Shown'
  <2>1. /\ LivesOn(r) /\ Course(req[r], origin[r], reval[r], req'[r], origin'[r], reval'[r], copy)
        /\ ~SettledReq(req[r])
        /\ SettledReq(req'[r]) => Quiet /\ copy' = None
    BY <1>3, LifeInvalidate
  <2>2. /\ UNCHANGED <<inflight, origin, reval>> /\ req[r].at = "invalidate"
        /\ copy' = None \/ copy' = copy
    BY <1>3 DEF Invalidate
  <2>3. CASE SettledReq(req'[r])
    BY <2>1, <2>2, <2>3, ShownQuiet
  <2>4. CASE ~SettledReq(req'[r])
    <3>1. req'[r].owed \subseteq Settled
      BY <2>1 DEF Course, Shown
    <3> QED BY <2>1, <2>2, <2>4, <3>1, ShownAlone DEF Course, Arriving
  <2> QED BY <2>3, <2>4
<1>4. ASSUME NEW r \in Request, OriginStep(r) PROVE Shown'
  <2>1. /\ UNCHANGED <<req, reval, copy>>
        /\ \A d \in Request : d # r => origin'[d] = origin[d]
    BY <1>4 DEF OriginStep, OriginRefuses, MutationStarts, MutationWrites, MutationEnds, MutationFails,
       OriginServesSnapshot, OriginWaits, caches, Shapes
  <2>2. inflight'.at = "read" => inflight' = inflight
    BY <1>4 DEF OriginStep, OriginRefuses, MutationStarts, MutationWrites, MutationEnds, MutationFails,
       OriginServesSnapshot, OriginWaits, caches, Refreshing
  <2>3. CASE OriginServesSnapshot(r)
    <3>1. origin'[r].got = snapshot.got /\ snapshot # None /\ snapshot.gen = generation
      BY <2>3 DEF OriginServesSnapshot, Shapes
    <3>2. Settled \subseteq origin'[r].got
      BY <3>1, SettledFinished DEF Kept
    <3> QED BY <2>1, <2>2, <3>2, ShownServer
  <2>4. CASE ~OriginServesSnapshot(r)
    <3>1. origin'[r].at # "data"
      BY <1>4, <2>4 DEF OriginStep, OriginRefuses, MutationStarts, MutationWrites, MutationEnds,
         MutationFails, OriginWaits, Shapes
    <3> QED BY <2>1, <2>2, <3>1, ShownServer
  <2> QED BY <2>3, <2>4
<1>5. CASE RefreshReads
  <2>1. UNCHANGED <<req, reval, copy, origin>> /\ inflight'.got = stored
    BY <1>5 DEF RefreshReads
  <2> QED BY <1>0, <2>1, ShownServer
<1>6. CASE RefreshEnds \/ RefreshFails \/ OriginRestart
  <2>1. /\ UNCHANGED <<req, reval, copy>> /\ inflight' = None
    BY <1>6 DEF RefreshEnds, RefreshFails, OriginRestart
  <2>2. ASSUME NEW d \in Request, origin'[d].at = "data"
        PROVE  origin'[d] = origin[d] \/ Settled \subseteq origin'[d].got
    BY <1>6, <2>2 DEF RefreshEnds, RefreshFails, OriginRestart, None, Shown
  <2> QED BY <2>1, <2>2, ShownServer DEF None
<1>7. CASE CopyAges
  <2>1. PICK a \in {"stale", "expired"} : copy' = [at |-> a, got |-> copy.got]
    BY <1>7, OnlyAges
  <2>2. UNCHANGED <<req, origin, reval, inflight>> /\ copy # None
    BY <1>7 DEF CopyAges, None
  <2>3. Settled' = Settled
    BY <2>2, SettledIs, SettledIsNext
  <2> QED BY <2>1, <2>2, <2>3 DEF Shown, Arriving
<1>8. CASE Prewarm \/ Replay \/ (\E s \in Session : Spread(s)) \/ UNCHANGED edgeVars
  <2>1. /\ UNCHANGED <<req, reval, copy, origin>>
        /\ inflight'.at = "read" => inflight' = inflight
    BY <1>8 DEF Spread, Prewarm, Replay, Refreshing, edgeVars, caches
  <2> QED BY <2>1, ShownServer
<1> QED BY <1>1, <1>2, <1>3, <1>4, <1>5, <1>6, <1>7, <1>8 DEF EdgeNext, EdgeStep, EdgeMove

-----------------------------------------------------------------------------
(***************************************************************************)
(* The inductive invariant, and what follows from it.                      *)
(***************************************************************************)
EdgeInv ==
  /\ Shapes /\ CacheShapes
  /\ \A r \in Request : Life(r)
  /\ Kept /\ Shown

LEMMA EdgeInvInit == EdgeInit => EdgeInv
<1> SUFFICES ASSUME EdgeInit PROVE EdgeInv
  OBVIOUS
<1> USE DEF EdgeInit
<1>1. Shapes
  BY DEF Shapes, ReqShape, ReqPlaces, Entry, OriginPlaces, None
<1>2. CacheShapes
  BY DEF CacheShapes, Entry, None
<1>3. ASSUME NEW r \in Request PROVE Life(r)
  BY DEF Life, Lives, PlaceOfKind, Untouched, Applied, Barred, Mutations, None
<1>4. Kept
  BY DEF Kept, Finished, Ended, None
<1>5. Shown
  BY DEF Shown, Arriving, Ready, Shows, Settled, Heard, None
<1> QED BY <1>1, <1>2, <1>3, <1>4, <1>5 DEF EdgeInv

LEMMA EdgeInvNext == EdgeInv /\ [EdgeNext]_edgeVars => EdgeInv'
BY LifeNext, CacheShapesNext, KeptNext, ShownNext DEF EdgeInv

LEMMA EdgeInvHolds == EdgeSpec => []EdgeInv
BY EdgeInvInit, EdgeInvNext, PTL DEF EdgeSpec

(* Once a logout has been answered and its marker is read everywhere, no     *)
(* request of that session that begins is carried out, whatever else is      *)
(* under way or fails.                                                       *)
THEOREM EdgeNothingAfterLogout == EdgeSpec => []NothingAfterLogout
<1>1. EdgeInv => NothingAfterLogout
  BY DEF EdgeInv, Life, Lives, Barred, NothingAfterLogout
<1> QED BY <1>1, EdgeInvHolds, PTL

(* The server's snapshot of the current generation holds every mutation      *)
(* whose handler has ended.                                                  *)
THEOREM EdgeSnapshotComplete == EdgeSpec => []CurrentSnapshotComplete
<1>1. EdgeInv => CurrentSnapshotComplete
  BY DEF EdgeInv, Kept, Finished, Ended, CurrentSnapshotComplete
<1> QED BY <1>1, EdgeInvHolds, PTL

(* A load that begins after a mutation was answered shows it, when nothing   *)
(* was under way as the edge dropped its copy.                               *)
THEOREM EdgeQuietWritesSeen == EdgeSpec => []QuietWritesSeen
<1>1. EdgeInv => QuietWritesSeen
  BY DEF EdgeInv, Shown, Shows, QuietWritesSeen
<1> QED BY <1>1, EdgeInvHolds, PTL

(* A mutation is applied twice only if the server was not heard in time or   *)
(* failed, and one that was answered ok was applied.                         *)
THEOREM EdgeTwiceOnlyIfUnheard == EdgeSpec => []TwiceOnlyIfUnheard
<1>1. EdgeInv => TwiceOnlyIfUnheard
  <2>1. ASSUME EdgeInv, NEW r \in Request
        PROVE  /\ times[r] <= 2
               /\ times[r] = 2 => req[r].heard \in {"timeout", "failed"}
               /\ req[r].kind \in Mutations /\ req[r].status = "ok" => times[r] > 0
    BY <2>1 DEF EdgeInv, Life, Lives, Applied, Shapes
  <2> QED BY <2>1 DEF TwiceOnlyIfUnheard
<1> QED BY <1>1, EdgeInvHolds, PTL
=============================================================================
