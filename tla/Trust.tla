-------------------------------- MODULE Trust --------------------------------
(***************************************************************************)
(* The trust strip of the panel (cf-worker/global-trust.ts and trustView   *)
(* of App.tsx).  The worker reads the snapshot and the decision of the     *)
(* Control Core and the control plane's document in three requests, while  *)
(* production is deployed, proved and signed; it derives a state, shares   *)
(* it through the edge cache, and the panel judges what it was given by    *)
(* its own clock whenever it draws.                                        *)
(*                                                                         *)
(* Counts, invariants, continuity and health are one verdict of the core,  *)
(* published with its decision: "green", "degraded" (its continuity        *)
(* channels) or "blocked".  The control plane answers with the release     *)
(* that runs and the last quorum, and may contradict the core.             *)
(***************************************************************************)
EXTENDS Naturals

CONSTANTS Sha,             \* commit SHAs of production
          Verdicts,        \* verdicts of the core the model considers
          Absent,
          Read,            \* requests for /global-trust.json that may be under way
          SnapshotMaxAge,  \* SNAPSHOT_MAX_AGE_MS (10 min)
          ProofMaxAge,     \* PROOF_MAX_AGE_MS (3 h)
          CacheTtl,        \* TRUST_CACHE_TTL_S (30 s)
          Skew,            \* how far a timestamp may lie in the future (5 min)
          MaxTime, MaxPublications, MaxReads   \* bounds of the model

ASSUME TrustAssumption == /\ Absent \notin Sha
                          /\ Verdicts \subseteq {"green", "degraded", "blocked"}
                          /\ {SnapshotMaxAge, ProofMaxAge, CacheTtl, Skew} \subseteq Nat

VARIABLES
  time,
  production, \* the release in production
  proof,      \* the last ZEES-16 evaluation: release, time, whether complete
  quorum,     \* the last quorum of independent signers: release and time
  core,       \* what the Control Core published last: release, time, proof, verdict
  edgeCache,  \* the shared edge cache: a document and when it expires, or Absent
  reads,      \* where each request stands, the documents it has, when it began
  shown,      \* the document the panel keeps, or Absent
  published, asked,            \* publications and requests so far
  wasLive, provenAt, signedAt  \* ghosts: last time of each release in production,
                               \* with complete proof and with a quorum
docs == <<proof, quorum, core>>
ghosts == <<wasLive, provenAt, signedAt>>
trustVars == <<time, production, docs, edgeCache, reads, shown, published, asked, ghosts>>

\* A ghost of 0 says never: the clock starts late enough for that to be out of every window.
Start == SnapshotMaxAge + ProofMaxAge + Skew + 1
\* x lies at most `age` in the past and not too far in the future of `now`.
Current(x, now, age) == now <= x + age /\ x <= now + Skew

-----------------------------------------------------------------------------
(* deriveGlobalTrust *)

\* Presence, binding and validity of the proof.
Proved(s, c, now) ==
  /\ s # Absent
  /\ Current(s.at, now, SnapshotMaxAge) /\ Current(s.proof.at, now, ProofMaxAge)
  /\ s.proof.sha = s.sha
  /\ c # Absent => c.sha = s.sha
Decided(s, d, now) ==
  d # Absent /\ s # Absent /\ d.sha = s.sha /\ now <= d.at + SnapshotMaxAge /\ d.at <= now + SnapshotMaxAge

\* independentQuorumProven, for this release and fresh.
\* Mutant: whatever release the quorum signed.
QuorumOkAny(s, c, now) ==
  s # Absent /\ c # Absent /\ Current(c.chain.at, now, ProofMaxAge)
QuorumOk(s, c, now) ==
  c # Absent /\ c.chain.sha = s.sha /\ Current(c.chain.at, now, ProofMaxAge)

Derive(s, d, c, agrees, now) ==
  LET state == IF ~(Proved(s, c, now) /\ Decided(s, d, now)) THEN "NO_PROOF"
               ELSE IF ~s.proof.complete \/ "blocked" \in {s.verdict, d.verdict} THEN "BLOCKED"
               ELSE IF ~QuorumOk(s, c, now) \/ s.verdict = "degraded" \/ ~agrees THEN "DEGRADED"
               ELSE "GREEN"
      ends  == {s.at + SnapshotMaxAge, s.proof.at + ProofMaxAge}
  IN  [state |-> state,
       sha   |-> IF s = Absent THEN Absent ELSE s.sha,
       until |-> IF s = Absent THEN Absent ELSE CHOOSE t \in ends : \A u \in ends : t <= u]

\* trustView: an expired document, or one without a release, proves nothing.
View(doc) == IF doc = Absent THEN "noproof"
             ELSE IF doc.until = Absent THEN "noproof"
             ELSE IF time > doc.until THEN "noproof" ELSE doc.state

-----------------------------------------------------------------------------
(* globalTrustResponse and the panel's poll. *)
NoRead == [at |-> "idle", began |-> 0, left |-> {}, s |-> Absent, d |-> Absent, c |-> Absent, doc |-> Absent]

\* The cache answers, or the three documents are asked for; the time is taken now.
Ask(x) ==
  /\ reads[x].at = "idle"
  /\ asked < MaxReads /\ asked' = asked + 1
  /\ reads' = [reads EXCEPT ![x] =
       IF edgeCache # Absent /\ time <= edgeCache.until
         THEN [NoRead EXCEPT !.at = "answer", !.doc = edgeCache.doc]
         ELSE [NoRead EXCEPT !.at = "fetch", !.began = time, !.left = {"s", "d", "c"}]]
  /\ UNCHANGED <<time, production, docs, edgeCache, shown, published, ghosts>>

\* One of the three requests is answered with what is published by then.  After the last
\* the document is derived as of the time the reads began, one that failed counting as
\* missing (several fail no differently), and put into the cache if that works.
Fetch(x) ==
  /\ reads[x].at = "fetch"
  /\ \E part \in reads[x].left :
       LET got == [reads[x] EXCEPT
                     !.left = @ \ {part},
                     !.s = IF part = "s" THEN core ELSE @,
                     !.d = IF part = "d" THEN core ELSE @,
                     !.c = IF part = "c" THEN [sha |-> production, chain |-> quorum] ELSE @]
       IN  IF got.left # {}
             THEN reads' = [reads EXCEPT ![x] = got] /\ UNCHANGED edgeCache
             ELSE \E fault \in {"none", "s", "d", "c", "contradicts"} :
                    LET of(p, doc) == IF p = fault THEN Absent ELSE doc
                        doc == Derive(of("s", got.s), of("d", got.d), of("c", got.c),
                                      fault # "contradicts", got.began)
                    IN  /\ reads' = [reads EXCEPT ![x] = [NoRead EXCEPT !.at = "answer", !.doc = doc]]
                        /\ edgeCache' \in {edgeCache, [doc |-> doc, until |-> time + CacheTtl]}
  /\ UNCHANGED <<time, production, docs, shown, published, asked, ghosts>>

\* loadGlobalTrustLive: answers reach the panel in any order; a failed one clears it.
Deliver(x) ==
  /\ reads[x].at = "answer"
  /\ shown' \in {reads[x].doc, Absent}
  /\ reads' = [reads EXCEPT ![x] = NoRead]
  /\ UNCHANGED <<time, production, docs, edgeCache, published, asked, ghosts>>

-----------------------------------------------------------------------------
(* Time, production and what it publishes. *)
Tick ==
  /\ time < Start + MaxTime
  /\ time' = time + 1
  /\ wasLive' = [wasLive EXCEPT ![production] = time + 1]
  /\ UNCHANGED <<production, docs, edgeCache, reads, shown, published, asked, provenAt, signedAt>>

Promote ==
  /\ production' \in Sha \ {production}
  /\ wasLive' = [wasLive EXCEPT ![production'] = time]
  /\ published < MaxPublications /\ published' = published + 1
  /\ UNCHANGED <<time, docs, edgeCache, reads, shown, asked, provenAt, signedAt>>

Publish ==
  /\ published < MaxPublications /\ published' = published + 1
  /\ \/ \E complete \in BOOLEAN :
          /\ proof' = [sha |-> production, at |-> time, complete |-> complete]
          /\ provenAt' = IF complete THEN [provenAt EXCEPT ![production] = time] ELSE provenAt
          /\ UNCHANGED <<quorum, core, signedAt>>
     \/ /\ quorum' = [sha |-> production, at |-> time]
        /\ signedAt' = [signedAt EXCEPT ![production] = time]
        /\ UNCHANGED <<proof, core, provenAt>>
     \/ \E v \in Verdicts :
          /\ core' = [sha |-> production, at |-> time, proof |-> proof, verdict |-> v]
          /\ UNCHANGED <<proof, quorum, provenAt, signedAt>>
  /\ UNCHANGED <<time, production, edgeCache, reads, shown, asked, wasLive>>

\* Everything was published for the first release, proof and quorum a while ago.
TrustInit ==
  /\ time = Start /\ production \in Sha
  /\ proof = [sha |-> production, at |-> Start - 1, complete |-> TRUE]
  /\ quorum = [sha |-> production, at |-> Start - 1]
  /\ core = [sha |-> production, at |-> Start, proof |-> proof, verdict |-> "green"]
  /\ edgeCache = Absent /\ shown = Absent /\ published = 0 /\ asked = 0
  /\ reads = [x \in Read |-> NoRead]
  /\ wasLive = [r \in Sha |-> IF r = production THEN Start ELSE 0]
  /\ provenAt = [r \in Sha |-> IF r = production THEN Start - 1 ELSE 0]
  /\ signedAt = provenAt

TrustNext == \/ \E x \in Read : Ask(x) \/ Fetch(x) \/ Deliver(x)
             \/ Tick \/ Promote \/ Publish
TrustSpec == TrustInit /\ [][TrustNext]_trustVars

-----------------------------------------------------------------------------
(***************************************************************************)
(* Whenever the panel draws GREEN, however late the document reached it    *)
(* and through whatever cache, its release was in production within the    *)
(* age of a snapshot, was completely proved within the age of a proof and  *)
(* had a quorum of its own ("a leftover quorum of a previous release plus  *)
(* a fresh snapshot must never produce GREEN").                            *)
(***************************************************************************)
GreenWasLive ==
  View(shown) = "GREEN" =>
    /\ time <= wasLive[shown.sha] + SnapshotMaxAge
    /\ time <= provenAt[shown.sha] + ProofMaxAge
    /\ time <= signedAt[shown.sha] + ProofMaxAge + SnapshotMaxAge + Skew
=============================================================================
