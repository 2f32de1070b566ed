-------------------------- MODULE Evidence_proofs --------------------------
(***************************************************************************)
(* Proofs about the panel's evidence: the runs of a certification and what *)
(* counts of them (Certification), the trust strip (Trust) and the counts  *)
(* of incidents (Incidents), for any processes, products, releases,        *)
(* refreshes and bounds.                                                   *)
(***************************************************************************)
EXTENDS Certification, Incidents, Trust, WellFoundedInduction, FiniteSetTheorems, TLAPS

-----------------------------------------------------------------------------
(* The records a process works on. *)

Fields == {"task", "at", "id", "form", "have", "listing", "sys", "ev", "run", "rows", "found",
           "unread", "lately"}
FullWork(x) == x = [f \in Fields |-> x[f]]
RunRec(x) == x = [target |-> x.target, print |-> x.print, status |-> x.status, done |-> x.done]
EvRec(x) == x = [target |-> x.target, print |-> x.print, found |-> x.found, dead |-> x.dead]

AllWork == work = [q \in Proc |-> work[q]] /\ \A q \in Proc : FullWork(work[q])

\* Runs under way, with a record of their own.
Busy == {"check", "store", "finish", "final"}
\* Runs past their own invalidation that have not stored yet.
Building == {"start", "check", "store"}

LEMMA NoWorkFull ==
  FullWork(NoWork) /\ NoWork.at = "idle" /\ NoWork.found = <<>> /\ NoWork.rows = {}
  BY DEF FullWork, Fields, NoWork

\* ensureProducts never leads into a run.
LEMMA AfterListOut ==
  ASSUME NEW l, NEW task
  PROVE  /\ AfterList(l, task) \in {"migrate", "fill", "add", "systems", "read", "telemetry"}
         /\ AfterMigrate(l, task) \in {"fill", "add", "systems", "read", "telemetry"}
         /\ AfterFill(l, task) \in {"add", "systems", "read", "telemetry"}
         /\ Main(task) \in {"systems", "read", "telemetry"}
<1>1. Main(task) \in {"systems", "read", "telemetry"}
  BY DEF Main
<1>2. AfterFill(l, task) \in {"add", "systems", "read", "telemetry"}
  BY <1>1 DEF AfterFill
<1>3. AfterMigrate(l, task) \in {"fill", "add", "systems", "read", "telemetry"}
  BY <1>2 DEF AfterMigrate
<1>. QED
  BY <1>1, <1>2, <1>3 DEF AfterList

-----------------------------------------------------------------------------
(* Runs and their evidence. *)

\* The pillars executed once `done' of them are saved.
Passed(done) ==
  CASE done = 0  -> {}
    [] done = 4  -> Quarter[1]
    [] done = 8  -> Quarter[1] \union Quarter[2]
    [] done = 12 -> Quarter[1] \union Quarter[2] \union Quarter[3]
    [] done = 16 -> AllPillars

\* Where a process stands in its run: its record and what it found so far.
Sits(x, R, E) ==
  /\ x.at \notin Busy => DOMAIN x.found = {}
  /\ x.at \in Busy =>
       /\ x.run \in DOMAIN R
       /\ R[x.run].status = IF x.at = "final" THEN "complete" ELSE "running"
       /\ R[x.run].print = Fingerprint(x.have, x.sys)
       /\ DOMAIN x.found = Passed(R[x.run].done)
  /\ x.at = "check" => R[x.run].done \in {0, 4, 8, 12}
  /\ x.at \in {"store", "finish", "final"} => R[x.run].done = 16
  /\ x.at \in {"check", "store"} => x.run \notin DOMAIN E
  /\ x.at \in {"finish", "final"} => x.run \in DOMAIN E

RunList == Len(runs) \in Nat /\ runs = [i \in 1..Len(runs) |-> runs[i]]
             /\ \A i \in DOMAIN runs : RunRec(runs[i])
EvidenceList == evidence = [r \in DOMAIN evidence |-> evidence[r]]
                  /\ \A r \in DOMAIN evidence : EvRec(evidence[r])

RunsInv ==
  /\ AllWork /\ RunList /\ EvidenceList
  /\ DOMAIN evidence \subseteq DOMAIN runs
  /\ RunsTruthful
  /\ \A q \in Proc : Sits(work[q], runs, evidence)
  /\ \A q, o \in Proc : q # o /\ work[q].at \in Busy /\ work[o].at \in Busy =>
       work[q].run # work[o].run

LEMMA QuarterPasses ==
  /\ Passed(0) = {}
  /\ Passed(0) \union Quarter[1] = Passed(4) /\ Passed(4) \union Quarter[2] = Passed(8)
  /\ Passed(8) \union Quarter[3] = Passed(12) /\ Passed(12) \union Quarter[4] = Passed(16)
  /\ Passed(16) = AllPillars
<1>1. /\ Quarter[1] = {"P01", "P02", "P03", "P04"} /\ Quarter[2] = {"P05", "P06", "P07", "P08"}
      /\ Quarter[3] = {"P09", "P10", "P11", "P12"} /\ Quarter[4] = {"P13", "P14", "P15", "P16"}
  BY DEF Quarter
<1>2. /\ Passed(0) = {} /\ Passed(4) = Quarter[1] /\ Passed(8) = Quarter[1] \union Quarter[2]
      /\ Passed(12) = Quarter[1] \union Quarter[2] \union Quarter[3]
      /\ Passed(16) = AllPillars
  BY DEF Passed
<1>3. AllPillars = Quarter[1] \union Quarter[2] \union Quarter[3] \union Quarter[4]
  BY <1>1 DEF AllPillars
<1>. QED
  BY <1>2, <1>3

\* Evidence that says the same, dead or not.
Restated(E, F) ==
  /\ DOMAIN F = DOMAIN E /\ F = [r \in DOMAIN E |-> F[r]]
  /\ \A r \in DOMAIN E : /\ EvRec(F[r]) /\ F[r].target = E[r].target
                         /\ F[r].print = E[r].print /\ F[r].found = E[r].found
                         /\ F[r].dead = E[r].dead \/ F[r].dead = TRUE

LEMMA ObsoleteRestates ==
  ASSUME EvidenceList, NEW slug, NEW print
  PROVE  /\ Restated(evidence, Obsolete(slug, print, evidence))
         /\ Restated(evidence, Superseded(slug, print, evidence))
         /\ Restated(evidence, evidence)
<1>1. Restated(evidence, evidence)
  BY DEF Restated, EvidenceList
<1>2. ASSUME NEW e, EvRec(e)
      PROVE  LET d == [e EXCEPT !.dead = TRUE] IN
             /\ EvRec(d) /\ d.target = e.target /\ d.print = e.print /\ d.found = e.found
             /\ d.dead = TRUE
  <2>1. PICK d : d = [e EXCEPT !.dead = TRUE]
    OBVIOUS
  <2>2. d = [target |-> e.target, print |-> e.print, found |-> e.found, dead |-> TRUE]
    BY <1>2, <2>1 DEF EvRec
  <2>3. /\ d.target = e.target /\ d.print = e.print /\ d.found = e.found /\ d.dead = TRUE
    BY <2>2
  <2>4. EvRec(d)
    BY <2>2, <2>3 DEF EvRec
  <2>. QED
    BY <2>1, <2>3, <2>4
<1>3. ASSUME NEW F, DOMAIN F = DOMAIN evidence, F = [r \in DOMAIN evidence |-> F[r]],
             \A r \in DOMAIN evidence : F[r] \in {evidence[r], [evidence[r] EXCEPT !.dead = TRUE]}
      PROVE  Restated(evidence, F)
  <2>1. ASSUME NEW r \in DOMAIN evidence
        PROVE  /\ EvRec(F[r]) /\ F[r].target = evidence[r].target
               /\ F[r].print = evidence[r].print /\ F[r].found = evidence[r].found
               /\ F[r].dead = evidence[r].dead \/ F[r].dead = TRUE
    <3>1. PICK e : e = evidence[r]
      OBVIOUS
    <3>2. EvRec(e)
      BY <3>1 DEF EvidenceList
    <3>3. CASE F[r] = e
      BY <3>1, <3>2, <3>3
    <3>4. CASE F[r] = [e EXCEPT !.dead = TRUE]
      BY <1>2, <3>1, <3>2, <3>4
    <3>. QED
      BY <1>3, <3>1, <3>3, <3>4
  <2>. QED
    BY <1>3, <2>1 DEF Restated
<1>4. Restated(evidence, Obsolete(slug, print, evidence))
  <2>1. PICK F : F = Obsolete(slug, print, evidence)
    OBVIOUS
  <2>2. /\ DOMAIN F = DOMAIN evidence /\ F = [r \in DOMAIN evidence |-> F[r]]
        /\ \A r \in DOMAIN evidence : F[r] \in {evidence[r], [evidence[r] EXCEPT !.dead = TRUE]}
    BY <2>1 DEF Obsolete
  <2>. QED
    BY <1>3, <2>1, <2>2
<1>5. Restated(evidence, Superseded(slug, print, evidence))
  <2>1. PICK F : F = Superseded(slug, print, evidence)
    OBVIOUS
  <2>2. /\ DOMAIN F = DOMAIN evidence /\ F = [r \in DOMAIN evidence |-> F[r]]
        /\ \A r \in DOMAIN evidence : F[r] \in {evidence[r], [evidence[r] EXCEPT !.dead = TRUE]}
    BY <2>1 DEF Superseded
  <2>. QED
    BY <1>3, <2>1, <2>2
<1>. QED
  BY <1>1, <1>4, <1>5

\* A step of q that leaves it outside a run, whatever it invalidates.
Lands(q, x) ==
  /\ FullWork(x) /\ DOMAIN x.found = {}
  /\ work' = [work EXCEPT ![q] = x] /\ UNCHANGED runs /\ Restated(evidence, evidence')

\* What a collecting step reads back, as Collect files it.
ReadOf(q, p) == CASE At(q, "exact")   -> Exact(Context(p, work[q].sys), world)
                  [] At(q, "lasting") -> Lasting(Context(p, work[q].sys), world)
                  [] At(q, "pages")   -> Pages(Context(p, work[q].sys), world)
Found(q) == LET l == work[q].listing
                ids == IF At(q, "pages") THEN DOMAIN l ELSE Oldest(ZevOf(l))
            IN  UNION {Tagged(l[i], ReadOf(q, l[i])) : i \in ids}

\* What a step makes of what q has read back: q is done, begins, keeps it or adds to it.
Looked(q, x) ==
  \/ x.at = "idle" /\ x.rows = {}
  \/ x.rows = {} /\ x.lately = {world.live}
  \/ x.rows = work[q].rows /\ x.lately = work[q].lately /\ work[q].at # "idle"
  \/ Collect(q) /\ x.rows = work[q].rows \union Found(q) /\ x.lately = work[q].lately
Same(x, w) == x.found = w.found /\ x.rows = w.rows /\ x.lately = w.lately

Outside(q) == \E x : Lands(q, x) /\ x.at \notin Busy \union Building /\ Looked(q, x)

LEMMA OutsideRun ==
  ASSUME RunsInv, NEW q \in Proc, NEW x, Lands(q, x), x.at \notin Busy
  PROVE  RunsInv'
<1>1. AllWork'
  BY DEF RunsInv, AllWork, Lands
<1>2. /\ work'[q] = x /\ \A o \in Proc \ {q} : work'[o] = work[o]
  BY DEF RunsInv, AllWork, Lands
<1>3. DOMAIN evidence' = DOMAIN evidence /\ EvidenceList'
  BY DEF Restated, EvidenceList, Lands
<1>4. RunsTruthful'
  BY <1>3 DEF RunsInv, RunsTruthful, Restated, Lands
<1>5. ASSUME NEW o \in Proc PROVE Sits(work[o], runs, evidence)'
  <2>1. CASE o = q
    BY <1>2, <2>1 DEF Sits, Busy, Lands
  <2>2. CASE o # q
    BY <1>2, <1>3, <2>2 DEF RunsInv, Sits, Lands
  <2>. QED
    BY <2>1, <2>2
<1>6. RunList' /\ DOMAIN evidence' \subseteq DOMAIN runs'
  BY <1>3 DEF RunsInv, RunList, Lands
<1>7. \A o, p \in Proc : o # p /\ work'[o].at \in Busy /\ work'[p].at \in Busy =>
        work'[o].run # work'[p].run
  BY <1>2 DEF RunsInv
<1>. QED
  BY <1>1, <1>3, <1>4, <1>5, <1>6, <1>7 DEF RunsInv

\* A step of q within its run that changes its record only.
LEMMA InsideRun ==
  ASSUME RunsInv, NEW q \in Proc, work[q].at \in Busy, NEW x, FullWork(x),
         work' = [work EXCEPT ![q] = x], NEW rec, RunRec(rec),
         runs' = [runs EXCEPT ![work[q].run] = rec], rec.print = runs[work[q].run].print,
         UNCHANGED evidence,
         x.at \in Busy => x.run = work[q].run,
         Sits(x, runs', evidence),
         work[q].run \in DOMAIN evidence => rec.done = 16,
         rec.status = "complete" => work[q].run \in DOMAIN evidence
  PROVE  RunsInv'
<1>1. AllWork'
  BY DEF RunsInv, AllWork
<1>2. /\ work'[q] = x /\ \A o \in Proc \ {q} : work'[o] = work[o]
  BY DEF RunsInv, AllWork
<1>3. PICK n : n = work[q].run
  OBVIOUS
<1>4. n \in DOMAIN runs
  BY <1>3 DEF RunsInv, Sits
<1>5. /\ DOMAIN runs' = DOMAIN runs /\ runs'[n] = rec
      /\ \A i \in DOMAIN runs \ {n} : runs'[i] = runs[i]
  BY <1>3, <1>4
<1>6. RunList'
  <2>1. PICK m \in Nat : m = Len(runs) /\ runs = [i \in 1..m |-> runs[i]]
    BY DEF RunsInv, RunList
  <2>2. runs' = [i \in 1..m |-> runs'[i]] /\ DOMAIN runs' = 1..m
    BY <1>3, <2>1
  <2>3. Len(runs') = m
    BY <2>2
  <2>4. \A i \in DOMAIN runs' : RunRec(runs'[i])
    BY <1>5 DEF RunsInv, RunList
  <2>. QED
    BY <2>2, <2>3, <2>4 DEF RunList
<1>7. RunsTruthful'
  BY <1>3, <1>4, <1>5 DEF RunsInv, RunsTruthful
<1>8. ASSUME NEW o \in Proc, o # q PROVE Sits(work[o], runs, evidence)'
  <2>1. work'[o] = work[o] /\ Sits(work[o], runs, evidence)
    BY <1>2, <1>8 DEF RunsInv
  <2>2. work[o].at \in Busy => work[o].run # n
    BY <1>3, <1>8 DEF RunsInv
  <2>. QED
    BY <1>5, <2>1, <2>2 DEF Sits, Busy
<1>9. Sits(work[q], runs, evidence)'
  BY <1>2 DEF Sits
<1>10. \A o, p \in Proc : o # p /\ work'[o].at \in Busy /\ work'[p].at \in Busy =>
         work'[o].run # work'[p].run
  BY <1>2 DEF RunsInv
<1>11. EvidenceList' /\ DOMAIN evidence' \subseteq DOMAIN runs'
  BY <1>5 DEF RunsInv, EvidenceList
<1>12. \A o \in Proc : Sits(work[o], runs, evidence)'
  BY <1>8, <1>9
<1>. QED
  BY <1>1, <1>6, <1>7, <1>10, <1>11, <1>12 DEF RunsInv
\* A run ends, or a process is cut off, wherever it stands.
LEMMA Leaves ==
  ASSUME RunsInv, NEW q \in Proc, work' = [work EXCEPT ![q] = NoWork],
         UNCHANGED <<runs, evidence>>
  PROVE  Outside(q)
<1>1. Restated(evidence, evidence')
  BY ObsoleteRestates DEF RunsInv
<1>2. PICK x : x = NoWork
  OBVIOUS
<1>3. FullWork(x) /\ x.at \notin Busy \union Building /\ DOMAIN x.found = {} /\ Looked(q, x)
  BY <1>2, NoWorkFull DEF Busy, Building, Looked
<1>. QED
  BY <1>1, <1>2, <1>3 DEF Outside, Lands

\* The steps that lead into no run.
LEMMA StaysOutside ==
  ASSUME RunsInv, NEW q \in Proc,
         \/ Begin(q) \/ Products(q) \/ Panel(q) \/ End(q) \/ Cut(q)
         \/ Telemetry(q) \/ Snapshot(q) \/ Invalidate(q)
  PROVE  Outside(q)
<1>1. PICK w : w = work[q]
  OBVIOUS
<1>2. FullWork(w) /\ Sits(w, runs, evidence)
  BY <1>1 DEF RunsInv, AllWork
<1>3. w.at \notin Busy => DOMAIN w.found = {}
  BY <1>2 DEF Sits
<1>4. Restated(evidence, evidence) /\ EvidenceList
  BY ObsoleteRestates DEF RunsInv
\* A step that goes on at `at', whatever else of its work it changes.
<1>5. ASSUME NEW x, FullWork(x), x.at \notin Busy \union Building, Same(x, w), w.at \notin Busy, w.at # "idle",
             work' = [work EXCEPT ![q] = x], UNCHANGED <<runs, evidence>>
      PROVE  Outside(q)
  <2>1. DOMAIN x.found = {} /\ Looked(q, x)
    BY <1>1, <1>3, <1>5 DEF Same, Looked
  <2>. QED
    BY <1>4, <1>5, <2>1 DEF Outside, Lands
<1>6. ASSUME NEW at, at \notin Busy \union Building, w.at \notin Busy, w.at # "idle",
             work' = Goto(q, at), UNCHANGED <<runs, evidence>>
      PROVE  Outside(q)
  <2>1. PICK x : x = [w EXCEPT !.at = at]
    OBVIOUS
  <2>2. FullWork(x) /\ x.at = at /\ Same(x, w)
    BY <1>2, <2>1 DEF FullWork, Fields, Same
  <2>3. work' = [work EXCEPT ![q] = x]
    <3>1. work = [o \in Proc |-> work[o]]
      BY DEF RunsInv, AllWork
    <3>. QED
      BY <1>1, <1>6, <2>1, <3>1, SMT DEF Goto
  <2>. QED
    BY <1>5, <1>6, <2>2, <2>3
<1>7. CASE Begin(q)
  <2>1. PICK task, id, form, lately, at :
          /\ lately = {world.live} /\ at \in {"get", "read", "list"}
          /\ work' = With(q, [NoWork EXCEPT !.task = task, !.id = id, !.form = form,
               !.lately = lately, !.unread = {"products", "systems", "evidence"}, !.at = at])
    BY <1>7 DEF Begin
  <2>2. PICK x : x = [NoWork EXCEPT !.task = task, !.id = id, !.form = form,
               !.lately = lately, !.unread = {"products", "systems", "evidence"}, !.at = at]
    OBVIOUS
  <2>3. FullWork(x) /\ x.at = at /\ x.found = <<>> /\ x.rows = {} /\ x.lately = {world.live}
    BY <2>1, <2>2, NoWorkFull DEF FullWork, Fields
  <2>4. work' = [work EXCEPT ![q] = x] /\ UNCHANGED <<runs, evidence>>
    BY <1>7, <2>1, <2>2 DEF Begin, With
  <2>5. x.at \notin Busy \union Building /\ Looked(q, x) /\ DOMAIN x.found = {}
    BY <2>1, <2>3 DEF Busy, Building, Looked
  <2>. QED
    BY <1>4, <2>3, <2>4, <2>5 DEF Outside, Lands
<1>8. CASE List(q)
  <2>1. PICK at : at = AfterList(products, w.task)
    OBVIOUS
  <2>2. PICK x : x = [w EXCEPT !.listing = products, !.at = at]
    OBVIOUS
  <2>3. FullWork(x) /\ x.at = at /\ Same(x, w)
    BY <1>2, <2>2 DEF FullWork, Fields, Same
  <2>4. work' = [work EXCEPT ![q] = x] /\ UNCHANGED <<runs, evidence>> /\ w.at = "list"
    BY <1>1, <1>8, <2>1, <2>2 DEF List, With, At
  <2>5. at \notin Busy \union Building
    BY <2>1, AfterListOut DEF Busy, Building
  <2>. QED
    BY <1>5, <2>3, <2>4, <2>5 DEF Busy, Building
<1>9. CASE Migrate(q)
  <2>1. PICK at : at = AfterMigrate(w.listing, w.task)
    OBVIOUS
  <2>2. work' = Goto(q, at) /\ UNCHANGED <<runs, evidence>> /\ w.at = "migrate"
    <3>1. work' = Goto(q, AfterMigrate(work[q].listing, work[q].task))
      BY <1>9, Zenon DEF Migrate
    <3>2. UNCHANGED <<runs, evidence>> /\ At(q, "migrate")
      BY <1>9 DEF Migrate
    <3>. QED
      BY <1>1, <2>1, <3>1, <3>2 DEF At
  <2>3. at \notin Busy \union Building
    BY <2>1, AfterListOut DEF Busy, Building
  <2>. QED
    BY <1>6, <2>2, <2>3 DEF Busy, Building
<1>10. CASE FillAudit(q)
  <2>1. PICK at : at = AfterFill(w.listing, w.task)
    OBVIOUS
  <2>2. work' = Goto(q, at) /\ UNCHANGED <<runs, evidence>> /\ w.at = "fill"
    <3>1. work' = Goto(q, AfterFill(work[q].listing, work[q].task))
      BY <1>10, Zenon DEF FillAudit
    <3>2. UNCHANGED <<runs, evidence>> /\ At(q, "fill")
      BY <1>10 DEF FillAudit
    <3>. QED
      BY <1>1, <2>1, <3>1, <3>2 DEF At
  <2>3. at \notin Busy \union Building
    BY <2>1, AfterListOut DEF Busy, Building
  <2>. QED
    BY <1>6, <2>2, <2>3 DEF Busy, Building
<1>11. CASE AddMissing(q)
  <2>1. PICK at : at = Main(w.task)
    OBVIOUS
  <2>2. work' = Goto(q, at) /\ UNCHANGED <<runs, evidence>> /\ w.at = "add"
    <3>1. work' = Goto(q, Main(work[q].task))
      BY <1>11, Zenon DEF AddMissing
    <3>2. UNCHANGED <<runs, evidence>> /\ At(q, "add")
      BY <1>11 DEF AddMissing
    <3>. QED
      BY <1>1, <2>1, <3>1, <3>2 DEF At
  <2>3. at \notin Busy \union Building
    BY <2>1, AfterListOut DEF Busy, Building
  <2>. QED
    BY <1>6, <2>2, <2>3 DEF Busy, Building
<1>12. CASE Consult(q)
  <2>1. PICK x, have : /\ have = Normalized(w.form, clock + 1)
                       /\ x = [w EXCEPT !.sys = system, !.ev = evidence, !.at = "decide", !.have = have]
    OBVIOUS
  <2>2. FullWork(x) /\ x.at = "decide" /\ Same(x, w)
    BY <1>2, <2>1 DEF FullWork, Fields, Same
  <2>3. work' = [work EXCEPT ![q] = x] /\ UNCHANGED <<runs, evidence>> /\ w.at = "systems"
    BY <1>1, <1>12, <2>1 DEF Consult, With, At
  <2>. QED
    BY <1>5, <2>2, <2>3 DEF Busy, Building
<1>13. CASE Get(q)
  <2>1. PICK at, have, listing :
          /\ at = IF work[q].task = "archive" THEN "write" ELSE "print"
          /\ have = IF work[q].task = "archive"
                THEN [products[work[q].id] EXCEPT !.status = "archived", !.onSale = FALSE, !.stamp = clock + 1]
                ELSE Normalized(work[q].form, clock + 1)
          /\ listing = <<products[work[q].id]>>
    OBVIOUS
  <2>2. PICK x : x = [work[q] EXCEPT !.at = at, !.have = have, !.listing = listing]
    OBVIOUS
  <2>3. FullWork(x) /\ x.at = at /\ Same(x, w)
    BY <1>1, <1>2, <2>2 DEF FullWork, Fields, Same
  <2>4. work' = [work EXCEPT ![q] = x]
    BY <1>13, <2>1, <2>2, Zenon DEF Get, With
  <2>5. UNCHANGED <<runs, evidence>> /\ w.at = "get"
    BY <1>1, <1>13 DEF Get, At
  <2>6. at \notin Busy \union Building
    BY <2>1 DEF Busy, Building
  <2>. QED
    BY <1>5, <2>3, <2>4, <2>5, <2>6 DEF Busy
<1>14. CASE Outdate(q)
  <2>1. PICK x : x = [w EXCEPT !.sys = system, !.at = "fresh"]
    OBVIOUS
  <2>2. FullWork(x) /\ x.at = "fresh" /\ Same(x, w)
    BY <1>2, <2>1 DEF FullWork, Fields, Same
  <2>3. work' = [work EXCEPT ![q] = x] /\ UNCHANGED runs /\ w.at = "print"
    BY <1>1, <1>14, <2>1 DEF Outdate, With, At
  <2>4. PICK slug, print : evidence' = Obsolete(slug, print, evidence)
    BY <1>14 DEF Outdate
  <2>5. Restated(evidence, evidence')
    BY <1>4, <2>4, ObsoleteRestates
  <2>6. DOMAIN x.found = {} /\ x.at \notin Busy \union Building /\ Looked(q, x)
    BY <1>1, <1>3, <2>2, <2>3 DEF Busy, Building, Same, Looked
  <2>. QED
    BY <2>2, <2>3, <2>5, <2>6 DEF Outside, Lands
<1>15. CASE Relist(q)
  <2>1. PICK x : x = [w EXCEPT !.ev = evidence, !.at = "decide"]
    OBVIOUS
  <2>2. FullWork(x) /\ x.at = "decide" /\ Same(x, w)
    BY <1>2, <2>1 DEF FullWork, Fields, Same
  <2>3. work' = [work EXCEPT ![q] = x] /\ UNCHANGED <<runs, evidence>> /\ w.at = "fresh"
    BY <1>1, <1>15, <2>1 DEF Relist, With, At
  <2>. QED
    BY <1>5, <2>2, <2>3 DEF Busy, Building
<1>16. CASE Decide(q)
  <2>1. PICK at : /\ at \in {"refused", "write"}
                  /\ work' = [work EXCEPT ![q] = [w EXCEPT !.ev = <<>>, !.at = at]]
    BY <1>1, <1>16 DEF Decide, With
  <2>2. PICK x : x = [w EXCEPT !.ev = <<>>, !.at = at]
    OBVIOUS
  <2>3. FullWork(x) /\ x.at = at /\ Same(x, w)
    BY <1>2, <2>2 DEF FullWork, Fields, Same
  <2>4. work' = [work EXCEPT ![q] = x] /\ UNCHANGED <<runs, evidence>> /\ w.at = "decide"
    BY <1>1, <1>16, <2>1, <2>2 DEF Decide, At
  <2>. QED
    BY <1>5, <2>1, <2>3, <2>4 DEF Busy, Building
<1>17. CASE Write(q)
  BY <1>17, Leaves DEF Write, With
<1>18. CASE End(q)
  BY <1>18, Leaves DEF End, With
<1>19. CASE Cut(q)
  BY <1>19, Leaves DEF Cut, With
<1>20. CASE ReadPart(q)
  <2>1. PICK rest, listing, sys, ev, at :
          /\ at \in {"read", "shown", "overlay"}
          /\ work' = [work EXCEPT ![q] = [w EXCEPT !.unread = rest, !.listing = listing,
                                           !.sys = sys, !.ev = ev, !.at = at]]
    <3>1. PICK part \in work[q].unread :
            LET rest == work[q].unread \ {part}
            IN  work' = With(q, [work[q] EXCEPT !.unread = rest,
                  !.listing = IF part = "products" THEN products ELSE @,
                  !.sys = IF part = "systems" THEN system ELSE @,
                  !.ev = IF part = "evidence" THEN evidence ELSE @,
                  !.at = IF rest # {} THEN "read" ELSE IF Site[q] = "edge" THEN "shown" ELSE "overlay"])
      BY <1>20 DEF ReadPart
    <3>2. PICK rest, listing, sys, ev, at :
            /\ rest = w.unread \ {part}
            /\ listing = IF part = "products" THEN products ELSE w.listing
            /\ sys = IF part = "systems" THEN system ELSE w.sys
            /\ ev = IF part = "evidence" THEN evidence ELSE w.ev
            /\ at = IF rest # {} THEN "read" ELSE IF Site[q] = "edge" THEN "shown" ELSE "overlay"
      OBVIOUS
    <3>3. at \in {"read", "shown", "overlay"}
      BY <3>2
    <3>4. work' = [work EXCEPT ![q] = [w EXCEPT !.unread = rest, !.listing = listing,
                                           !.sys = sys, !.ev = ev, !.at = at]]
      BY <1>1, <1>2, <3>1, <3>2 DEF With, FullWork, Fields
    <3>. QED
      BY <3>3, <3>4
  <2>2. PICK x : x = [w EXCEPT !.unread = rest, !.listing = listing, !.sys = sys, !.ev = ev, !.at = at]
    OBVIOUS
  <2>3. FullWork(x) /\ x.at = at /\ Same(x, w)
    BY <1>2, <2>2 DEF FullWork, Fields, Same
  <2>4. work' = [work EXCEPT ![q] = x] /\ UNCHANGED <<runs, evidence>> /\ w.at = "read"
    BY <1>1, <1>20, <2>1, <2>2 DEF ReadPart, At
  <2>. QED
    BY <1>5, <2>1, <2>3, <2>4 DEF Busy, Building
<1>21. CASE Overlay(q)
  <2>1. PICK x, sys : /\ sys = Overlaid(w.sys, world)
                      /\ x = [w EXCEPT !.sys = sys, !.at = "identity"]
    OBVIOUS
  <2>2. FullWork(x) /\ x.at = "identity" /\ Same(x, w)
    BY <1>2, <2>1 DEF FullWork, Fields, Same
  <2>3. work' = [work EXCEPT ![q] = x] /\ UNCHANGED <<runs, evidence>> /\ w.at = "overlay"
    BY <1>1, <1>2, <1>21, <2>1 DEF Overlay, With, At, FullWork, Fields
  <2>. QED
    BY <1>5, <2>2, <2>3 DEF Busy, Building
<1>22. CASE Identity(q)
  <2>1. PICK sys : work' = [work EXCEPT ![q] = [w EXCEPT !.at = "exact", !.sys = sys]]
    BY <1>1, <1>22 DEF Identity, With
  <2>2. PICK x : x = [w EXCEPT !.at = "exact", !.sys = sys]
    OBVIOUS
  <2>3. FullWork(x) /\ x.at = "exact" /\ Same(x, w)
    BY <1>2, <2>2 DEF FullWork, Fields, Same
  <2>4. work' = [work EXCEPT ![q] = x] /\ UNCHANGED <<runs, evidence>> /\ w.at = "identity"
    BY <1>1, <1>22, <2>1, <2>2 DEF Identity, At
  <2>. QED
    BY <1>5, <2>3, <2>4 DEF Busy, Building
<1>23. CASE Collect(q)
  <2>1. PICK rws, at : /\ at \in {"lasting", "pages", "shown"}
                       /\ work' = [work EXCEPT ![q] = [w EXCEPT !.rows = rws, !.at = at]]
                       /\ rws = w.rows \union Found(q)
    <3>1. PICK rws, at :
            /\ rws = w.rows \union Found(q)
            /\ at = CASE At(q, "exact") -> "lasting" [] At(q, "lasting") -> "pages"
                      [] At(q, "pages") -> "shown"
      OBVIOUS
    <3>2. at \in {"lasting", "pages", "shown"}
      BY <1>23, <3>1 DEF Collect, At
    <3>3. [w EXCEPT !.rows = @ \union Found(q), !.at = at] = [w EXCEPT !.rows = rws, !.at = at]
      BY <1>2, <3>1 DEF FullWork, Fields
    <3>4. work' = [work EXCEPT ![q] = [w EXCEPT !.rows = @ \union Found(q), !.at = at]]
      BY <1>1, <1>23, <3>1, Zenon DEF Collect, With, Found, ReadOf
    <3>. QED
      BY <3>1, <3>2, <3>3, <3>4
  <2>2. PICK x : x = [w EXCEPT !.rows = rws, !.at = at]
    OBVIOUS
  <2>3. FullWork(x) /\ x.at = at /\ x.found = w.found /\ x.rows = rws /\ x.lately = w.lately
    BY <1>2, <2>2 DEF FullWork, Fields
  <2>4. work' = [work EXCEPT ![q] = x] /\ UNCHANGED <<runs, evidence>> /\ w.at \notin Busy
    BY <1>1, <1>23, <2>1, <2>2 DEF Collect, Busy
  <2>5. DOMAIN x.found = {} /\ at \notin Busy \union Building
    BY <1>3, <2>1, <2>3, <2>4 DEF Busy, Building
  <2>6. Looked(q, x)
    BY <1>1, <1>23, <2>1, <2>3 DEF Looked
  <2>. QED
    BY <1>4, <2>3, <2>4, <2>5, <2>6 DEF Outside, Lands
<1>24. CASE Telemetry(q)
  BY <1>1, <1>6, <1>24 DEF Telemetry, At, Busy, Building
<1>25. CASE Snapshot(q)
  <2>1. PICK have, sys : have = products[w.id] /\ sys = system
    OBVIOUS
  <2>2. PICK x : x = [w EXCEPT !.sys = sys, !.have = have, !.listing = <<>>, !.at = "obsolete"]
    OBVIOUS
  <2>3. FullWork(x) /\ x.at = "obsolete" /\ Same(x, w)
    BY <1>2, <2>2 DEF FullWork, Fields, Same
  <2>4. work' = [work EXCEPT ![q] = x]
    BY <1>1, <1>25, <2>1, <2>2, Zenon DEF Snapshot, With
  <2>5. UNCHANGED <<runs, evidence>> /\ w.at = "snapshot"
    BY <1>1, <1>25 DEF Snapshot, At
  <2>. QED
    BY <1>5, <2>3, <2>4, <2>5 DEF Busy, Building
<1>26. CASE Invalidate(q)
  <2>1. PICK x : x = [w EXCEPT !.at = "prior"]
    OBVIOUS
  <2>2. FullWork(x) /\ x.at = "prior" /\ Same(x, w)
    BY <1>2, <2>1 DEF FullWork, Fields, Same
  <2>3. work' = [work EXCEPT ![q] = x] /\ UNCHANGED runs /\ w.at = "obsolete"
    BY <1>1, <1>26, <2>1 DEF Invalidate, Goto, At, RunsInv, AllWork
  <2>4. PICK slug, print : evidence' = Obsolete(slug, print, evidence)
    BY <1>26 DEF Invalidate
  <2>5. Restated(evidence, evidence')
    BY <1>4, <2>4, ObsoleteRestates
  <2>6. DOMAIN x.found = {} /\ x.at \notin Busy \union Building /\ Looked(q, x)
    BY <1>1, <1>3, <2>2, <2>3 DEF Busy, Building, Same, Looked
  <2>. QED
    BY <2>2, <2>3, <2>5, <2>6 DEF Outside, Lands
<1>. QED
  BY <1>7, <1>8, <1>9, <1>10, <1>11, <1>12, <1>13, <1>14, <1>15, <1>16, <1>17, <1>18, <1>19,
     <1>20, <1>21, <1>22, <1>23, <1>24, <1>25, <1>26 DEF Products, Panel

\* A run takes the next place of the list.
LEMMA AppendRun ==
  ASSUME NEW s, NEW m \in Nat, Len(s) = m, s = [i \in 1..m |-> s[i]], NEW e, NEW t, t = Append(s, e)
  PROVE  /\ Len(t) = m + 1 /\ t = [i \in 1..(m + 1) |-> t[i]]
         /\ t[m + 1] = e /\ \A i \in 1..m : t[i] = s[i]
<1>1. PICK S : S = {s[i] : i \in 1..m} \union {e}
  OBVIOUS
<1>2. s \in Seq(S) /\ e \in S
  BY <1>1
<1>. QED
  BY <1>2

LEMMA StartsRun ==
  ASSUME RunsInv, NEW q \in Proc, StartRun(q)
  PROVE  /\ RunsInv'
         /\ \E x : /\ work' = [work EXCEPT ![q] = x] /\ x.at = "check"
                   /\ x.have = work[q].have /\ x.sys = work[q].sys
                   /\ x.rows = work[q].rows /\ x.lately = work[q].lately
<1>1. PICK w : w = work[q]
  OBVIOUS
<1>2. FullWork(w) /\ Sits(w, runs, evidence) /\ w.at = "start"
  BY <1>1, SMT DEF RunsInv, AllWork, StartRun, At
<1>3. DOMAIN w.found = {}
  BY <1>2 DEF Sits, Busy
<1>4. PICK m \in Nat : m = Len(runs) /\ runs = [i \in 1..m |-> runs[i]]
  BY DEF RunsInv, RunList
<1>5. PICK slug, print, rec :
        /\ slug = w.have.slug /\ print = Fingerprint(w.have, w.sys)
        /\ rec = [target |-> slug, print |-> print, status |-> "running", done |-> 0]
  OBVIOUS
<1>6. RunRec(rec) /\ rec.print = print /\ rec.status = "running" /\ rec.done = 0
  BY <1>5 DEF RunRec
<1>7. PICK x : x = [w EXCEPT !.run = m + 1, !.at = "check"]
  OBVIOUS
<1>8. /\ FullWork(x) /\ x.at = "check" /\ x.run = m + 1 /\ x.found = w.found
      /\ x.have = w.have /\ x.sys = w.sys /\ x.rows = w.rows /\ x.lately = w.lately
  BY <1>2, <1>7 DEF FullWork, Fields
<1>9. PICK R : R = Append(runs, rec)
  OBVIOUS
<1>10. runs' = R /\ work' = [work EXCEPT ![q] = x] /\ evidence' = evidence
  <2>1. runs' = R
    BY <1>1, <1>5, <1>9, Zenon DEF StartRun, Imprint
  <2>2. work' = [work EXCEPT ![q] = x]
    BY <1>1, <1>4, <1>7, Zenon DEF StartRun, With
  <2>. QED
    BY <2>1, <2>2 DEF StartRun
<1>11. /\ Len(R) = m + 1 /\ R = [i \in 1..(m + 1) |-> R[i]]
       /\ R[m + 1] = rec /\ \A i \in 1..m : R[i] = runs[i]
  BY <1>4, <1>9, AppendRun
<1>12. /\ DOMAIN runs = 1..m /\ DOMAIN R = 1..(m + 1) /\ m + 1 \notin 1..m
       /\ 1..(m + 1) = 1..m \union {m + 1}
  BY <1>4, <1>11
<1>13. PICK n : n = m + 1
  OBVIOUS
<1>14. /\ n \notin DOMAIN runs /\ n \in DOMAIN R /\ R[n] = rec /\ x.run = n
       /\ \A i \in DOMAIN runs : i \in DOMAIN R /\ R[i] = runs[i]
       /\ \A i \in DOMAIN R : i = n \/ i \in DOMAIN runs
  BY <1>8, <1>11, <1>12, <1>13
<1>15. AllWork'
  BY <1>8, <1>10 DEF RunsInv, AllWork
<1>16. /\ work'[q] = x /\ \A o \in Proc \ {q} : work'[o] = work[o]
  BY <1>10 DEF RunsInv, AllWork
<1>17. RunList'
  <2>1. \A i \in DOMAIN R : RunRec(R[i])
    BY <1>6, <1>14 DEF RunsInv, RunList
  <2>. QED
    BY <1>10, <1>11, <1>12, <2>1 DEF RunList
<1>18. EvidenceList' /\ DOMAIN evidence' \subseteq DOMAIN runs'
  BY <1>10, <1>12 DEF RunsInv, EvidenceList
<1>19. RunsTruthful'
  BY <1>6, <1>10, <1>14 DEF RunsInv, RunsTruthful
<1>20. n \notin DOMAIN evidence
  BY <1>14 DEF RunsInv
<1>21. ASSUME NEW o \in Proc PROVE Sits(work'[o], R, evidence)
  <2>1. CASE o = q
    <3>1. DOMAIN x.found = Passed(0)
      BY <1>3, <1>8, QuarterPasses
    <3>2. R[x.run].done = 0 /\ R[x.run].print = Fingerprint(x.have, x.sys)
      BY <1>5, <1>6, <1>8, <1>14
    <3>. QED
      BY <1>6, <1>8, <1>16, <1>20, <1>14, <2>1, <3>1, <3>2 DEF Sits, Busy
  <2>2. CASE o # q
    <3>1. work'[o] = work[o] /\ Sits(work[o], runs, evidence)
      BY <1>16, <2>2 DEF RunsInv
    <3>. QED
      BY <1>14, <3>1 DEF Sits, Busy
  <2>. QED
    BY <2>1, <2>2
<1>22. \A o, p \in Proc : o # p /\ work'[o].at \in Busy /\ work'[p].at \in Busy =>
         work'[o].run # work'[p].run
  <2>1. \A o \in Proc : work[o].at \in Busy => work[o].run # n
    BY <1>14 DEF RunsInv, Sits
  <2>. QED
    BY <1>8, <1>16, <1>14, <2>1 DEF RunsInv
<1>23. RunsInv'
  <2>1. \A o \in Proc : Sits(work[o], runs, evidence)'
    BY <1>10, <1>21
  <2>. QED
    BY <1>15, <1>17, <1>18, <1>19, <1>22, <2>1 DEF RunsInv
<1>. QED
  BY <1>1, <1>8, <1>10, <1>23

LEMMA ChecksRun ==
  ASSUME RunsInv, NEW q \in Proc, Check(q)
  PROVE  /\ RunsInv'
         /\ \E x : /\ work' = [work EXCEPT ![q] = x] /\ x.at \in {"check", "store"}
                   /\ x.have = work[q].have /\ x.sys = work[q].sys
                   /\ x.rows = work[q].rows /\ x.lately = work[q].lately
<1>1. PICK w, n : w = work[q] /\ n = w.run
  OBVIOUS
<1>2. FullWork(w) /\ Sits(w, runs, evidence) /\ w.at = "check"
  BY <1>1, SMT DEF RunsInv, AllWork, Check, At
<1>3. PICK done : done = runs[n].done
  OBVIOUS
<1>4. /\ n \in DOMAIN runs /\ done \in {0, 4, 8, 12} /\ DOMAIN w.found = Passed(done)
      /\ n \notin DOMAIN evidence /\ runs[n].status = "running"
      /\ runs[n].print = Fingerprint(w.have, w.sys) /\ RunRec(runs[n])
  BY <1>1, <1>2, <1>3 DEF Sits, Busy, RunsInv, RunList
<1>5. PICK k : k = done \div 4 + 1
  OBVIOUS
<1>6. /\ k \in {1, 2, 3, 4} /\ Passed(done) \union Quarter[k] = Passed(4 * k)
      /\ k = 4 => 4 * k = 16
      /\ k # 4 => 4 * k \in {0, 4, 8, 12}
  <2>1. \/ done = 0 /\ k = 1 /\ 4 * k = 4
        \/ done = 4 /\ k = 2 /\ 4 * k = 8
        \/ done = 8 /\ k = 3 /\ 4 * k = 12
        \/ done = 12 /\ k = 4 /\ 4 * k = 16
    BY <1>4, <1>5
  <2>. QED
    BY <2>1, QuarterPasses
<1>7. PICK found : found = [d \in DOMAIN w.found \union Quarter[k] |->
                             IF d \in Quarter[k] THEN Executed(q, d) ELSE w.found[d]]
  OBVIOUS
<1>8. DOMAIN found = Passed(4 * k)
  BY <1>4, <1>6, <1>7
<1>9. PICK at : at = IF k = 4 THEN "store" ELSE "check"
  OBVIOUS
<1>10. PICK x : x = [w EXCEPT !.found = found, !.at = at]
  OBVIOUS
<1>11. /\ FullWork(x) /\ x.at = at /\ x.run = n /\ x.found = found
       /\ x.have = w.have /\ x.sys = w.sys /\ x.rows = w.rows /\ x.lately = w.lately
  BY <1>1, <1>2, <1>10 DEF FullWork, Fields
<1>12. PICK c, rec : c = 4 * k /\ rec = [runs[n] EXCEPT !.done = c]
  OBVIOUS
<1>13. /\ RunRec(rec) /\ rec.done = c /\ rec.status = "running" /\ rec.print = runs[n].print
  BY <1>4, <1>12 DEF RunRec
<1>14. work' = [work EXCEPT ![q] = x] /\ runs' = [runs EXCEPT ![n] = rec] /\ evidence' = evidence
  <2>1. work' = [work EXCEPT ![q] = x]
    BY <1>1, <1>3, <1>5, <1>7, <1>9, <1>10, Zenon DEF Check, With
  <2>2. runs' = [runs EXCEPT ![n].done = c]
    BY <1>1, <1>3, <1>5, <1>12, Zenon DEF Check
  <2>3. runs' = [runs EXCEPT ![n] = rec]
    BY <1>12, <2>2
  <2>. QED
    BY <2>1, <2>3 DEF Check
<1>15. runs'[n] = rec /\ n \in DOMAIN runs'
  BY <1>4, <1>14
<1>16. PICK T : T = runs'
  OBVIOUS
<1>17. Sits(x, T, evidence)
  <2>1. /\ n \in DOMAIN T /\ T[n].status = "running" /\ T[n].done = c
        /\ T[n].print = Fingerprint(x.have, x.sys)
    BY <1>4, <1>11, <1>13, <1>15, <1>16
  <2>2. /\ x.run = n /\ x.at \in {"check", "store"} /\ DOMAIN x.found = Passed(c)
        /\ x.at = "check" => c \in {0, 4, 8, 12}
        /\ x.at = "store" => c = 16
    BY <1>6, <1>8, <1>9, <1>11, <1>12
  <2>. QED
    BY <1>4, <2>1, <2>2 DEF Sits, Busy
<1>18. RunsInv'
  <2>1. Sits(x, runs', evidence)
    BY <1>16, <1>17
  <2>2. work[q].at \in Busy /\ work[q].run = n
    BY <1>1, <1>2 DEF Busy
  <2>. QED
    BY <1>4, <1>11, <1>13, <1>14, <2>1, <2>2, InsideRun
<1>. QED
  BY <1>1, <1>9, <1>11, <1>14, <1>18

LEMMA EndsRun ==
  ASSUME RunsInv, NEW q \in Proc, Finish(q) \/ Fail(q)
  PROVE  /\ RunsInv' /\ evidence' = evidence
         /\ \E x : /\ work' = [work EXCEPT ![q] = x] /\ x.at \in {"idle", "final"}
                   /\ Looked(q, x)
<1>1. PICK w, n : w = work[q] /\ n = w.run
  OBVIOUS
<1>2. FullWork(w) /\ Sits(w, runs, evidence) /\ w.at \in Busy
  BY <1>1, SMT DEF RunsInv, AllWork, Finish, Fail, At, Busy
<1>3. n \in DOMAIN runs /\ RunRec(runs[n]) /\ (n \in DOMAIN evidence => runs[n].done = 16)
  BY <1>1, <1>2 DEF Sits, RunsInv, RunList, RunsTruthful
\* The record written, and where q goes on.
<1>4. PICK st, x : /\ work' = [work EXCEPT ![q] = x]
                   /\ runs' = [runs EXCEPT ![n].status = st]
                   /\ \/ /\ w.at = "finish" /\ st = "complete"
                         /\ x = [w EXCEPT !.at = "final"]
                      \/ st = "failed" /\ x = NoWork
  <2>1. CASE Finish(q)
    <3>1. work' = [work EXCEPT ![q].at = "final"]
      BY <2>1, Zenon DEF Finish, Goto
    <3>2. w.at = "finish" /\ runs' = [runs EXCEPT ![n].status = "complete"]
      BY <1>1, <2>1, Zenon DEF Finish, At
    <3>3. work' = [work EXCEPT ![q] = [w EXCEPT !.at = "final"]]
      BY <1>1, <3>1 DEF RunsInv, AllWork
    <3>. QED
      BY <3>2, <3>3
  <2>2. CASE Fail(q)
    BY <1>1, <2>2 DEF Fail, With
  <2>. QED
    BY <2>1, <2>2
<1>5. CASE w.at = "finish" /\ st = "complete" /\ x = [w EXCEPT !.at = "final"]
  <2>1. /\ FullWork(x) /\ x.at = "final" /\ x.run = n /\ x.have = w.have /\ x.sys = w.sys
        /\ x.found = w.found /\ x.rows = w.rows /\ x.lately = w.lately
    BY <1>1, <1>2, <1>5 DEF FullWork, Fields
  <2>2. PICK rec : rec = [runs[n] EXCEPT !.status = "complete"]
    OBVIOUS
  <2>3. /\ RunRec(rec) /\ rec.done = runs[n].done /\ rec.status = "complete"
        /\ rec.print = runs[n].print
    BY <1>3, <2>2 DEF RunRec
  <2>4. runs' = [runs EXCEPT ![n] = rec] /\ evidence' = evidence
    <3>1. evidence' = evidence
      BY Zenon DEF Finish, Fail
    <3>. QED
      BY <1>4, <1>5, <2>2, <3>1
  <2>5. PICK T : T = runs'
    OBVIOUS
  <2>6. DOMAIN T = DOMAIN runs /\ T[n] = rec
    BY <1>3, <2>4, <2>5
  <2>7. /\ runs[n].print = Fingerprint(w.have, w.sys) /\ DOMAIN w.found = Passed(runs[n].done)
        /\ runs[n].done = 16 /\ n \in DOMAIN evidence
    BY <1>1, <1>2, <1>5 DEF Sits, Busy
  <2>8. Sits(x, T, evidence)
    BY <1>3, <2>1, <2>3, <2>6, <2>7 DEF Sits, Busy
  <2>9. RunsInv'
    <3>1. Sits(x, runs', evidence)
      BY <2>5, <2>8
    <3>2. work[q].at \in Busy /\ work[q].run = n
      BY <1>1, <1>2 DEF Busy
    <3>. QED
      BY <1>3, <1>4, <2>1, <2>3, <2>4, <2>7, <3>1, <3>2, InsideRun
  <2>10. Looked(q, x)
    BY <1>1, <1>5, <2>1 DEF Looked
  <2>. QED
    BY <1>4, <2>1, <2>4, <2>9, <2>10
<1>6. CASE st = "failed" /\ x = NoWork
  <2>1. FullWork(x) /\ x.at = "idle" /\ DOMAIN x.found = {} /\ x.rows = {}
    BY <1>6, NoWorkFull
  <2>2. PICK rec : rec = [runs[n] EXCEPT !.status = "failed"]
    OBVIOUS
  <2>3. /\ RunRec(rec) /\ rec.done = runs[n].done /\ rec.status = "failed"
        /\ rec.print = runs[n].print
    BY <1>3, <2>2 DEF RunRec
  <2>4. runs' = [runs EXCEPT ![n] = rec] /\ evidence' = evidence
    <3>1. evidence' = evidence
      BY Zenon DEF Finish, Fail
    <3>. QED
      BY <1>4, <1>6, <2>2, <3>1
  <2>5. PICK T : T = runs'
    OBVIOUS
  <2>6. Sits(x, T, evidence)
    BY <2>1 DEF Sits, Busy
  <2>7. RunsInv'
    <3>1. Sits(x, runs', evidence)
      BY <2>5, <2>6
    <3>2. work[q].at \in Busy /\ work[q].run = n /\ x.at \notin Busy
      BY <1>1, <1>2, <2>1 DEF Busy
    <3>. QED
      BY <1>3, <1>4, <2>1, <2>3, <2>4, <3>1, <3>2, InsideRun
  <2>8. Looked(q, x)
    BY <2>1 DEF Looked
  <2>. QED
    BY <1>4, <2>1, <2>4, <2>7, <2>8
<1>. QED
  BY <1>4, <1>5, <1>6

LEMMA StoresRun ==
  ASSUME RunsInv, NEW q \in Proc, Store(q)
  PROVE  /\ RunsInv'
         /\ \E x, e : /\ work' = [work EXCEPT ![q] = x] /\ x.at = "finish"
                      /\ x.rows = work[q].rows /\ x.lately = work[q].lately
                      /\ evidence' = [r \in DOMAIN evidence \union {work[q].run} |->
                                        IF r = work[q].run THEN e ELSE evidence[r]]
                      /\ e.target = work[q].have.slug
                      /\ e.print = Fingerprint(work[q].have, work[q].sys)
<1>1. PICK w, n : w = work[q] /\ n = w.run
  OBVIOUS
<1>2. FullWork(w) /\ Sits(w, runs, evidence) /\ w.at = "store"
  BY <1>1, SMT DEF RunsInv, AllWork, Store, At
<1>3. /\ n \in DOMAIN runs /\ n \notin DOMAIN evidence /\ runs[n].done = 16
      /\ runs[n].status = "running" /\ runs[n].print = Fingerprint(w.have, w.sys)
      /\ DOMAIN w.found = Passed(16)
  BY <1>1, <1>2 DEF Sits, Busy
<1>4. DOMAIN w.found = AllPillars
  BY <1>3, QuarterPasses
<1>5. PICK slug, print, e :
        /\ slug = w.have.slug /\ print = Fingerprint(w.have, w.sys)
        /\ e = [target |-> slug, print |-> print, found |-> w.found, dead |-> FALSE]
  OBVIOUS
<1>6. EvRec(e) /\ e.target = slug /\ e.print = print /\ e.found = w.found
  BY <1>5 DEF EvRec
<1>7. PICK x : x = [w EXCEPT !.at = "finish"]
  OBVIOUS
<1>8. FullWork(x) /\ x.at = "finish" /\ x.run = n /\ x.have = w.have /\ x.sys = w.sys /\ x.found = w.found
       /\ x.rows = w.rows /\ x.lately = w.lately
  BY <1>1, <1>2, <1>7 DEF FullWork, Fields
<1>9. PICK F : F = [r \in DOMAIN evidence \union {n} |-> IF r = n THEN e ELSE evidence[r]]
  OBVIOUS
<1>10. work' = [work EXCEPT ![q] = x] /\ evidence' = F /\ runs' = runs
  <2>1. work' = [work EXCEPT ![q].at = "finish"] /\ runs' = runs
    BY Zenon DEF Store, Goto
  <2>2. evidence' = F
    BY <1>1, <1>5, <1>9, Zenon DEF Store, Imprint
  <2>. QED
    BY <1>1, <1>7, <2>1, <2>2 DEF RunsInv, AllWork
<1>11. /\ DOMAIN F = DOMAIN evidence \union {n} /\ F[n] = e
       /\ \A r \in DOMAIN evidence : F[r] = evidence[r]
  BY <1>3, <1>9
<1>12. AllWork' /\ RunList'
  BY <1>8, <1>10 DEF RunsInv, AllWork, RunList
<1>13. /\ work'[q] = x /\ \A o \in Proc \ {q} : work'[o] = work[o]
  BY <1>10 DEF RunsInv, AllWork
<1>14. EvidenceList' /\ DOMAIN evidence' \subseteq DOMAIN runs'
  <2>1. F = [r \in DOMAIN F |-> F[r]]
    BY <1>9
  <2>2. \A r \in DOMAIN F : EvRec(F[r])
    BY <1>6, <1>11 DEF RunsInv, EvidenceList
  <2>. QED
    BY <1>3, <1>10, <1>11, <2>1, <2>2 DEF RunsInv, EvidenceList
<1>15. RunsTruthful'
  BY <1>3, <1>4, <1>5, <1>6, <1>10, <1>11 DEF RunsInv, RunsTruthful
<1>16. ASSUME NEW o \in Proc PROVE Sits(work'[o], runs, F)
  <2>1. CASE o = q
    BY <1>3, <1>8, <1>11, <1>13, <2>1 DEF Sits, Busy
  <2>2. CASE o # q
    <3>1. work'[o] = work[o] /\ Sits(work[o], runs, evidence)
      BY <1>13, <2>2 DEF RunsInv
    <3>2. work[o].at \in Busy => work[o].run # n
      BY <1>1, <1>2, <2>2 DEF RunsInv, Busy
    <3>. QED
      BY <1>11, <3>1, <3>2 DEF Sits, Busy
  <2>. QED
    BY <2>1, <2>2
<1>17. \A o, p \in Proc : o # p /\ work'[o].at \in Busy /\ work'[p].at \in Busy =>
         work'[o].run # work'[p].run
  <2>1. work[q].at \in Busy /\ x.run = work[q].run
    BY <1>1, <1>2, <1>8 DEF Busy
  <2>. QED
    BY <1>13, <2>1 DEF RunsInv
<1>18. RunsInv'
  <2>1. \A o \in Proc : Sits(work[o], runs, evidence)'
    BY <1>10, <1>16
  <2>. QED
    BY <1>12, <1>14, <1>15, <1>17, <2>1 DEF RunsInv
<1>. QED
  BY <1>1, <1>5, <1>6, <1>8, <1>9, <1>10, <1>18

LEMMA SupersedesRuns ==
  ASSUME RunsInv, NEW q \in Proc, Supersede(q)
  PROVE  /\ RunsInv'
         /\ \E x : /\ work' = [work EXCEPT ![q] = x] /\ x.at = "start"
                   /\ x.have = work[q].have /\ x.sys = work[q].sys
                   /\ x.rows = work[q].rows /\ x.lately = work[q].lately
<1>1. PICK w : w = work[q]
  OBVIOUS
<1>2. FullWork(w) /\ Sits(w, runs, evidence) /\ w.at = "prior"
  BY <1>1, SMT DEF RunsInv, AllWork, Supersede, At
<1>3. PICK x : x = [w EXCEPT !.at = "start"]
  OBVIOUS
<1>4. FullWork(x) /\ x.at = "start" /\ x.have = w.have /\ x.sys = w.sys /\ x.found = w.found
       /\ x.rows = w.rows /\ x.lately = w.lately
  BY <1>2, <1>3 DEF FullWork, Fields
<1>5. work' = [work EXCEPT ![q] = x] /\ UNCHANGED runs
  <2>1. work' = [work EXCEPT ![q].at = "start"] /\ UNCHANGED runs
    BY Zenon DEF Supersede, Goto
  <2>. QED
    BY <1>1, <1>3, <2>1 DEF RunsInv, AllWork
<1>6. Restated(evidence, evidence')
  <2>1. PICK slug, print : evidence' = Superseded(slug, print, evidence)
    BY DEF Supersede
  <2>. QED
    BY <2>1, ObsoleteRestates DEF RunsInv
<1>7. DOMAIN x.found = {}
  BY <1>2, <1>4 DEF Sits, Busy
<1>8. RunsInv'
  <2>1. Lands(q, x) /\ x.at \notin Busy
    BY <1>4, <1>5, <1>6, <1>7 DEF Lands, Busy
  <2>. QED
    BY <2>1, OutsideRun
<1>. QED
  BY <1>1, <1>4, <1>5, <1>8

\* What goes on outside changes no run and no evidence, and of a process only
\* the releases seen in production meanwhile.
Elsewhere == Deploy \/ CatchUp \/ Flicker \/ UNCHANGED certVars
LEMMA WorldApart ==
  ASSUME AllWork, Elsewhere
  PROVE  /\ UNCHANGED <<runs, evidence, system, overlapped>> /\ AllWork'
         /\ \A q \in Proc : \A f \in Fields \ {"lately"} : work'[q][f] = work[q][f]
<1>1. CASE work' = work
  BY <1>1 DEF Elsewhere, Deploy, CatchUp, Flicker, certVars, AllWork
<1>2. CASE Deploy
  <2>1. PICK r : work' = [q \in Proc |-> IF At(q, "idle") THEN work[q]
                                          ELSE [work[q] EXCEPT !.lately = @ \union {r}]]
    BY <1>2 DEF Deploy
  <2>2. ASSUME NEW q \in Proc
        PROVE  FullWork(work'[q]) /\ \A f \in Fields \ {"lately"} : work'[q][f] = work[q][f]
    <3>1. PICK w, seen : w = work[q] /\ seen = w.lately \union {r}
      OBVIOUS
    <3>2. FullWork(w)
      BY <3>1 DEF AllWork
    <3>3. work'[q] = w \/ work'[q] = [w EXCEPT !.lately = seen]
      <4>1. work'[q] = IF At(q, "idle") THEN work[q] ELSE [work[q] EXCEPT !.lately = work[q].lately \union {r}]
        BY <2>1, <3>1, <3>2 DEF FullWork, Fields
      <4>. QED
        BY <3>1, <4>1
    <3>. QED
      BY <3>1, <3>2, <3>3 DEF FullWork, Fields
  <2>3. work' = [q \in Proc |-> work'[q]]
    BY <2>1
  <2>. QED
    BY <1>2, <2>2, <2>3 DEF AllWork, Deploy
<1>. QED
  BY <1>1, <1>2 DEF Elsewhere, Deploy, CatchUp, Flicker, certVars

LEMMA ElsewhereRuns ==
  ASSUME RunsInv, Elsewhere
  PROVE  RunsInv'
<1>1. /\ UNCHANGED <<runs, evidence>> /\ AllWork'
      /\ \A q \in Proc : \A f \in Fields \ {"lately"} : work'[q][f] = work[q][f]
  BY WorldApart DEF RunsInv
<1>2. \A q \in Proc : /\ work'[q].at = work[q].at /\ work'[q].run = work[q].run
                      /\ work'[q].have = work[q].have /\ work'[q].sys = work[q].sys
                      /\ work'[q].found = work[q].found
  BY <1>1 DEF Fields
<1>3. \A q \in Proc : Sits(work[q], runs, evidence)'
  BY <1>1, <1>2 DEF RunsInv, Sits
<1>. QED
  BY <1>1, <1>2, <1>3 DEF RunsInv, RunList, EvidenceList, RunsTruthful

LEMMA RunsStart == CertInit => RunsInv
<1>. SUFFICES ASSUME CertInit PROVE RunsInv
  OBVIOUS
<1>1. runs = <<>> /\ evidence = <<>> /\ work = [q \in Proc |-> NoWork]
  BY DEF CertInit
<1>2. PICK x : x = NoWork
  OBVIOUS
<1>3. FullWork(x) /\ x.at = "idle" /\ DOMAIN x.found = {}
  BY <1>2, NoWorkFull
<1>4. AllWork /\ \A q \in Proc : work[q] = x
  BY <1>1, <1>2, <1>3 DEF AllWork
<1>5. RunList /\ EvidenceList /\ DOMAIN evidence = {} /\ DOMAIN runs = {}
  BY <1>1 DEF RunList, EvidenceList
<1>. QED
  BY <1>3, <1>4, <1>5 DEF RunsInv, RunsTruthful, Sits, Busy

LEMMA RunsStep ==
  ASSUME RunsInv, [CertNext]_certVars
  PROVE  RunsInv'
<1>1. CASE Elsewhere
  BY <1>1, ElsewhereRuns
<1>2. ASSUME NEW q \in Proc, \/ Begin(q) \/ Products(q) \/ Panel(q) \/ End(q) \/ Cut(q)
                             \/ Telemetry(q) \/ Snapshot(q) \/ Invalidate(q)
      PROVE  RunsInv'
  <2>1. PICK x : Lands(q, x) /\ x.at \notin Busy \union Building
    BY <1>2, StaysOutside DEF Outside
  <2>. QED
    BY <2>1, OutsideRun
<1>3. ASSUME NEW q \in Proc, \/ Supersede(q) \/ StartRun(q) \/ Check(q) \/ Store(q)
                             \/ Finish(q) \/ Fail(q)
      PROVE  RunsInv'
  BY <1>3, SupersedesRuns, StartsRun, ChecksRun, StoresRun, EndsRun
<1>. QED
  BY <1>1, <1>2, <1>3 DEF CertNext, Execute, Elsewhere

(***************************************************************************)
(* A run is complete only with its evidence stored, and evidence comes     *)
(* only from runs that went through all sixteen pillars for the version    *)
(* and release of their record, however runs, invalidations and failures   *)
(* of several processes interleave.                                        *)
(***************************************************************************)
THEOREM CertRunsTruthful == CertSpec => []RunsTruthful
<1>1. RunsInv => RunsTruthful
  BY DEF RunsInv
<1>2. RunsInv /\ [CertNext]_certVars => RunsInv'
  BY RunsStep
<1>. QED
  BY RunsStart, <1>1, <1>2, PTL DEF CertSpec

-----------------------------------------------------------------------------
(* One run per product, unless two were under way together. *)

SlugOf(x) == x.have.slug
PrintOf(x) == Fingerprint(x.have, x.sys)

\* Two runs of a product under way together are on record.
RivalsSeen(W, O) ==
  \A q, o \in Proc : /\ q # o /\ W[q].at \in Building /\ W[o].at \in Building
                     /\ SlugOf(W[q]) = SlugOf(W[o])
                     => SlugOf(W[q]) \in O
\* What a run is about to replace counts no more.
PriorDead(W, E, O) ==
  \A q \in Proc : W[q].at \in Building /\ SlugOf(W[q]) \notin O =>
    \A r \in DOMAIN E : E[r].target = SlugOf(W[q]) /\ E[r].print = PrintOf(W[q]) => E[r].dead
\* At most one stored run counts for a version and release.
OneLive(E, O) ==
  \A r, t \in DOMAIN E : /\ ~E[r].dead /\ ~E[t].dead
                         /\ E[r].target = E[t].target /\ E[r].print = E[t].print
                         /\ E[r].target \notin O
                         => r = t
OneInv == RivalsSeen(work, overlapped) /\ PriorDead(work, evidence, overlapped)
            /\ OneLive(evidence, overlapped)

LEMMA OneKept ==
  ASSUME AllWork, OneInv, NEW q \in Proc, NEW x, work' = [work EXCEPT ![q] = x],
         Restated(evidence, evidence'), overlapped' = overlapped,
         x.at \in Building =>
           work[q].at \in Building /\ x.have = work[q].have /\ x.sys = work[q].sys
  PROVE  OneInv'
<1>1. PICK W, E : W = work' /\ E = evidence'
  OBVIOUS
<1>2. \A o \in Proc : W[o].at \in Building =>
        work[o].at \in Building /\ SlugOf(W[o]) = SlugOf(work[o]) /\ PrintOf(W[o]) = PrintOf(work[o])
  BY <1>1 DEF AllWork, SlugOf, PrintOf
<1>3. RivalsSeen(W, overlapped)
  BY <1>2 DEF OneInv, RivalsSeen
<1>4. DOMAIN E = DOMAIN evidence /\ \A r \in DOMAIN E : /\ E[r].target = evidence[r].target
        /\ E[r].print = evidence[r].print /\ (E[r].dead = evidence[r].dead \/ E[r].dead = TRUE)
  BY <1>1 DEF Restated
<1>5. PriorDead(W, E, overlapped)
  BY <1>2, <1>4 DEF OneInv, PriorDead
<1>6. OneLive(E, overlapped)
  BY <1>4 DEF OneInv, OneLive
<1>. QED
  BY <1>1, <1>3, <1>5, <1>6 DEF OneInv

LEMMA OneSuperseded ==
  ASSUME RunsInv, OneInv, NEW q \in Proc, Supersede(q)
  PROVE  OneInv'
<1>1. PICK x : /\ work' = [work EXCEPT ![q] = x] /\ x.at = "start"
               /\ x.have = work[q].have /\ x.sys = work[q].sys
  BY SupersedesRuns
<1>2. PICK W, E, O : W = work' /\ E = evidence' /\ O = overlapped'
  OBVIOUS
<1>3. W[q] = x /\ \A o \in Proc \ {q} : W[o] = work[o]
  BY <1>1, <1>2 DEF RunsInv, AllWork
<1>4. PICK slug, print : slug = SlugOf(x) /\ print = PrintOf(x)
  OBVIOUS
<1>5. E = Superseded(slug, print, evidence)
  BY <1>1, <1>2, <1>4, Zenon DEF Supersede, SlugOf, PrintOf, Imprint
<1>6. Restated(evidence, E)
  BY <1>5, ObsoleteRestates DEF RunsInv
<1>7. DOMAIN E = DOMAIN evidence /\ \A r \in DOMAIN E : /\ E[r].target = evidence[r].target
        /\ E[r].print = evidence[r].print /\ (E[r].dead = evidence[r].dead \/ E[r].dead = TRUE)
  BY <1>6 DEF Restated
<1>8. \A r \in DOMAIN E : E[r].target = slug /\ E[r].print = print => E[r].dead
  <2>1. ASSUME NEW r \in DOMAIN E, E[r].target = slug, E[r].print = print
        PROVE  E[r].dead
    <3>1. PICK e : e = evidence[r]
      OBVIOUS
    <3>2. e.target = slug /\ e.print = print /\ EvRec(e)
      BY <1>7, <2>1, <3>1 DEF RunsInv, EvidenceList
    <3>3. E[r] = [e EXCEPT !.dead = TRUE]
      BY <1>5, <1>7, <2>1, <3>1, <3>2 DEF Superseded
    <3>. QED
      BY <3>2, <3>3 DEF EvRec
  <2>. QED
    BY <2>1
<1>9. /\ overlapped \subseteq O
      /\ \A o \in Proc \ {q} : work[o].at \in Building /\ SlugOf(work[o]) = slug => slug \in O
  <2>1. O = overlapped \union IF Rivals(q) # {} THEN {work[q].have.slug} ELSE {}
    BY <1>2 DEF Supersede
  <2>2. \A o \in Proc \ {q} : work[o].at \in Building /\ SlugOf(work[o]) = slug => o \in Rivals(q)
    BY <1>1, <1>4 DEF Rivals, Building, SlugOf
  <2>. QED
    BY <1>1, <1>4, <2>1, <2>2 DEF SlugOf
<1>10. RivalsSeen(W, O)
  BY <1>3, <1>4, <1>9 DEF OneInv, RivalsSeen
<1>11. PriorDead(W, E, O)
  BY <1>3, <1>4, <1>7, <1>8, <1>9 DEF OneInv, PriorDead
<1>12. OneLive(E, O)
  BY <1>7, <1>9 DEF OneInv, OneLive
<1>. QED
  BY <1>2, <1>10, <1>11, <1>12 DEF OneInv

LEMMA OneStored ==
  ASSUME RunsInv, OneInv, NEW q \in Proc, Store(q)
  PROVE  OneInv'
<1>1. PICK x, e : /\ work' = [work EXCEPT ![q] = x] /\ x.at = "finish"
                  /\ x.rows = work[q].rows /\ x.lately = work[q].lately
                  /\ evidence' = [r \in DOMAIN evidence \union {work[q].run} |->
                                    IF r = work[q].run THEN e ELSE evidence[r]]
                  /\ e.target = work[q].have.slug
                  /\ e.print = Fingerprint(work[q].have, work[q].sys)
  BY StoresRun, Zenon
<1>2. PICK W, E, n : W = work' /\ E = evidence' /\ n = work[q].run
  OBVIOUS
<1>3. overlapped' = overlapped /\ work[q].at \in Building
  BY DEF Store, At, Building
<1>4. W[q].at \notin Building /\ \A o \in Proc \ {q} : W[o] = work[o]
  BY <1>1, <1>2 DEF RunsInv, AllWork, Building
<1>5. /\ DOMAIN E = DOMAIN evidence \union {n} /\ E[n] = e
      /\ \A r \in DOMAIN E \ {n} : E[r] = evidence[r]
  BY <1>1, <1>2
<1>6. RivalsSeen(W, overlapped)
  BY <1>4 DEF OneInv, RivalsSeen
<1>7. e.target = SlugOf(work[q]) /\ e.print = PrintOf(work[q])
  BY <1>1 DEF SlugOf, PrintOf
<1>8. PriorDead(W, E, overlapped)
  BY <1>1, <1>7, <1>3, <1>4, <1>5 DEF OneInv, RivalsSeen, PriorDead
<1>9. OneLive(E, overlapped)
  BY <1>1, <1>7, <1>3, <1>5 DEF OneInv, PriorDead, OneLive
<1>. QED
  BY <1>2, <1>3, <1>6, <1>8, <1>9 DEF OneInv

LEMMA OneStep ==
  ASSUME RunsInv, OneInv, [CertNext]_certVars
  PROVE  OneInv'
<1>1. AllWork /\ Restated(evidence, evidence)
  BY ObsoleteRestates DEF RunsInv
<1>2. CASE Elsewhere
  <2>1. /\ UNCHANGED <<evidence, overlapped>>
        /\ \A q \in Proc : \A f \in Fields \ {"lately"} : work'[q][f] = work[q][f]
    BY <1>1, <1>2, WorldApart
  <2>2. PICK W : W = work'
    OBVIOUS
  <2>3. \A q \in Proc : W[q].at = work[q].at /\ W[q].have = work[q].have /\ W[q].sys = work[q].sys
    BY <2>1, <2>2 DEF Fields
  <2>4. RivalsSeen(W, overlapped) /\ PriorDead(W, evidence, overlapped)
    BY <2>3 DEF OneInv, RivalsSeen, PriorDead, SlugOf, PrintOf
  <2>. QED
    BY <2>1, <2>2, <2>4 DEF OneInv
<1>3. ASSUME NEW q \in Proc, \/ Begin(q) \/ Products(q) \/ Panel(q) \/ End(q) \/ Cut(q)
                             \/ Telemetry(q) \/ Snapshot(q) \/ Invalidate(q)
      PROVE  OneInv'
  <2>1. PICK x : Lands(q, x) /\ x.at \notin Busy \union Building
    BY <1>3, StaysOutside DEF Outside
  <2>2. overlapped' = overlapped
    BY <1>3, Zenon DEF Begin, Products, Panel, End, Cut, Telemetry, Snapshot, Invalidate, List, Migrate,
      FillAudit, AddMissing, Consult, Get, Outdate, Relist, Decide, Write, ReadPart, Overlay,
      Identity, Collect
  <2>. QED
    BY <1>1, <2>1, <2>2, OneKept DEF Lands
<1>4. ASSUME NEW q \in Proc, StartRun(q) \/ Check(q)
      PROVE  OneInv'
  <2>1. PICK x : work' = [work EXCEPT ![q] = x] /\ x.have = work[q].have /\ x.sys = work[q].sys
    BY <1>4, StartsRun, ChecksRun
  <2>2. UNCHANGED <<evidence, overlapped>> /\ work[q].at \in Building
    BY <1>4, Zenon DEF StartRun, Check, At, Building
  <2>. QED
    BY <1>1, <2>1, <2>2, OneKept
<1>5. ASSUME NEW q \in Proc, Finish(q) \/ Fail(q)
      PROVE  OneInv'
  <2>1. PICK x : /\ work' = [work EXCEPT ![q] = x] /\ x.at \in {"idle", "final"}
                 /\ evidence' = evidence
    BY <1>5, EndsRun
  <2>2. overlapped' = overlapped /\ x.at \notin Building
    BY <1>5, <2>1 DEF Finish, Fail, Building
  <2>. QED
    BY <1>1, <2>1, <2>2, OneKept
<1>. QED
  BY <1>2, <1>3, <1>4, <1>5, OneSuperseded, OneStored DEF CertNext, Execute, Elsewhere

(***************************************************************************)
(* Stored evidence that certifies a product is that of one run which       *)
(* proved every applicable pillar of this version and release, unless two  *)
(* runs of the product were under way together: for any number of          *)
(* processes of either site, products and releases.                        *)
(***************************************************************************)
THEOREM CertOneRun == CertSpec => []CertifiedByOneRun
<1>1. CertInit => OneInv
  <2>1. CertInit => evidence = <<>> /\ \A q \in Proc : work[q] = NoWork
    BY DEF CertInit
  <2>2. NoWork.at \notin Building
    BY NoWorkFull DEF Building
  <2>. QED
    BY <2>1, <2>2 DEF OneInv, RivalsSeen, PriorDead, OneLive
<1>2. OneInv => CertifiedByOneRun
  <2>. SUFFICES ASSUME OneInv, NEW i \in DOMAIN products, NEW p, p = products[i],
                       EdgeReady(p, system, evidence), p.slug \notin overlapped
                PROVE  \E r \in Counted(p, system, evidence) :
                         \A d \in Applicable(p) : evidence[r].found[d] = "proved"
    BY DEF CertifiedByOneRun
  <2>1. \A d \in Applicable(p) : \E r \in Counted(p, system, evidence) : evidence[r].found[d] = "proved"
    BY DEF EdgeReady, ProvedByRun
  <2>2. "P01" \in Applicable(p)
    BY DEF Applicable, AllPillars
  <2>3. PICK r \in Counted(p, system, evidence) : evidence[r].found["P01"] = "proved"
    BY <2>1, <2>2
  <2>4. \A t \in Counted(p, system, evidence) : t = r
    BY <2>3 DEF Counted, OneInv, OneLive
  <2>. QED
    BY <2>1, <2>3, <2>4
<1>3. (RunsInv /\ OneInv) /\ [CertNext]_certVars => (RunsInv /\ OneInv)'
  BY RunsStep, OneStep
<1>. QED
  BY RunsStart, <1>1, <1>2, <1>3, PTL DEF CertSpec
-----------------------------------------------------------------------------
(* What the panel reads back was in production while it was read. *)

\* Evidence lines of the source that make a verifier conclude without production.
Attested(d) ==
  \/ d = "P03" /\ "geometry" \in Tags
  \/ d = "P05" /\ "engineering" \in Tags
  \/ d = "P09" /\ "privacy-twice" \in Tags
  \/ d = "P11" /\ "vitals" \in Tags
  \/ d = "P13" /\ {"schema", "lineage", "retention", "quality"} \subseteq Tags
\* The pillars left to what production itself answers.
LivePillars == {d \in {"P03", "P05", "P09", "P11", "P13"} : ~Attested(d)}
SomePillarLive == LivePillars # {}

Seen(x, w) ==
  /\ x.at # "idle" => w.live \in x.lately
  /\ \A y \in x.rows : y.slug = "zevanory" /\ y.row.pillar \in LivePillars => y.row.sha \in x.lately
LiveInv == DOMAIN world = WorldParts /\ \A q \in Proc : Seen(work[q], world)

\* One of these pillars is proved of a declared release only while that is live.
LEMMA ProvedLive ==
  ASSUME NEW c, NEW w, NEW d \in LivePillars, c.slug = "zevanory", c.tags = Tags,
         Verifier(d, c, w).status = "proved"
  PROVE  w.live = c.sha
<1>. DEFINE proved(p) == p.status = "proved"
<1>1. /\ NoProof.status = "none" /\ \A s : Result(s).status = s
  BY DEF NoProof, Result
<1>2. CoreProof(d, c, w) = NoProof /\ d \in {"P03", "P05", "P09", "P11", "P13"} /\ ~Attested(d)
  BY DEF LivePillars, CoreProof, Reusable
<1>3. \A p, o : p.status # "proved" => First(p, o) = o
  BY DEF First
<1>4. ASSUME NEW names, CollectedProof(c, w, names).status = "proved" PROVE w.live = c.sha
  BY <1>1, <1>4 DEF CollectedProof
<1>5. \A o : First(CoreProof(d, c, w), o) = o
  BY <1>1, <1>2, <1>3
<1>6. CASE d = "P03"
  <2>1. Verifier(d, c, w) = P03(c, w) /\ "geometry" \notin c.tags
    BY <1>2, <1>5, <1>6 DEF Verifier, Attested
  <2>2. PortfolioProof(c, w, "portfolio-p03-exact").status # "proved"
    BY <1>1 DEF PortfolioProof, Portfolio
  <2>3. Geometry(c, w).status # "proved"
    BY <1>1, <2>1 DEF Geometry
  <2>. QED
    BY <1>3, <1>4, <2>1, <2>2, <2>3 DEF P03
<1>7. CASE d = "P05"
  <2>1. Verifier(d, c, w) = P05(c, w) /\ "engineering" \notin c.tags
    BY <1>2, <1>5, <1>7 DEF Verifier, Attested
  <2>2. Engineering(c).status # "proved"
    BY <1>1, <2>1 DEF Engineering
  <2>. QED
    BY <1>3, <1>4, <2>1, <2>2 DEF P05
<1>8. CASE d = "P09"
  <2>1. Verifier(d, c, w) = P09(c, w) /\ "privacy-twice" \notin c.tags
    BY <1>2, <1>5, <1>8 DEF Verifier, Attested
  <2>2. Privacy(c).status # "proved"
    BY <1>1, <2>1 DEF Privacy
  <2>3. PrivacyProof(c, w).status = "proved"
    BY <1>3, <2>1, <2>2 DEF P09
  <2>. QED
    BY <1>1, <2>3 DEF PrivacyProof
<1>9. CASE d = "P11"
  <2>1. Verifier(d, c, w) = P11(c, w) /\ "vitals" \notin c.tags
    BY <1>2, <1>5, <1>9 DEF Verifier, Attested
  <2>2. Performance(c, w).status # "proved"
    BY <1>1, <2>1 DEF Performance
  <2>. QED
    BY <1>3, <1>4, <2>1, <2>2 DEF P11
<1>10. CASE d = "P13"
  <2>1. PICK kinds : kinds = {"schema", "lineage", "retention", "quality"}
    OBVIOUS
  <2>2. Verifier(d, c, w) = P13(c, w) /\ ~(kinds \subseteq c.tags)
    BY <1>2, <1>5, <1>10, <2>1 DEF Verifier, Attested
  <2>3. AllOf(c, kinds).status # "proved"
    BY <1>1, <2>2 DEF AllOf, Graded
  <2>4. DataProof(c, w).status = "proved"
    BY <1>3, <2>1, <2>2, <2>3 DEF P13
  <2>. QED
    BY <1>1, <2>4 DEF DataProof
<1>. QED
  BY <1>2, <1>6, <1>7, <1>8, <1>9, <1>10

\* The rows of a set of pillars.
LEMMA RowsOf ==
  ASSUME NEW of, NEW sha, NEW pillars, NEW strong \in BOOLEAN,
         NEW r \in {Row(p, of, sha, strong) : p \in pillars}
  PROVE  r.pillar \in pillars /\ r.sha = sha
<1>1. PICK p \in pillars : r = Row(p, of, sha, strong)
  OBVIOUS
<1>2. r = [pillar |-> p, of |-> of, sha |-> sha, strong |-> strong]
  BY <1>1 DEF Row
<1>. QED
  BY <1>2

\* A row read back for one of these pillars names the release in production.
LEMMA ReadLive ==
  ASSUME NEW c, NEW w, c.slug = "zevanory", c.tags = Tags,
         NEW r \in Exact(c, w) \union Lasting(c, w) \union Pages(c, w), r.pillar \in LivePillars
  PROVE  r.sha = w.live
<1>1. /\ r.pillar \in {"P03", "P05", "P09", "P11", "P13"}
      /\ \A d, of, sha, strong : Row(d, of, sha, strong).pillar = d /\ Row(d, of, sha, strong).sha = sha
  BY DEF LivePillars, Row
<1>2. r \notin CanonicalCore(c, w)
  <2>1. ASSUME r \in CanonicalCore(c, w) PROVE r.pillar \in Reusable
    <3>1. r \in {Row(p, w.core.sha, c.sha, FALSE) : p \in Reusable \intersect w.core.proved}
      BY <2>1, Zenon DEF CanonicalCore
    <3>2. r.pillar \in Reusable \intersect w.core.proved
      BY <3>1, RowsOf, Zenon
    <3>. QED
      BY <3>2
  <2>. QED
    BY <1>1, <2>1 DEF Reusable
<1>3. ASSUME NEW d, NEW strong, r \in Readback(d, c, w, strong) PROVE r.sha = w.live
  <2>1. r = Row(d, c.sha, c.sha, strong) /\ Verifier(d, c, w).status = "proved"
    BY <1>3 DEF Readback
  <2>2. d \in LivePillars /\ r.sha = c.sha
    BY <1>1, <2>1
  <2>. QED
    BY <2>1, <2>2, ProvedLive
<1>4. ASSUME r \in DirectExact(c, w) PROVE r.sha = w.live
  <2>1. r \in {Row(p, w.live, w.live, TRUE) : p \in AllPillars}
    BY <1>4, Zenon DEF DirectExact
  <2>. QED
    BY <2>1, RowsOf, Zenon
<1>5. r \notin Lasting(c, w)
  <2>1. ASSUME NEW pillars, r \in Durable(c, w, pillars) PROVE r.pillar \in pillars
    <3>1. r \in {Row(p, Proven, Proven, TRUE) : p \in {q \in pillars : q \in w.kept /\ "github" \in w.up}}
      BY <2>1, Zenon DEF Durable
    <3>2. r.pillar \in {q \in pillars : q \in w.kept /\ "github" \in w.up}
      BY <3>1, RowsOf, Zenon
    <3>. QED
      BY <3>2
  <2>. QED
    BY <1>1, <2>1 DEF Lasting, DurableProtected, DurableSecuritySupply
<1>6. r \notin Pages(c, w)
  <2>1. c.slug \notin Portfolio /\ c.slug \notin Digital /\ c.slug # "zevanory-one"
    BY DEF Portfolio, Digital
  <2>2. /\ DigitalTechnical(c, w) = {} /\ DigitalP16(c, w) = {} /\ OneDurable(c, w) = {}
        /\ CanonicalPortfolio(c, w) = {}
    BY <2>1 DEF DigitalTechnical, DigitalP16, OneDurable, CanonicalPortfolio
  <2>3. OneProtected(c, w) = {}
    BY <2>2 DEF OneProtected
  <2>. QED
    BY <2>2, <2>3 DEF Pages
<1>7. ASSUME r \in Exact(c, w) PROVE r.sha = w.live
  <2>1. \/ r \in CanonicalCore(c, w) \/ r \in CanonicalP08(c, w) \/ r \in CanonicalP09(c, w)
        \/ r \in CanonicalP13(c, w) \/ r \in CanonicalExact(c, w) \/ r \in DirectExact(c, w)
    BY <1>7 DEF Exact
  <2>2. ASSUME r \in CanonicalExact(c, w) PROVE r.sha = w.live
    <3>1. PICK d : r \in Readback(d, c, w, TRUE)
      BY <2>2, Zenon DEF CanonicalExact
    <3>. QED
      BY <1>3, <3>1, Zenon
  <2>3. ASSUME r \in CanonicalP08(c, w) \/ r \in CanonicalP09(c, w) \/ r \in CanonicalP13(c, w)
        PROVE  r.sha = w.live
    BY <1>3, <2>3, Zenon DEF CanonicalP08, CanonicalP09, CanonicalP13
  <2>. QED
    BY <1>2, <1>4, <2>1, <2>2, <2>3
<1>. QED
  BY <1>5, <1>6, <1>7

LEMMA FoundLive ==
  ASSUME NEW q \in Proc, Collect(q), NEW y \in Found(q), y.slug = "zevanory",
         y.row.pillar \in LivePillars
  PROVE  y.row.sha = world.live
<1>1. PICK p : y \in Tagged(p, ReadOf(q, p))
  BY DEF Found
<1>2. PICK r : r \in ReadOf(q, p) /\ y = [slug |-> p.slug, stamp |-> p.stamp, row |-> r]
  BY <1>1 DEF Tagged
<1>3. y.row = r /\ p.slug = "zevanory"
  BY <1>2
<1>4. PICK c : c = Context(p, work[q].sys)
  OBVIOUS
<1>5. c.slug = "zevanory" /\ c.tags = Tags
  BY <1>3, <1>4 DEF Context, Linked
<1>6. r \in Exact(c, world) \union Lasting(c, world) \union Pages(c, world)
  <2>1. PICK at : at = work[q].at /\ at \in {"exact", "lasting", "pages"}
    BY DEF Collect
  <2>. QED
    BY <1>2, <1>4, <2>1 DEF ReadOf, At
<1>. QED
  BY <1>3, <1>5, <1>6, ReadLive

LEMMA LiveStep ==
  ASSUME RunsInv, LiveInv, [CertNext]_certVars
  PROVE  LiveInv'
<1>1. ASSUME NEW q \in Proc, NEW x, work' = [work EXCEPT ![q] = x], world' = world, Looked(q, x)
      PROVE  LiveInv'
  <2>1. Seen(x, world)
    <3>1. PICK w : w = work[q]
      OBVIOUS
    <3>2. Seen(w, world)
      BY <3>1 DEF LiveInv
    <3>3. CASE x.rows = w.rows /\ x.lately = w.lately /\ w.at # "idle"
      BY <3>2, <3>3 DEF Seen
    <3>4. CASE Collect(q) /\ x.rows = w.rows \union Found(q) /\ x.lately = w.lately
      <4>1. world.live \in x.lately
        BY <3>1, <3>2, <3>4 DEF Seen, Collect
      <4>. QED
        BY <3>2, <3>4, <4>1, FoundLive DEF Seen
    <3>. QED
      BY <1>1, <3>1, <3>3, <3>4 DEF Looked, Seen
  <2>2. \A o \in Proc : work'[o] = IF o = q THEN x ELSE work[o]
    BY <1>1 DEF RunsInv, AllWork
  <2>. QED
    BY <1>1, <2>1, <2>2 DEF LiveInv
<1>2. ASSUME NEW q \in Proc, \/ Begin(q) \/ Products(q) \/ Panel(q) \/ End(q) \/ Cut(q)
                             \/ Telemetry(q) \/ Snapshot(q) \/ Invalidate(q)
      PROVE  LiveInv'
  <2>1. PICK x : Lands(q, x) /\ Looked(q, x)
    BY <1>2, StaysOutside DEF Outside
  <2>2. world' = world
    BY <1>2, Zenon DEF Begin, Products, Panel, End, Cut, Telemetry, Snapshot, Invalidate, List, Migrate,
      FillAudit, AddMissing, Consult, Get, Outdate, Relist, Decide, Write, ReadPart, Overlay,
      Identity, Collect
  <2>. QED
    BY <1>1, <2>1, <2>2 DEF Lands
<1>3. ASSUME NEW q \in Proc, Supersede(q) \/ StartRun(q) \/ Check(q) \/ Store(q)
      PROVE  LiveInv'
  <2>1. PICK x : work' = [work EXCEPT ![q] = x] /\ x.rows = work[q].rows /\ x.lately = work[q].lately
    <3>1. CASE Supersede(q)
      BY <3>1, SupersedesRuns, Zenon
    <3>2. CASE StartRun(q)
      BY <3>2, StartsRun, Zenon
    <3>3. CASE Check(q)
      BY <3>3, ChecksRun, Zenon
    <3>4. CASE Store(q)
      BY <3>4, StoresRun, Zenon
    <3>. QED
      BY <1>3, <3>1, <3>2, <3>3, <3>4
  <2>2. world' = world /\ work[q].at # "idle"
    BY <1>3, Zenon DEF Supersede, StartRun, Check, Store, At
  <2>. QED
    BY <1>1, <2>1, <2>2 DEF Looked
<1>4. ASSUME NEW q \in Proc, Finish(q) \/ Fail(q)
      PROVE  LiveInv'
  <2>1. PICK x : work' = [work EXCEPT ![q] = x] /\ Looked(q, x)
    BY <1>4, EndsRun
  <2>2. world' = world
    BY <1>4, Zenon DEF Finish, Fail
  <2>. QED
    BY <1>1, <2>1, <2>2
<1>5. CASE Deploy
  <2>1. PICK r : /\ world' = [world EXCEPT !.live = r]
                 /\ work' = [q \in Proc |-> IF At(q, "idle") THEN work[q]
                                            ELSE [work[q] EXCEPT !.lately = @ \union {r}]]
    BY <1>5 DEF Deploy
  <2>2. DOMAIN world' = WorldParts /\ world'.live = r
    BY <2>1 DEF LiveInv, WorldParts
  <2>3. ASSUME NEW q \in Proc PROVE Seen(work[q], world)'
    <3>1. PICK w, seen, T : w = work[q] /\ seen = w.lately \union {r} /\ T = work'[q]
      OBVIOUS
    <3>2. FullWork(w) /\ Seen(w, world)
      BY <3>1 DEF LiveInv, RunsInv, AllWork
    <3>3. T = IF w.at = "idle" THEN w ELSE [w EXCEPT !.lately = seen]
      <4>1. T = IF At(q, "idle") THEN work[q] ELSE [work[q] EXCEPT !.lately = work[q].lately \union {r}]
        BY <2>1, <3>1, <3>2 DEF FullWork, Fields
      <4>. QED
        BY <3>1, <4>1 DEF At
    <3>4. T.at = w.at /\ T.rows = w.rows /\ T.lately = IF w.at = "idle" THEN w.lately ELSE seen
      BY <3>2, <3>3 DEF FullWork, Fields
    <3>5. PICK V : V = world'
      OBVIOUS
    <3>6. Seen(T, V)
      BY <2>2, <3>1, <3>2, <3>4, <3>5 DEF Seen
    <3>. QED
      BY <3>1, <3>5, <3>6
  <2>. QED
    BY <2>2, <2>3 DEF LiveInv
<1>6. CASE CatchUp \/ Flicker \/ UNCHANGED certVars
  <2>1. work' = work
    BY <1>6 DEF CatchUp, Flicker, certVars
  <2>2. DOMAIN world' = WorldParts /\ world'.live = world.live
    BY <1>6 DEF CatchUp, Flicker, certVars, LiveInv, WorldParts
  <2>3. PICK V : V = world'
    OBVIOUS
  <2>4. \A q \in Proc : Seen(work[q], V)
    BY <2>2, <2>3 DEF LiveInv, Seen
  <2>. QED
    BY <2>1, <2>2, <2>3, <2>4 DEF LiveInv
<1>. QED
  BY <1>2, <1>3, <1>4, <1>5, <1>6 DEF CertNext, Execute

LEMMA ShownLive ==
  ASSUME SomePillarLive, LiveInv
  PROVE  PanelReadyWasLive
<1>. SUFFICES ASSUME NEW q \in Proc, NEW p, At(q, "shown"), Linked(p),
                     Ready(p, work[q].sys, <<>>, work[q].rows)
              PROVE  work[q].sys.sha \in work[q].lately
  BY DEF PanelReadyWasLive
<1>1. PICK d \in LivePillars : d \in AllPillars /\ d # "P14"
  BY DEF SomePillarLive, LivePillars, AllPillars
<1>2. PICK s, rws : s = work[q].sys /\ rws = work[q].rows
  OBVIOUS
<1>3. ProvedPillar(d, p, s, <<>>, rws)
  BY <1>1, <1>2 DEF Ready, Applicable
<1>4. ~ProvedByRun(d, p, s, <<>>)
  BY DEF ProvedByRun, Counted
<1>5. PICK r \in Fresh(p, s, rws) : r.pillar = d
  BY <1>3, <1>4 DEF ProvedPillar
<1>6. PICK y \in rws : y.slug = p.slug /\ y.row = r /\ y.row.sha = Context(p, s).sha
  BY <1>5 DEF Fresh
<1>7. y.slug = "zevanory" /\ Context(p, s).sha = s.sha
  BY <1>6 DEF Linked, Context
<1>. QED
  BY <1>1, <1>2, <1>5, <1>6, <1>7 DEF LiveInv, Seen

(***************************************************************************)
(* When the panel shows ZEVANORY certified on read-backs alone, the        *)
(* release it names was in production while the panel was computed, with   *)
(* any deployments in between: provided that the source's own evidence     *)
(* lines leave at least one of P03, P05, P09, P11 and P13 to what          *)
(* production answers (SomePillarLive, about the constant Tags alone).     *)
(***************************************************************************)
THEOREM CertPanelWasLive == CertSpec => [](SomePillarLive => PanelReadyWasLive)
<1>1. CertInit => LiveInv
  <2>1. NoWork.at = "idle" /\ NoWork.rows = {}
    BY NoWorkFull
  <2>. QED
    BY <2>1, ProcAssumption DEF CertInit, LiveInv, Seen
<1>2. (RunsInv /\ LiveInv) /\ [CertNext]_certVars => (RunsInv /\ LiveInv)'
  BY RunsStep, LiveStep
<1>3. LiveInv => (SomePillarLive => PanelReadyWasLive)
  BY ShownLive
<1>. QED
  BY RunsStart, <1>1, <1>2, <1>3, PTL DEF CertSpec

-----------------------------------------------------------------------------
(* The trust strip: what the ghosts vouch for, said of the documents themselves. *)

(***************************************************************************)
(* What the ghosts vouch for, as predicates of the documents themselves:   *)
(* w, p and g are the last times each release was in production, had a     *)
(* complete proof and had a quorum.                                        *)
(***************************************************************************)
TrueProof(x, p) ==
  /\ x.sha \in Sha /\ x.at \in Nat /\ x.complete \in BOOLEAN
  /\ x.complete => x.at <= p[x.sha]
TrueQuorum(x, g) == x.sha \in Sha /\ x.at \in Nat /\ x.at <= g[x.sha]
TrueCore(x, w, p) ==
  /\ x.sha \in Sha /\ x.at \in Nat /\ x.at <= w[x.sha]
  /\ TrueProof(x.proof, p)

\* A document derived GREEN expires within what its release can still claim.
TrueDoc(x, w, p, g) ==
  x.state = "GREEN" /\ x.until # Absent =>
    /\ x.sha \in Sha /\ x.until \in Nat
    /\ x.until <= w[x.sha] + SnapshotMaxAge
    /\ x.until <= p[x.sha] + ProofMaxAge
    /\ x.until <= g[x.sha] + ProofMaxAge + SnapshotMaxAge + Skew

\* The documents a request holds; those of a request that is done are Absent.
TrueRead(x, w, p, g) ==
  /\ x = [at |-> x.at, began |-> x.began, left |-> x.left, s |-> x.s, d |-> x.d, c |-> x.c, doc |-> x.doc]
  /\ x.began \in Nat
  /\ x.at = "fetch" =>
       /\ x.s # Absent => TrueCore(x.s, w, p)
       /\ x.c # Absent => TrueQuorum(x.c.chain, g)
  /\ x.at = "answer" => TrueDoc(x.doc, w, p, g)

\* Time only grows, and nothing was vouched for in the future.
Clocked ==
  /\ time \in Nat /\ production \in Sha
  /\ {wasLive, provenAt, signedAt} \subseteq [Sha -> Nat]
  /\ wasLive[production] = time
  /\ \A r \in Sha : wasLive[r] <= time /\ provenAt[r] <= time /\ signedAt[r] <= time

Kept ==
  /\ reads = [x \in Read |-> reads[x]]
  /\ \A x \in Read : TrueRead(reads[x], wasLive, provenAt, signedAt)
  /\ edgeCache # Absent => TrueDoc(edgeCache.doc, wasLive, provenAt, signedAt)
  /\ shown # Absent => TrueDoc(shown, wasLive, provenAt, signedAt)

TrustInv ==
  /\ Clocked
  /\ TrueProof(proof, provenAt) /\ TrueQuorum(quorum, signedAt) /\ TrueCore(core, wasLive, provenAt)
  /\ Kept

-----------------------------------------------------------------------------
\* The ghosts only grow.
Later(w, p, g, w2, p2, g2) ==
  /\ {w, p, g, w2, p2, g2} \subseteq [Sha -> Nat]
  /\ \A r \in Sha : w[r] <= w2[r] /\ p[r] <= p2[r] /\ g[r] <= g2[r]

LEMMA ProofStays ==
  ASSUME NEW x, NEW p \in [Sha -> Nat], NEW q \in [Sha -> Nat], TrueProof(x, p), \A r \in Sha : p[r] <= q[r]
  PROVE  TrueProof(x, q)
  BY DEF TrueProof

LEMMA QuorumStays ==
  ASSUME NEW x, NEW p \in [Sha -> Nat], NEW q \in [Sha -> Nat], TrueQuorum(x, p), \A r \in Sha : p[r] <= q[r]
  PROVE  TrueQuorum(x, q)
  BY DEF TrueQuorum

LEMMA CoreStays ==
  ASSUME NEW x, NEW w, NEW p, NEW g, NEW w2, NEW p2, NEW g2, Later(w, p, g, w2, p2, g2), TrueCore(x, w, p)
  PROVE  TrueCore(x, w2, p2)
<1>1. TrueProof(x.proof, p2)
  BY ProofStays DEF Later, TrueCore
<1>2. x.at <= w2[x.sha]
  BY DEF Later, TrueCore
<1> QED
  BY <1>1, <1>2 DEF TrueCore

LEMMA DocStays ==
  ASSUME NEW x, NEW w, NEW p, NEW g, NEW w2, NEW p2, NEW g2, Later(w, p, g, w2, p2, g2), TrueDoc(x, w, p, g)
  PROVE  TrueDoc(x, w2, p2, g2)
<1> SUFFICES ASSUME x.state = "GREEN", x.until # Absent PROVE TrueDoc(x, w2, p2, g2)
  BY DEF TrueDoc
<1>1. /\ x.sha \in Sha /\ x.until \in Nat
      /\ x.until <= w[x.sha] + SnapshotMaxAge
      /\ x.until <= p[x.sha] + ProofMaxAge
      /\ x.until <= g[x.sha] + ProofMaxAge + SnapshotMaxAge + Skew
  BY DEF TrueDoc
<1>2. /\ w[x.sha] \in Nat /\ p[x.sha] \in Nat /\ g[x.sha] \in Nat
      /\ w2[x.sha] \in Nat /\ p2[x.sha] \in Nat /\ g2[x.sha] \in Nat
      /\ w[x.sha] <= w2[x.sha] /\ p[x.sha] <= p2[x.sha] /\ g[x.sha] <= g2[x.sha]
  BY <1>1 DEF Later
<1>3. SnapshotMaxAge \in Nat /\ ProofMaxAge \in Nat /\ Skew \in Nat
  BY TrustAssumption
<1>4. x.until <= w2[x.sha] + SnapshotMaxAge
  BY <1>1, <1>2, <1>3
<1>5. x.until <= p2[x.sha] + ProofMaxAge
  BY <1>1, <1>2, <1>3
<1>6. x.until <= g2[x.sha] + ProofMaxAge + SnapshotMaxAge + Skew
  BY <1>1, <1>2, <1>3
<1> QED
  BY <1>1, <1>4, <1>5, <1>6 DEF TrueDoc

LEMMA ReadStays ==
  ASSUME NEW x, NEW w, NEW p, NEW g, NEW w2, NEW p2, NEW g2, Later(w, p, g, w2, p2, g2), TrueRead(x, w, p, g)
  PROVE  TrueRead(x, w2, p2, g2)
<1>1. x.at = "fetch" /\ x.s # Absent => TrueCore(x.s, w2, p2)
  BY CoreStays DEF TrueRead
<1>2. x.at = "fetch" /\ x.c # Absent => TrueQuorum(x.c.chain, g2)
  BY QuorumStays DEF TrueRead, Later
<1>3. x.at = "answer" => TrueDoc(x.doc, w2, p2, g2)
  BY DocStays DEF TrueRead
<1> QED
  BY <1>1, <1>2, <1>3 DEF TrueRead

\* What is kept stays true while the ghosts grow.
LEMMA KeptStays ==
  ASSUME Kept, Later(wasLive, provenAt, signedAt, wasLive', provenAt', signedAt'),
         UNCHANGED <<reads, edgeCache, shown>>
  PROVE  Kept'
<1>1. \A x \in Read : TrueRead(reads[x], wasLive', provenAt', signedAt')
  BY ReadStays DEF Kept
<1>2. edgeCache # Absent => TrueDoc(edgeCache.doc, wasLive', provenAt', signedAt')
  BY DocStays DEF Kept
<1>3. shown # Absent => TrueDoc(shown, wasLive', provenAt', signedAt')
  BY DocStays DEF Kept
<1> QED
  BY <1>1, <1>2, <1>3 DEF Kept

-----------------------------------------------------------------------------
\* The earlier of two times is one of them and no later than either.
LEMMA Earlier ==
  ASSUME NEW a \in Nat, NEW b \in Nat
  PROVE  LET t == CHOOSE t \in {a, b} : \A u \in {a, b} : t <= u
         IN  t \in Nat /\ t <= a /\ t <= b
<1>1. \E t \in {a, b} : \A u \in {a, b} : t <= u
  <2>1. CASE a <= b
    BY <2>1
  <2>2. CASE ~ a <= b
    BY <2>2
  <2> QED
    BY <2>1, <2>2
<1>2. PICK t \in {a, b} : t = (CHOOSE v \in {a, b} : \A u \in {a, b} : v <= u) /\ \A u \in {a, b} : t <= u
  BY <1>1
<1> QED
  BY <1>2

\* A document derived GREEN from documents that tell the truth tells the truth.
LEMMA DeriveTrue ==
  ASSUME NEW s, NEW d, NEW c, NEW agrees, NEW now \in Nat,
         NEW w \in [Sha -> Nat], NEW p \in [Sha -> Nat], NEW g \in [Sha -> Nat],
         s # Absent => TrueCore(s, w, p),
         c # Absent => TrueQuorum(c.chain, g)
  PROVE  TrueDoc(Derive(s, d, c, agrees, now), w, p, g)
<1> DEFINE doc == Derive(s, d, c, agrees, now)
<1> SUFFICES ASSUME doc.state = "GREEN", doc.until # Absent PROVE TrueDoc(doc, w, p, g)
  BY DEF TrueDoc
<1>1. Proved(s, c, now) /\ s.proof.complete /\ QuorumOk(s, c, now)
  BY DEF Derive
<1>2. s # Absent /\ s.proof.sha = s.sha /\ now <= s.at + SnapshotMaxAge /\ s.at <= now + Skew
  BY <1>1 DEF Proved, Current
<1>3. c # Absent /\ c.chain.sha = s.sha /\ now <= c.chain.at + ProofMaxAge
  BY <1>1 DEF QuorumOk, Current
<1>4. /\ s.sha \in Sha /\ s.at \in Nat /\ s.at <= w[s.sha]
      /\ s.proof.at \in Nat /\ s.proof.at <= p[s.sha]
  BY <1>1, <1>2 DEF TrueCore, TrueProof
<1>5. c.chain.at \in Nat /\ c.chain.at <= g[s.sha]
  BY <1>3 DEF TrueQuorum
<1>6. SnapshotMaxAge \in Nat /\ ProofMaxAge \in Nat /\ Skew \in Nat
  BY TrustAssumption
<1>7. PICK a \in Nat, b \in Nat : a = s.at + SnapshotMaxAge /\ b = s.proof.at + ProofMaxAge
  BY <1>4, <1>6
<1>8. doc.sha = s.sha /\ doc.until = (CHOOSE t \in {a, b} : \A u \in {a, b} : t <= u)
  BY <1>2, <1>7 DEF Derive
<1>9. doc.until \in Nat /\ doc.until <= a /\ doc.until <= b
  BY <1>8, Earlier
<1>10. w[s.sha] \in Nat /\ p[s.sha] \in Nat /\ g[s.sha] \in Nat
  BY <1>4
<1> HIDE DEF doc
<1>11. doc.until <= w[s.sha] + SnapshotMaxAge
  BY <1>4, <1>6, <1>7, <1>9, <1>10
<1>12. doc.until <= p[s.sha] + ProofMaxAge
  BY <1>4, <1>6, <1>7, <1>9, <1>10
<1>13. doc.until <= g[s.sha] + ProofMaxAge + SnapshotMaxAge + Skew
  BY <1>2, <1>3, <1>4, <1>5, <1>6, <1>7, <1>9, <1>10
<1>14. TrueDoc(doc, w, p, g)
  BY <1>4, <1>8, <1>9, <1>11, <1>12, <1>13 DEF TrueDoc
<1> QED
  BY <1>14 DEF doc


-----------------------------------------------------------------------------
LEMMA TrustStarts == TrustInit => TrustInv
<1> SUFFICES ASSUME TrustInit PROVE TrustInv
  OBVIOUS
<1> USE DEF TrustInit
<1>1. SnapshotMaxAge \in Nat /\ ProofMaxAge \in Nat /\ Skew \in Nat
  BY TrustAssumption
<1>2. Start \in Nat /\ Start - 1 \in Nat /\ Start - 1 <= Start
  BY <1>1 DEF Start
<1>3. Clocked
  BY <1>2 DEF Clocked
<1>4. TrueProof(proof, provenAt) /\ TrueQuorum(quorum, signedAt)
  BY <1>2 DEF TrueProof, TrueQuorum
<1>5. TrueCore(core, wasLive, provenAt)
  BY <1>2, <1>4 DEF TrueCore
<1>6. Kept
  BY DEF Kept, TrueRead, NoRead
<1> QED
  BY <1>3, <1>4, <1>5, <1>6 DEF TrustInv

LEMMA TickTrue == TrustInv /\ Tick => TrustInv'
<1> SUFFICES ASSUME TrustInv, Tick PROVE TrustInv'
  OBVIOUS
<1>1. Clocked' /\ Later(wasLive, provenAt, signedAt, wasLive', provenAt', signedAt')
  BY DEF TrustInv, Clocked, Tick, Later
<1>2. UNCHANGED <<production, proof, quorum, core, edgeCache, reads, shown, provenAt, signedAt>>
  BY DEF Tick, docs
<1>3. Kept'
  BY <1>1, <1>2, KeptStays DEF TrustInv
<1>4. TrueCore(core, wasLive, provenAt)' /\ TrueProof(proof, provenAt)' /\ TrueQuorum(quorum, signedAt)'
  BY <1>1, <1>2, CoreStays DEF TrustInv
<1> QED
  BY <1>1, <1>3, <1>4 DEF TrustInv

LEMMA PromoteTrue == TrustInv /\ Promote => TrustInv'
<1> SUFFICES ASSUME TrustInv, Promote PROVE TrustInv'
  OBVIOUS
<1>1. Clocked' /\ Later(wasLive, provenAt, signedAt, wasLive', provenAt', signedAt')
  BY DEF TrustInv, Clocked, Promote, Later
<1>2. UNCHANGED <<proof, quorum, core, edgeCache, reads, shown, provenAt, signedAt>>
  BY DEF Promote, docs
<1>3. Kept'
  BY <1>1, <1>2, KeptStays DEF TrustInv
<1>4. TrueCore(core, wasLive, provenAt)' /\ TrueProof(proof, provenAt)' /\ TrueQuorum(quorum, signedAt)'
  BY <1>1, <1>2, CoreStays DEF TrustInv
<1> QED
  BY <1>1, <1>3, <1>4 DEF TrustInv

LEMMA PublishTrue == TrustInv /\ Publish => TrustInv'
<1> SUFFICES ASSUME TrustInv, Publish PROVE TrustInv'
  OBVIOUS
<1>0. UNCHANGED <<time, production, edgeCache, reads, shown, wasLive>>
  BY DEF Publish
<1>1. ASSUME NEW complete \in BOOLEAN, proof' = [sha |-> production, at |-> time, complete |-> complete],
             provenAt' = IF complete THEN [provenAt EXCEPT ![production] = time] ELSE provenAt,
             UNCHANGED <<quorum, core, signedAt>>
      PROVE  TrustInv'
  <2>1. Clocked' /\ Later(wasLive, provenAt, signedAt, wasLive', provenAt', signedAt')
    BY <1>0, <1>1 DEF TrustInv, Clocked, Later
  <2>2. TrueProof(proof, provenAt)'
    BY <1>1 DEF TrueProof, TrustInv, Clocked
  <2>3. Kept'
    BY <1>0, <2>1, KeptStays DEF TrustInv
  <2>4. TrueCore(core, wasLive, provenAt)' /\ TrueQuorum(quorum, signedAt)'
    BY <1>1, <2>1, CoreStays DEF TrustInv
  <2> QED
    BY <2>1, <2>2, <2>3, <2>4 DEF TrustInv
<1>2. ASSUME quorum' = [sha |-> production, at |-> time],
             signedAt' = [signedAt EXCEPT ![production] = time], UNCHANGED <<proof, core, provenAt>>
      PROVE  TrustInv'
  <2>1. Clocked' /\ Later(wasLive, provenAt, signedAt, wasLive', provenAt', signedAt')
    BY <1>0, <1>2 DEF TrustInv, Clocked, Later
  <2>2. TrueQuorum(quorum, signedAt)'
    BY <1>2 DEF TrueQuorum, TrustInv, Clocked
  <2>3. Kept'
    BY <1>0, <2>1, KeptStays DEF TrustInv
  <2>4. TrueCore(core, wasLive, provenAt)' /\ TrueProof(proof, provenAt)'
    BY <1>2, <2>1, CoreStays DEF TrustInv
  <2> QED
    BY <2>1, <2>2, <2>3, <2>4 DEF TrustInv
<1>3. ASSUME NEW v \in Verdicts, core' = [sha |-> production, at |-> time, proof |-> proof, verdict |-> v],
             UNCHANGED <<proof, quorum, provenAt, signedAt>>
      PROVE  TrustInv'
  <2>1. TrueCore(core, wasLive, provenAt)'
    BY <1>0, <1>3 DEF TrueCore, TrustInv, Clocked
  <2>2. Clocked' /\ Kept' /\ TrueProof(proof, provenAt)' /\ TrueQuorum(quorum, signedAt)'
    BY <1>0, <1>3 DEF TrustInv, Clocked, Kept
  <2> QED
    BY <2>1, <2>2 DEF TrustInv
<1> QED
  BY <1>1, <1>2, <1>3 DEF Publish

\* What a step of a request leaves alone.
LEMMA Frame ==
  ASSUME TrustInv, UNCHANGED <<time, production, docs, ghosts>>, Kept'
  PROVE  TrustInv'
  BY DEF TrustInv, Clocked, docs, ghosts

LEMMA AskTrue == ASSUME NEW x \in Read PROVE TrustInv /\ Ask(x) => TrustInv'
<1> SUFFICES ASSUME TrustInv, Ask(x) PROVE TrustInv'
  OBVIOUS
<1>1. UNCHANGED <<time, production, docs, ghosts, edgeCache, shown>>
  BY DEF Ask
<1>2. PICK y : y = IF edgeCache # Absent /\ time <= edgeCache.until
                     THEN [NoRead EXCEPT !.at = "answer", !.doc = edgeCache.doc]
                     ELSE [NoRead EXCEPT !.at = "fetch", !.began = time, !.left = {"s", "d", "c"}]
  OBVIOUS
<1>3. reads' = [reads EXCEPT ![x] = y]
  BY <1>2 DEF Ask
<1>4. TrueRead(y, wasLive, provenAt, signedAt)
  <2>1. CASE edgeCache # Absent /\ time <= edgeCache.until
    BY <1>2, <2>1 DEF NoRead, TrueRead, TrustInv, Kept
  <2>2. CASE ~(edgeCache # Absent /\ time <= edgeCache.until)
    BY <1>2, <2>2 DEF NoRead, TrueRead, TrustInv, Clocked
  <2> QED
    BY <2>1, <2>2
<1>5. Kept'
  BY <1>1, <1>3, <1>4 DEF TrustInv, Kept, ghosts
<1> QED
  BY <1>1, <1>5, Frame

LEMMA DeliverTrue == ASSUME NEW x \in Read PROVE TrustInv /\ Deliver(x) => TrustInv'
<1> SUFFICES ASSUME TrustInv, Deliver(x) PROVE TrustInv'
  OBVIOUS
<1>1. UNCHANGED <<time, production, docs, ghosts, edgeCache>>
  BY DEF Deliver
<1>2. reads' = [reads EXCEPT ![x] = NoRead]
  BY DEF Deliver
<1>3. TrueRead(NoRead, wasLive, provenAt, signedAt)
  BY DEF NoRead, TrueRead
<1>4. shown' # Absent => TrueDoc(shown', wasLive, provenAt, signedAt)
  BY DEF Deliver, TrustInv, Kept, TrueRead
<1>5. Kept'
  BY <1>1, <1>2, <1>3, <1>4 DEF TrustInv, Kept, ghosts
<1> QED
  BY <1>1, <1>5, Frame

\* A document fetched is one published: what the core or the quorum says is true of it.
LEMMA FetchTrue == ASSUME NEW x \in Read PROVE TrustInv /\ Fetch(x) => TrustInv'
<1> SUFFICES ASSUME TrustInv, Fetch(x) PROVE TrustInv'
  OBVIOUS
<1>1. UNCHANGED <<time, production, docs, ghosts, shown>>
  BY DEF Fetch
<1>2. PICK part \in reads[x].left :
        LET got == [reads[x] EXCEPT
                     !.left = @ \ {part},
                     !.s = IF part = "s" THEN core ELSE @,
                     !.d = IF part = "d" THEN core ELSE @,
                     !.c = IF part = "c" THEN [sha |-> production, chain |-> quorum] ELSE @]
        IN  IF got.left # {}
              THEN reads' = [reads EXCEPT ![x] = got] /\ UNCHANGED edgeCache
              ELSE \E fault \in {"none", "s", "d", "c", "contradicts"} :
                     LET of(q, doc) == IF q = fault THEN Absent ELSE doc
                         doc == Derive(of("s", got.s), of("d", got.d), of("c", got.c),
                                       fault # "contradicts", got.began)
                     IN  /\ reads' = [reads EXCEPT ![x] = [NoRead EXCEPT !.at = "answer", !.doc = doc]]
                         /\ edgeCache' \in {edgeCache, [doc |-> doc, until |-> time + CacheTtl]}
  BY DEF Fetch
<1>3. PICK got : got = [reads[x] EXCEPT
                     !.left = @ \ {part},
                     !.s = IF part = "s" THEN core ELSE @,
                     !.d = IF part = "d" THEN core ELSE @,
                     !.c = IF part = "c" THEN [sha |-> production, chain |-> quorum] ELSE @]
  OBVIOUS
<1>4. IF got.left # {}
        THEN reads' = [reads EXCEPT ![x] = got] /\ UNCHANGED edgeCache
        ELSE \E fault \in {"none", "s", "d", "c", "contradicts"} :
               LET of(q, doc) == IF q = fault THEN Absent ELSE doc
                   doc == Derive(of("s", got.s), of("d", got.d), of("c", got.c),
                                 fault # "contradicts", got.began)
               IN  /\ reads' = [reads EXCEPT ![x] = [NoRead EXCEPT !.at = "answer", !.doc = doc]]
                   /\ edgeCache' \in {edgeCache, [doc |-> doc, until |-> time + CacheTtl]}
  BY <1>2, <1>3
<1>5. reads[x].at = "fetch" /\ TrueRead(reads[x], wasLive, provenAt, signedAt)
  BY DEF Fetch, TrustInv, Kept
<1>6. PICK r : r = reads[x]
  OBVIOUS
<1>7. /\ got.at = r.at /\ got.began = r.began /\ got.left = r.left \ {part} /\ got.doc = r.doc
      /\ got.s = IF part = "s" THEN core ELSE r.s
      /\ got.d = IF part = "d" THEN core ELSE r.d
      /\ got.c = IF part = "c" THEN [sha |-> production, chain |-> quorum] ELSE r.c
      /\ got = [at |-> got.at, began |-> got.began, left |-> got.left, s |-> got.s, d |-> got.d,
                c |-> got.c, doc |-> got.doc]
  <2>1. r = [at |-> r.at, began |-> r.began, left |-> r.left, s |-> r.s, d |-> r.d, c |-> r.c, doc |-> r.doc]
    BY <1>5, <1>6 DEF TrueRead
  <2>2. got = [at |-> r.at, began |-> r.began, left |-> r.left \ {part},
               s |-> IF part = "s" THEN core ELSE r.s,
               d |-> IF part = "d" THEN core ELSE r.d,
               c |-> IF part = "c" THEN [sha |-> production, chain |-> quorum] ELSE r.c,
               doc |-> r.doc]
    BY <1>3, <1>6, <2>1
  <2> QED
    BY <2>2
<1>8. got.s # Absent => TrueCore(got.s, wasLive, provenAt)
  BY <1>5, <1>6, <1>7 DEF TrueRead, TrustInv
<1>9. got.c # Absent => TrueQuorum(got.c.chain, signedAt)
  <2>1. TrueQuorum([sha |-> production, chain |-> quorum].chain, signedAt)
    BY DEF TrustInv
  <2> QED
    BY <1>5, <1>6, <1>7, <2>1 DEF TrueRead
<1>10. got.at = "fetch" /\ got.began \in Nat
  BY <1>5, <1>6, <1>7 DEF TrueRead
<1>11. CASE got.left # {}
  <2>1. TrueRead(got, wasLive, provenAt, signedAt)
    BY <1>7, <1>8, <1>9, <1>10 DEF TrueRead
  <2>2. reads' = [reads EXCEPT ![x] = got] /\ UNCHANGED edgeCache
    BY <1>4, <1>11
  <2>3. Kept'
    BY <1>1, <2>1, <2>2 DEF TrustInv, Kept, ghosts
  <2> QED
    BY <1>1, <2>3, Frame
<1>12. CASE got.left = {}
  <2>1. PICK fault \in {"none", "s", "d", "c", "contradicts"} :
          LET of(q, doc) == IF q = fault THEN Absent ELSE doc
              doc == Derive(of("s", got.s), of("d", got.d), of("c", got.c), fault # "contradicts", got.began)
          IN  /\ reads' = [reads EXCEPT ![x] = [NoRead EXCEPT !.at = "answer", !.doc = doc]]
              /\ edgeCache' \in {edgeCache, [doc |-> doc, until |-> time + CacheTtl]}
    BY <1>4, <1>12
  <2>2. PICK s, d, c, agrees : /\ s = IF fault = "s" THEN Absent ELSE got.s
                               /\ d = IF fault = "d" THEN Absent ELSE got.d
                               /\ c = IF fault = "c" THEN Absent ELSE got.c
                               /\ agrees = (fault # "contradicts")
    OBVIOUS
  <2>3. PICK doc : doc = Derive(s, d, c, agrees, got.began)
    OBVIOUS
  <2>4. /\ reads' = [reads EXCEPT ![x] = [NoRead EXCEPT !.at = "answer", !.doc = doc]]
        /\ edgeCache' \in {edgeCache, [doc |-> doc, until |-> time + CacheTtl]}
    BY <2>1, <2>2, <2>3
  <2>5. /\ s # Absent => TrueCore(s, wasLive, provenAt)
        /\ c # Absent => TrueQuorum(c.chain, signedAt)
    BY <1>8, <1>9, <2>2
  <2>6. wasLive \in [Sha -> Nat] /\ provenAt \in [Sha -> Nat] /\ signedAt \in [Sha -> Nat]
    BY DEF TrustInv, Clocked
  <2>7. TrueDoc(doc, wasLive, provenAt, signedAt)
    BY <1>10, <2>3, <2>5, <2>6, DeriveTrue
  <2>8. TrueRead([NoRead EXCEPT !.at = "answer", !.doc = doc], wasLive, provenAt, signedAt)
    <3>1. PICK y : y = [NoRead EXCEPT !.at = "answer", !.doc = doc]
      OBVIOUS
    <3>2. y = [at |-> "answer", began |-> 0, left |-> {}, s |-> Absent, d |-> Absent, c |-> Absent, doc |-> doc]
      BY <3>1 DEF NoRead
    <3>3. TrueRead(y, wasLive, provenAt, signedAt)
      BY <2>7, <3>2 DEF TrueRead
    <3> QED
      BY <3>1, <3>3, Zenon
  <2>9. edgeCache' # Absent => TrueDoc(edgeCache'.doc, wasLive, provenAt, signedAt)
    BY <2>4, <2>7 DEF TrustInv, Kept
  <2>10. Kept'
    BY <1>1, <2>4, <2>8, <2>9 DEF TrustInv, Kept, ghosts
  <2> QED
    BY <1>1, <2>10, Frame
<1> QED
  BY <1>11, <1>12

LEMMA TrustStep == TrustInv /\ [TrustNext]_trustVars => TrustInv'
<1> SUFFICES ASSUME TrustInv, [TrustNext]_trustVars PROVE TrustInv'
  OBVIOUS
<1>1. CASE UNCHANGED trustVars
  BY <1>1 DEF trustVars, docs, ghosts, TrustInv, Clocked, Kept
<1>2. CASE TrustNext
  BY <1>2, AskTrue, FetchTrue, DeliverTrue, TickTrue, PromoteTrue, PublishTrue DEF TrustNext
<1> QED
  BY <1>1, <1>2

\* Time has not passed the document's end, which its release can still claim.
LEMMA TrustImplies == TrustInv => GreenWasLive
<1> SUFFICES ASSUME TrustInv, View(shown) = "GREEN" PROVE GreenWasLive
  BY DEF GreenWasLive
<1>1. shown # Absent /\ shown.until # Absent /\ ~ time > shown.until /\ shown.state = "GREEN"
  BY DEF View
<1>2. TrueDoc(shown, wasLive, provenAt, signedAt)
  BY <1>1 DEF TrustInv, Kept
<1>3. PICK t, u : t = time /\ u = shown.until
  OBVIOUS
<1>4. PICK w, p, g : w = wasLive[shown.sha] /\ p = provenAt[shown.sha] /\ g = signedAt[shown.sha]
  OBVIOUS
<1>5. /\ t \in Nat /\ u \in Nat /\ t <= u /\ w \in Nat /\ p \in Nat /\ g \in Nat
      /\ u <= w + SnapshotMaxAge
      /\ u <= p + ProofMaxAge
      /\ u <= g + ProofMaxAge + SnapshotMaxAge + Skew
  BY <1>1, <1>2, <1>3, <1>4 DEF TrueDoc, TrustInv, Clocked
<1>6. SnapshotMaxAge \in Nat /\ ProofMaxAge \in Nat /\ Skew \in Nat
  BY TrustAssumption
<1>7. /\ t <= w + SnapshotMaxAge
      /\ t <= p + ProofMaxAge
      /\ t <= g + ProofMaxAge + SnapshotMaxAge + Skew
  BY <1>5, <1>6
<1> QED
  BY <1>3, <1>4, <1>7 DEF GreenWasLive

(***************************************************************************)
(* Whenever the panel draws GREEN the release it speaks of was in          *)
(* production within the age of a snapshot, completely proved within the   *)
(* age of a proof and signed by a quorum of its own (deriveGlobalTrust and *)
(* trustView), for every age, every number of requests and every order of  *)
(* reads, cached copies, promotions and publications.                      *)
(***************************************************************************)
THEOREM TrustGreenWasLive == TrustSpec => []GreenWasLive
<1>1. TrustInit => TrustInv
  BY TrustStarts
<1>2. TrustInv /\ [TrustNext]_trustVars => TrustInv'
  BY TrustStep
<1>3. TrustInv => GreenWasLive
  BY TrustImplies
<1> QED
  BY <1>1, <1>2, <1>3, PTL DEF TrustSpec

-----------------------------------------------------------------------------
(* Induction over the naturals *)

\* A set of naturals that is not empty has a least element.
LEMMA LeastNat ==
  ASSUME NEW T, T \subseteq Nat, T # {}
  PROVE  \E x \in T : \A y \in T : x <= y
<1>1. \A y, x \in Nat : y < x => <<y, x>> \in OpToRel(<, Nat)
  BY DEF OpToRel
<1>2. PICK x \in T : \A y \in T : ~(<<y, x>> \in OpToRel(<, Nat))
  BY NatLessThanWellFounded, WFMin, Zenon
<1>3. ASSUME NEW y \in T PROVE x <= y
  <2>1. ~(y < x)
    BY <1>1, <1>2, Zenon
  <2>. QED
    BY <2>1
<1>. QED
  BY <1>3

\* Induction, with the property as a set of naturals.
LEMMA NatSet ==
  ASSUME NEW T, T \subseteq Nat, 0 \in T, \A n \in T : n + 1 \in T
  PROVE  \A n \in Nat : n \in T
<1>1. SUFFICES ASSUME Nat \ T # {} PROVE FALSE
  OBVIOUS
<1>2. PICK x \in Nat \ T : \A y \in Nat \ T : x <= y
  BY <1>1, LeastNat, Zenon
<1>3. x - 1 \in Nat /\ x - 1 \in T /\ x - 1 + 1 = x
  BY <1>2
<1>. QED
  BY <1>2, <1>3

-----------------------------------------------------------------------------
(* Sums of occurrences *)

\* f holds the partial sums of what the rows of S contribute.
Share(rs, S, n) == IF n \in S THEN rs[n].occ ELSE 0
Sums(f, rs, S) ==
  /\ f \in [0..Len(rs) -> Nat] /\ f[0] = 0
  /\ \A n \in 1..Len(rs) : f[n] = f[n - 1] + Share(rs, S, n)

\* There are such sums, up to any number of rows.
LEMMA PartialSums ==
  ASSUME NEW L \in Nat, NEW c, \A n \in 1..L : c[n] \in Nat
  PROVE  \E g \in [0..L -> Nat] : g[0] = 0 /\ \A n \in 1..L : g[n] = g[n - 1] + c[n]
<1> DEFINE P(g, m) == g[0] = 0 /\ \A n \in 1..m : g[n] = g[n - 1] + c[n]
           T == {m \in Nat : m <= L => \E g \in [0..m -> Nat] : P(g, m)}
<1>1. 0 \in T
  <2>1. PICK g : g = [n \in 0..0 |-> 0]
    OBVIOUS
  <2>2. g \in [0..0 -> Nat] /\ P(g, 0)
    BY <2>1
  <2>. QED
    BY <2>2
<1>2. ASSUME NEW m \in T PROVE m + 1 \in T
  <2>1. SUFFICES ASSUME m + 1 <= L PROVE \E g \in [0..(m + 1) -> Nat] : P(g, m + 1)
    OBVIOUS
  <2>2. PICK g \in [0..m -> Nat] : P(g, m)
    BY <2>1
  <2>3. PICK h : h = [n \in 0..(m + 1) |-> IF n <= m THEN g[n] ELSE g[m] + c[m + 1]]
    OBVIOUS
  <2>4. c[m + 1] \in Nat /\ g[m] \in Nat
    BY <2>1, <2>2
  <2>5. h \in [0..(m + 1) -> Nat] /\ h[0] = 0
    BY <2>2, <2>3, <2>4
  <2>6. \A n \in 1..(m + 1) : h[n] = h[n - 1] + c[n]
    <3>1. ASSUME NEW n \in 1..m PROVE h[n] = h[n - 1] + c[n]
      BY <2>2, <2>3
    <3>2. ASSUME NEW n \in Nat, n = m + 1 PROVE h[n] = h[n - 1] + c[n]
      <4>1. h[n] = g[m] + c[n] /\ h[m] = g[m] /\ n - 1 = m
        BY <2>3, <3>2
      <4>. QED
        BY <4>1
    <3>3. \A n \in 1..(m + 1) : n \in 1..m \/ (n \in Nat /\ n = m + 1)
      OBVIOUS
    <3>. QED
      BY <3>1, <3>2, <3>3
  <2>. QED
    BY <2>5, <2>6
<1>3. T \subseteq Nat
  OBVIOUS
<1>4. L \in T
  <2>. HIDE DEF T
  <2>. QED
    BY <1>1, <1>2, <1>3, NatSet, Zenon
<1>5. \E g \in [0..L -> Nat] : P(g, L)
  <2>. HIDE DEF P
  <2>. QED
    BY <1>4
<1>. QED
  BY <1>5, Zenon

\* Only one function has them.
AddsUp(f, c, L) == f[0] = 0 /\ \A n \in 1..L : f[n] = f[n - 1] + c[n]
LEMMA SumsUnique ==
  ASSUME NEW L \in Nat, NEW c, NEW f, NEW g, AddsUp(f, c, L), AddsUp(g, c, L)
  PROVE  \A n \in 0..L : f[n] = g[n]
<1> DEFINE T == {n \in Nat : n <= L => f[n] = g[n]}
<1>1. 0 \in T
  BY DEF AddsUp
<1>2. ASSUME NEW m \in T PROVE m + 1 \in T
  BY m + 1 - 1 = m DEF AddsUp
<1>3. T \subseteq Nat
  OBVIOUS
<1>4. \A n \in Nat : n \in T
  <2>. HIDE DEF T
  <2>. QED
    BY <1>1, <1>2, <1>3, NatSet, Zenon
<1>. QED
  BY <1>4

IncRow == [occ : Nat, active : BOOLEAN]

\* Occurrences is the last of the partial sums.
LEMMA OccurrencesAre ==
  ASSUME NEW rs \in Seq(IncRow), NEW S
  PROVE  \E f : Sums(f, rs, S) /\ Occurrences(rs, S) = f[Len(rs)]
<1> DEFINE L == Len(rs)
           R(g) == [n \in 0..L |-> IF n = 0 THEN 0 ELSE g[n - 1] + IF n \in S THEN rs[n].occ ELSE 0]
<1>1. PICK c : c = [n \in 1..L |-> IF n \in S THEN rs[n].occ ELSE 0]
  OBVIOUS
<1>2. L \in Nat /\ \A n \in 1..L : c[n] \in Nat
  <2>1. L \in Nat /\ DOMAIN rs = 1..L
    OBVIOUS
  <2>2. \A n \in 1..L : rs[n].occ \in Nat
    <3>1. rs \in [1..L -> IncRow]
      OBVIOUS
    <3>. QED
      BY <3>1 DEF IncRow
  <2>. QED
    BY <1>1, <2>1, <2>2
<1>3. PICK g \in [0..L -> Nat] : g[0] = 0 /\ \A n \in 1..L : g[n] = g[n - 1] + c[n]
  BY <1>2, PartialSums
<1>4. g = R(g)
  <2>1. \A n \in 0..L : g[n] = IF n = 0 THEN 0 ELSE g[n - 1] + IF n \in S THEN rs[n].occ ELSE 0
    BY <1>1, <1>2, <1>3
  <2>. QED
    BY <1>3, <2>1
<1>5. PICK f : f = CHOOSE h : h = R(h)
  OBVIOUS
<1>6. f = R(f)
  <2>. HIDE DEF R
  <2>. QED
    BY <1>4, <1>5, Zenon
<1>7. f[0] = 0 /\ \A n \in 1..L : f[n] = f[n - 1] + c[n]
  BY <1>1, <1>2, <1>6
<1>8. \A n \in 0..L : f[n] = g[n]
  <2>1. AddsUp(f, c, L) /\ AddsUp(g, c, L)
    BY <1>3, <1>7 DEF AddsUp
  <2>. QED
    BY <1>2, <2>1, SumsUnique
<1>9. f \in [0..L -> Nat]
  BY <1>3, <1>6, <1>8
<1>10. Occurrences(rs, S) = f[L]
  BY <1>5, Zenon DEF Occurrences
<1>11. Sums(f, rs, S)
  BY <1>1, <1>7, <1>9 DEF Sums, Share
<1>. QED
  BY <1>10, <1>11

\* What the partial sums say of another function that adds up the same shares.
LEMMA SumsAs ==
  ASSUME NEW L \in Nat, NEW rs, Len(rs) = L, NEW S, NEW f, Sums(f, rs, S),
         NEW c, \A n \in 1..L : c[n] = Share(rs, S, n), NEW g, AddsUp(g, c, L)
  PROVE  f[L] = g[L]
<1>1. AddsUp(f, c, L)
  BY DEF Sums, AddsUp
<1>. QED
  BY <1>1, SumsUnique

\* Rows that contribute the same make the same sum.
LEMMA SumsSame ==
  ASSUME NEW rs \in Seq(IncRow), NEW ss \in Seq(IncRow), Len(rs) = Len(ss), NEW S, NEW U,
         \A n \in 1..Len(rs) : Share(rs, S, n) = Share(ss, U, n)
  PROVE  Occurrences(rs, S) = Occurrences(ss, U)
<1>1. PICK f : Sums(f, rs, S) /\ Occurrences(rs, S) = f[Len(rs)]
  BY OccurrencesAre
<1>2. PICK g : Sums(g, ss, U) /\ Occurrences(ss, U) = g[Len(ss)]
  BY OccurrencesAre
<1>3. PICK L, c : L = Len(rs) /\ c = [n \in 1..L |-> Share(rs, S, n)]
  OBVIOUS
<1>4. L \in Nat /\ \A n \in 1..L : c[n] = Share(rs, S, n)
  BY <1>3
<1>5. AddsUp(g, c, L)
  BY <1>2, <1>3, <1>4 DEF Sums, AddsUp
<1>6. Len(rs) = L /\ Len(ss) = L
  BY <1>3
<1>7. f[L] = g[L]
  BY <1>1, <1>4, <1>5, <1>6, SumsAs
<1>. QED
  BY <1>1, <1>2, <1>6, <1>7

\* No rows, no occurrences.
LEMMA SumsNone ==
  ASSUME NEW rs \in Seq(IncRow), NEW S, \A n \in 1..Len(rs) : n \notin S
  PROVE  Occurrences(rs, S) = 0
<1>1. PICK f : Sums(f, rs, S) /\ Occurrences(rs, S) = f[Len(rs)]
  BY OccurrencesAre
<1>2. PICK L, c, g : L = Len(rs) /\ c = [n \in 1..L |-> 0] /\ g = [n \in 0..L |-> 0]
  OBVIOUS
<1>3. L \in Nat /\ Len(rs) = L
  BY <1>2
<1>4. \A n \in 1..L : c[n] = Share(rs, S, n)
  BY <1>2 DEF Share
<1>5. AddsUp(g, c, L) /\ g[L] = 0
  BY <1>2, <1>3 DEF AddsUp
<1>6. f[L] = g[L]
  BY <1>1, <1>3, <1>4, <1>5, SumsAs
<1>. QED
  BY <1>1, <1>3, <1>5, <1>6

\* A row at the end adds what it contributes.
LEMMA SumsAppend ==
  ASSUME NEW rs \in Seq(IncRow), NEW r \in IncRow, NEW S, Len(rs) + 1 \in S
  PROVE  Occurrences(Append(rs, r), S) = Occurrences(rs, S) + r.occ
<1>1. PICK ss, L : ss = Append(rs, r) /\ L = Len(rs)
  OBVIOUS
<1>2. /\ ss \in Seq(IncRow) /\ L \in Nat /\ Len(ss) = L + 1 /\ ss[L + 1] = r
      /\ \A n \in 1..L : ss[n] = rs[n]
  BY <1>1
<1>3. PICK f : Sums(f, rs, S) /\ Occurrences(rs, S) = f[L]
  BY <1>1, OccurrencesAre
<1>4. PICK g : Sums(g, ss, S) /\ Occurrences(ss, S) = g[L + 1]
  BY <1>2, OccurrencesAre
<1>5. PICK c : c = [n \in 1..L |-> Share(rs, S, n)]
  OBVIOUS
<1>6. \A n \in 1..L : c[n] = Share(rs, S, n)
  BY <1>5
<1>7. \A n \in 1..L : n \in 1..(L + 1) /\ Share(ss, S, n) = c[n]
  BY <1>2, <1>6 DEF Share
<1>8. AddsUp(g, c, L)
  BY <1>2, <1>4, <1>7 DEF Sums, AddsUp
<1>9. f[L] = g[L]
  <2>1. Len(rs) = L /\ L \in Nat /\ Sums(f, rs, S)
    BY <1>1, <1>2, <1>3
  <2>. QED
    BY <1>6, <1>8, <2>1, SumsAs
<1>10. g[L + 1] = g[L] + r.occ
  <2>1. PICK n : n = L + 1
    OBVIOUS
  <2>2. n \in 1..Len(ss) /\ n - 1 = L /\ Share(ss, S, n) = r.occ
    BY <1>1, <1>2, <2>1 DEF Share
  <2>3. g[n] = g[n - 1] + Share(ss, S, n)
    BY <1>4, <2>2 DEF Sums
  <2>. QED
    BY <2>1, <2>2, <2>3
<1>. QED
  BY <1>1, <1>3, <1>4, <1>9, <1>10

\* Row K takes over the occurrences of the rows M, and one more.
MergedInto(rs, ss, A, M, K) ==
  /\ Len(rs) = Len(ss) /\ M \subseteq A /\ K \in M /\ K \in 1..Len(rs)
  /\ ss[K].occ = Occurrences(rs, M) + 1
  /\ \A n \in 1..Len(rs) : n \notin M => ss[n].occ = rs[n].occ
LEMMA SumsMerge ==
  ASSUME NEW rs \in Seq(IncRow), NEW ss \in Seq(IncRow), NEW A, NEW M, NEW K,
         MergedInto(rs, ss, A, M, K)
  PROVE  Occurrences(ss, (A \ M) \union {K}) = Occurrences(rs, A) + 1
<1>1. /\ Len(rs) = Len(ss) /\ M \subseteq A /\ K \in M /\ K \in 1..Len(rs)
      /\ ss[K].occ = Occurrences(rs, M) + 1
      /\ \A n \in 1..Len(rs) : n \notin M => ss[n].occ = rs[n].occ
  BY DEF MergedInto
<1>2. PICK L, H, B : L = Len(rs) /\ H = Occurrences(rs, M) /\ B = (A \ M) \union {K}
  OBVIOUS
<1>3. L = Len(rs) /\ L = Len(ss) /\ H = Occurrences(rs, M)
  BY <1>1, <1>2
<1>4. /\ B = (A \ M) \union {K} /\ M \subseteq A /\ K \in M /\ ss[K].occ = H + 1
      /\ \A n \in 1..L : n \notin M => ss[n].occ = rs[n].occ
  BY <1>1, <1>2
<1>5. PICK f : Sums(f, rs, A) /\ Occurrences(rs, A) = f[L]
  BY <1>3, OccurrencesAre
<1>6. PICK h : Sums(h, rs, M) /\ H = h[L]
  BY <1>3, OccurrencesAre
<1>7. PICK g : Sums(g, ss, B) /\ Occurrences(ss, B) = g[L]
  BY <1>3, OccurrencesAre
<1>8. L \in Nat /\ \A n \in 0..L : f[n] \in Nat /\ g[n] \in Nat /\ h[n] \in Nat
  BY <1>3, <1>5, <1>6, <1>7 DEF Sums
<1>9. H \in Nat
  BY <1>6, <1>8
<1>10. K \in 1..L /\ K \in Nat /\ K # 0
  BY <1>1, <1>3
<1> DEFINE Gain(n) == IF n < K THEN 0 ELSE H + 1
           T == {n \in Nat : n <= L => g[n] + h[n] = f[n] + Gain(n)}
<1>11. 0 \in T
  BY <1>5, <1>6, <1>7, <1>10 DEF Sums
<1>12. ASSUME NEW m \in T PROVE m + 1 \in T
  <2>1. SUFFICES ASSUME NEW n \in Nat, n = m + 1, n <= L PROVE g[n] + h[n] = f[n] + Gain(n)
    OBVIOUS
  <2>2. n - 1 = m /\ n \in 1..L /\ g[m] + h[m] = f[m] + Gain(m) /\ m \in 0..L
    BY <2>1, <1>8
  <2>3. /\ f[n] = f[m] + Share(rs, A, n) /\ h[n] = h[m] + Share(rs, M, n)
        /\ g[n] = g[m] + Share(ss, B, n)
    BY <1>3, <1>5, <1>6, <1>7, <2>2 DEF Sums
  <2>4. rs[n].occ \in Nat /\ f[m] \in Nat /\ g[m] \in Nat /\ h[m] \in Nat
    <3>1. n \in 1..Len(rs)
      BY <1>3, <2>2, Zenon
    <3>2. rs[n] \in IncRow
      BY <3>1
    <3>. QED
      BY <1>8, <2>2, <3>2 DEF IncRow
  <2>5. CASE n = K
    <3>1. Share(rs, A, n) = rs[n].occ /\ Share(rs, M, n) = rs[n].occ /\ Share(ss, B, n) = H + 1
      BY <1>4, <2>5 DEF Share
    <3>2. g[m] + h[m] = f[m] /\ Gain(n) = H + 1
      BY <1>10, <2>1, <2>2, <2>4, <2>5
    <3>3. PICK o, u, v, w : o = rs[n].occ /\ u = f[m] /\ v = h[m] /\ w = g[m]
      OBVIOUS
    <3>4. o \in Nat /\ u \in Nat /\ v \in Nat /\ w \in Nat /\ w + v = u
      BY <2>4, <3>2, <3>3, Zenon
    <3>5. (w + (H + 1)) + (v + o) = (u + o) + (H + 1)
      BY <1>9, <3>4
    <3>6. f[n] = u + o /\ h[n] = v + o /\ g[n] = w + (H + 1)
      BY <2>3, <3>1, <3>3, Zenon
    <3>. QED
      BY <3>2, <3>5, <3>6, Zenon
  <2>6. CASE n # K
    <3>1. Share(ss, B, n) + Share(rs, M, n) = Share(rs, A, n)
      BY <1>4, <2>2, <2>4, <2>6 DEF Share
    <3>2. Gain(m) = Gain(n) /\ Gain(n) \in Nat
      BY <1>10, <1>9, <2>1, <2>6
    <3>3. Share(ss, B, n) \in Nat /\ Share(rs, M, n) \in Nat /\ Share(rs, A, n) \in Nat
      BY <1>4, <2>2, <2>4, <2>6 DEF Share
    <3>4. PICK a, b, c, d, u, v, w :
                /\ a = Share(rs, A, n) /\ b = Share(rs, M, n) /\ c = Share(ss, B, n)
                /\ d = Gain(n) /\ u = f[m] /\ v = h[m] /\ w = g[m]
      OBVIOUS
    <3>5. /\ a \in Nat /\ b \in Nat /\ c \in Nat /\ d \in Nat /\ u \in Nat /\ v \in Nat /\ w \in Nat
          /\ c + b = a /\ w + v = u + d
      BY <2>2, <2>4, <3>1, <3>2, <3>3, <3>4, Zenon
    <3>6. (w + c) + (v + b) = (u + a) + d
      BY <3>5
    <3>7. f[n] = u + a /\ h[n] = v + b /\ g[n] = w + c
      BY <2>3, <3>4, Zenon
    <3>. QED
      BY <3>4, <3>6, <3>7, Zenon
  <2>. QED
    BY <2>5, <2>6
<1>13. T \subseteq Nat
  OBVIOUS
<1>14. L \in T
  <2>. HIDE DEF T
  <2>. QED
    BY <1>8, <1>11, <1>12, <1>13, NatSet, Zenon
<1>15. g[L] + h[L] = f[L] + (H + 1)
  BY <1>10, <1>8, <1>14
<1>16. f[L] \in Nat /\ g[L] \in Nat /\ h[L] = H
  BY <1>6, <1>8
<1>. QED
  BY <1>4, <1>5, <1>7, <1>9, <1>15, <1>16

-----------------------------------------------------------------------------
(* What a plan does to the rows of a key *)

\* The rows of a key once a plan of it is written.
Written(rs, plan) == [i \in DOMAIN rs |-> IF i \in DOMAIN plan THEN plan[i] ELSE rs[i]]

LEMMA KeeperFirst ==
  ASSUME NEW rs \in Seq(IncRow), Active(rs) # {}
  PROVE  Keeper(rs) \in Merged(rs)
<1>1. Active(rs) \subseteq Nat
  BY DEF Active
<1>2. \E x \in Active(rs) : \A y \in Active(rs) : x <= y
  BY <1>1, LeastNat
<1>3. PICK K : K = Keeper(rs)
  OBVIOUS
<1>4. K \in Active(rs) /\ \A y \in Active(rs) : K <= y
  BY <1>2, <1>3, Zenon DEF Keeper
<1>5. {j \in Active(rs) : j < K} = {}
  BY <1>1, <1>4
<1>6. Cardinality({j \in Active(rs) : j < K}) <= MaxMerges
  <2>1. PICK S : S = {j \in Active(rs) : j < K}
    OBVIOUS
  <2>2. Cardinality(S) = 0
    BY <1>5, <2>1, FS_EmptySet
  <2>3. 0 <= MaxMerges
    BY IncAssumption
  <2>. QED
    BY <2>1, <2>2, <2>3, Zenon
<1>. QED
  BY <1>3, <1>4, <1>6 DEF Merged

LEMMA OccurrencesNat ==
  ASSUME NEW rs \in Seq(IncRow), NEW S
  PROVE  Occurrences(rs, S) \in Nat
<1>1. PICK f : Sums(f, rs, S) /\ Occurrences(rs, S) = f[Len(rs)]
  BY OccurrencesAre
<1>. QED
  BY <1>1 DEF Sums

\* An observed key that was open has one occurrence more.
LEMMA PlanObserved ==
  ASSUME NEW rs \in Seq(IncRow), Active(rs) # {}, NEW keys, NEW k \in keys, NEW live,
         NEW ss, ss = Written(rs, PlanOf(k, rs, keys, live))
  PROVE  ss \in Seq(IncRow) /\ Occurrences(ss, Active(ss)) = Occurrences(rs, Active(rs)) + 1
<1>1. PICK K, M, H, A : /\ K = Keeper(rs) /\ M = Merged(rs) /\ H = Occurrences(rs, M)
                        /\ A = Active(rs)
  OBVIOUS
<1>2. K \in M /\ M \subseteq A /\ A \subseteq 1..Len(rs) /\ H \in Nat
  BY <1>1, KeeperFirst, OccurrencesNat DEF Merged, Active
<1>3. \A i \in 1..Len(rs) : rs[i] \in IncRow /\ (i \in A <=> rs[i].active)
  BY <1>1 DEF Active
<1>4. PICK plan : plan = PlanOf(k, rs, keys, live)
  OBVIOUS
<1>5. PICK N : N = H + 1
  OBVIOUS
<1>6. /\ DOMAIN plan = M
      /\ plan[K] = [rs[K] EXCEPT !.occ = N]
      /\ \A i \in M \ {K} : plan[i] = [rs[i] EXCEPT !.active = FALSE]
  <2>1. plan = [i \in M |-> IF i = K THEN [rs[i] EXCEPT !.occ = N]
                                     ELSE [rs[i] EXCEPT !.active = FALSE]]
    BY <1>1, <1>4, <1>5, Zenon DEF PlanOf
  <2>. QED
    BY <1>2, <2>1
<1>7. \A r \in IncRow : /\ [r EXCEPT !.occ = N] \in IncRow /\ [r EXCEPT !.occ = N].occ = N
                        /\ r.active => [r EXCEPT !.occ = N].active
  BY <1>2, <1>5 DEF IncRow
<1>8. \A r \in IncRow : [r EXCEPT !.active = FALSE] \in IncRow /\ ~[r EXCEPT !.active = FALSE].active
  BY DEF IncRow
<1>9. \A i \in 1..Len(rs) : ss[i] = IF i \in M THEN plan[i] ELSE rs[i]
  BY <1>4, <1>6 DEF Written
<1>10. K \in 1..Len(rs) /\ ss[K] \in IncRow /\ ss[K].occ = N /\ ss[K].active
  <2>1. K \in 1..Len(rs) /\ ss[K] = [rs[K] EXCEPT !.occ = N] /\ rs[K] \in IncRow /\ rs[K].active
    BY <1>2, <1>3, <1>6, <1>9
  <2>. QED
    BY <1>7, <2>1
<1>11. \A i \in M \ {K} : ss[i] \in IncRow /\ ~ss[i].active
  <2>1. ASSUME NEW i \in M \ {K} PROVE ss[i] = [rs[i] EXCEPT !.active = FALSE] /\ rs[i] \in IncRow
    BY <1>2, <1>3, <1>6, <1>9
  <2>. QED
    BY <1>8, <2>1
<1>12. \A i \in 1..Len(rs) : i \notin M => ss[i] = rs[i] /\ ss[i] \in IncRow
  BY <1>3, <1>9
<1>13. ss \in Seq(IncRow) /\ Len(ss) = Len(rs) /\ DOMAIN ss = 1..Len(rs)
  <2>1. \A i \in 1..Len(rs) : ss[i] \in IncRow
    BY <1>10, <1>11, <1>12
  <2>2. ss = [i \in 1..Len(rs) |-> ss[i]]
    BY <1>4 DEF Written
  <2>3. ss \in [1..Len(rs) -> IncRow]
    BY <2>1, <2>2
  <2>4. Len(rs) \in Nat
    OBVIOUS
  <2>. QED
    BY <2>3, <2>4
<1>14. Active(ss) = (A \ M) \union {K}
  <2>1. ASSUME NEW i \in 1..Len(rs) PROVE ss[i].active <=> i \in (A \ M) \union {K}
    <3>1. CASE i = K
      BY <1>10, <3>1
    <3>2. CASE i \in M \ {K}
      BY <1>11, <3>2
    <3>3. CASE i \notin M
      BY <1>2, <1>3, <1>12, <3>3
    <3>. QED
      BY <3>1, <3>2, <3>3
  <2>2. (A \ M) \union {K} \subseteq 1..Len(rs)
    BY <1>2
  <2>3. Active(ss) = {i \in 1..Len(rs) : ss[i].active}
    BY <1>13 DEF Active
  <2>. QED
    BY <2>1, <2>2, <2>3
<1>15. \A n \in 1..Len(rs) : n \notin M => ss[n].occ = rs[n].occ
  BY <1>12
<1>16. PICK B : B = Active(ss)
  OBVIOUS
<1>17. Occurrences(ss, B) = Occurrences(rs, A) + 1
  <2>1. B = (A \ M) \union {K} /\ ss[K].occ = Occurrences(rs, M) + 1
    BY <1>1, <1>5, <1>10, <1>14, <1>16, Zenon
  <2>2. K \in M /\ K \in 1..Len(rs) /\ M \subseteq A /\ ss \in Seq(IncRow) /\ Len(rs) = Len(ss)
    BY <1>2, <1>10, <1>13, Zenon
  <2>3. MergedInto(rs, ss, A, M, K)
    BY <1>15, <2>1, <2>2, Zenon DEF MergedInto
  <2>4. Occurrences(ss, (A \ M) \union {K}) = Occurrences(rs, A) + 1
    BY <2>2, <2>3, SumsMerge
  <2>. QED
    BY <2>1, <2>4, Zenon
<1>. QED
  BY <1>1, <1>13, <1>16, <1>17

\* A key closed by live telemetry has no open row; no other key changes.
LEMMA PlanOther ==
  ASSUME NEW rs \in Seq(IncRow), NEW keys, NEW k, NEW live \in BOOLEAN,
         k \in keys => Active(rs) = {},
         NEW ss, ss = Written(rs, PlanOf(k, rs, keys, live))
  PROVE  /\ ss \in Seq(IncRow)
         /\ k \notin keys /\ live /\ k \in LiveCloses => Active(ss) = {}
         /\ k \in keys \/ ~live \/ k \notin LiveCloses => ss = rs
<1>1. PICK plan : plan = PlanOf(k, rs, keys, live)
  OBVIOUS
<1>2. \A i \in 1..Len(rs) : rs[i] \in IncRow /\ (i \in Active(rs) <=> rs[i].active)
  BY DEF Active
<1>3. CASE k \notin keys /\ live /\ k \in LiveCloses
  <2>1. plan = [i \in Active(rs) |-> [rs[i] EXCEPT !.active = FALSE]]
    BY <1>1, <1>3 DEF PlanOf
  <2>2. ss = [i \in 1..Len(rs) |-> IF i \in Active(rs) THEN [rs[i] EXCEPT !.active = FALSE] ELSE rs[i]]
    BY <1>1, <2>1 DEF Written, Active
  <2>3. \A r \in IncRow : [r EXCEPT !.active = FALSE] \in IncRow /\ [r EXCEPT !.active = FALSE].active = FALSE
    BY DEF IncRow
  <2>4. \A i \in 1..Len(rs) : ss[i] \in IncRow /\ ~ss[i].active
    BY <1>2, <2>2, <2>3
  <2>5. ss \in Seq(IncRow) /\ Len(ss) = Len(rs)
    BY <2>2, <2>4
  <2>6. Active(ss) = {}
    BY <2>4, <2>5 DEF Active
  <2>. QED
    BY <1>3, <2>5, <2>6
<1>4. CASE k \in keys \/ ~live \/ k \notin LiveCloses
  <2>1. DOMAIN plan = {}
    BY <1>1, <1>4 DEF PlanOf, Merged
  <2>2. ss = [i \in 1..Len(rs) |-> rs[i]]
    BY <1>1, <2>1 DEF Written
  <2>3. ss = rs
    BY <2>2
  <2>. QED
    BY <1>4, <2>3
<1>. QED
  BY <1>3, <1>4

-----------------------------------------------------------------------------
(* The invariant of the refreshes *)

IncFields == {"at", "list", "live", "seen", "green", "feed", "left", "plan", "add"}
FullRefresh(r) == r = [x \in IncFields |-> r[x]]
AllRefreshes ==
  /\ refresh = [f \in Refresh |-> refresh[f]]
  /\ \A f \in Refresh : FullRefresh(refresh[f])
KeysTyped == rows \in [Key -> Seq(IncRow)] /\ episode \in [Key -> Nat]

\* One refresh at most is between its plan and its last write, and what it is
\* about to update follows from the rows as they are.
Writes(r) == r.at \in {"update", "add"}
PlanFits(r, rws) ==
  r.at = "update" => /\ r.live \in BOOLEAN
                     /\ r.plan = [k \in Key |-> PlanOf(k, rws[k], Keys(r), r.live)]
                     /\ r.add = {k \in Keys(r) : Active(rws[k]) = {}}
OneWrites == \A f, g \in Refresh : Writes(refresh[f]) /\ Writes(refresh[g]) => f = g
PlansCurrent == \A f \in Refresh : PlanFits(refresh[f], rows)
Total(rs) == Occurrences(rs, Active(rs))
TotalsTrue == \A k \in Key : Total(rows[k]) = episode[k]
IncInv ==
  /\ AllRefreshes
  /\ \A f \in Refresh : refresh[f].at # "idle" /\ refresh[f].at # "fetch" => refresh[f].live \in BOOLEAN
  /\ overlap \in BOOLEAN
  /\ ~overlap => KeysTyped /\ OneWrites /\ PlansCurrent /\ TotalsTrue

\* What one refresh becomes, the others being left alone.
LEMMA RefreshNext ==
  ASSUME AllRefreshes, NEW f \in Refresh, NEW y, FullRefresh(y),
         refresh' = [refresh EXCEPT ![f] = y]
  PROVE  /\ AllRefreshes' /\ refresh'[f] = y
         /\ \A g \in Refresh \ {f} : refresh'[g] = refresh[g]
<1>1. PICK R : R = refresh'
  OBVIOUS
<1>2. R = [g \in Refresh |-> IF g = f THEN y ELSE refresh[g]]
  BY <1>1 DEF AllRefreshes
<1>3. R[f] = y /\ \A g \in Refresh \ {f} : R[g] = refresh[g]
  BY <1>2
<1>4. R = [g \in Refresh |-> R[g]]
  BY <1>2
<1>5. ASSUME NEW g \in Refresh PROVE FullRefresh(R[g])
  <2>1. CASE g = f
    BY <1>3, <2>1, Zenon
  <2>2. CASE g # f
    BY <1>3, <2>2, Zenon DEF AllRefreshes
  <2>. QED
    BY <2>1, <2>2
<1>. QED
  BY <1>1, <1>3, <1>4, <1>5, Zenon DEF AllRefreshes

\* The rows earlier versions left behind count once each.
LEMMA LegacyTotal ==
  ASSUME NEW m \in Nat, NEW rs, rs = [i \in 1..m |-> [occ |-> 1, active |-> TRUE]]
  PROVE  rs \in Seq(IncRow) /\ Len(rs) = m /\ Total(rs) = m
<1>1. rs \in Seq(IncRow) /\ Len(rs) = m /\ DOMAIN rs = 1..m
  BY DEF IncRow
<1>2. PICK S : S = Active(rs)
  OBVIOUS
<1>3. \A i \in 1..m : i \in S /\ rs[i].occ = 1
  BY <1>1, <1>2 DEF Active
<1>4. PICK f : Sums(f, rs, S) /\ Occurrences(rs, S) = f[m]
  BY <1>1, OccurrencesAre
<1>5. PICK c, g : c = [i \in 1..m |-> 1] /\ g = [i \in 0..m |-> i]
  OBVIOUS
<1>6. \A i \in 1..m : c[i] = Share(rs, S, i)
  BY <1>3, <1>5 DEF Share
<1>7. AddsUp(g, c, m) /\ g[m] = m
  BY <1>5 DEF AddsUp
<1>8. f[m] = g[m]
  <2>1. AddsUp(f, c, m)
    BY <1>1, <1>4, <1>6 DEF Sums, AddsUp
  <2>. QED
    BY <1>7, <2>1, SumsUnique
<1>. QED
  BY <1>1, <1>2, <1>4, <1>7, <1>8 DEF Total

LEMMA IncInvInit == IncInit => IncInv
<1>1. SUFFICES ASSUME IncInit PROVE IncInv
  OBVIOUS
<1>2. FullRefresh(Rested) /\ Rested.at = "idle"
  BY DEF FullRefresh, IncFields, Rested
<1>3. PICK r : r = Rested
  OBVIOUS
<1>4. AllRefreshes /\ \A f \in Refresh : refresh[f].at = "idle"
  BY <1>1, <1>2, <1>3 DEF IncInit, AllRefreshes
<1>5. ASSUME NEW k \in Key
      PROVE  rows[k] \in Seq(IncRow) /\ Total(rows[k]) = episode[k] /\ episode[k] \in Nat
  <2>1. PICK m, rs : /\ m = (IF k = Unavailable THEN Legacy ELSE 0) /\ rs = rows[k]
    OBVIOUS
  <2>2. m \in Nat
    BY <2>1, IncAssumption
  <2>3. rs = [i \in 1..m |-> [occ |-> 1, active |-> TRUE]]
    BY <1>1, <2>1, Zenon DEF IncInit
  <2>4. rs \in Seq(IncRow) /\ Len(rs) = m /\ Total(rs) = m
    BY <2>2, <2>3, LegacyTotal
  <2>5. episode[k] = Len(rs)
    BY <1>1, <2>1 DEF IncInit
  <2>. QED
    BY <2>1, <2>2, <2>4, <2>5
<1>6. KeysTyped
  BY <1>1, <1>5 DEF IncInit, KeysTyped
<1>. QED
  BY <1>1, <1>4, <1>5, <1>6
     DEF IncInit, IncInv, OneWrites, Writes, PlansCurrent, PlanFits, TotalsTrue

\* Steps before a plan, and the end of a refresh that stops, leave the rows alone.
LEMMA IncQuiet ==
  ASSUME IncInv, NEW f \in Refresh, NEW y, FullRefresh(y), ~Writes(y),
         y.at # "idle" /\ y.at # "fetch" => y.live \in BOOLEAN,
         refresh' = [refresh EXCEPT ![f] = y], UNCHANGED <<rows, overlap, episode>>
  PROVE  IncInv'
<1>1. /\ AllRefreshes' /\ refresh'[f] = y
      /\ \A g \in Refresh \ {f} : refresh'[g] = refresh[g]
  BY RefreshNext, Zenon DEF IncInv
<1>2. \A g \in Refresh : refresh'[g].at # "idle" /\ refresh'[g].at # "fetch" => refresh'[g].live \in BOOLEAN
  BY <1>1, Zenon DEF IncInv
<1>3. \A g \in Refresh : Writes(refresh'[g]) => g # f /\ refresh'[g] = refresh[g]
  BY <1>1, Zenon
<1>4. OneWrites => OneWrites'
  BY <1>3, Zenon DEF OneWrites
<1>5. PlansCurrent => PlansCurrent'
  <2>1. ASSUME NEW g \in Refresh, PlansCurrent PROVE PlanFits(refresh'[g], rows)
    <3>1. CASE g = f
      BY <1>1, <3>1 DEF PlanFits, Writes
    <3>2. CASE g # f
      BY <1>1, <2>1, <3>2, Zenon DEF PlansCurrent
    <3>. QED
      BY <3>1, <3>2
  <2>2. PICK R : R = refresh'
    OBVIOUS
  <2>. QED
    BY <2>1, Zenon DEF PlansCurrent
<1>. QED
  BY <1>1, <1>2, <1>4, <1>5 DEF IncInv, KeysTyped, TotalsTrue

LEMMA IncPlan ==
  ASSUME IncInv, NEW f \in Refresh, Plan(f)
  PROVE  IncInv'
<1>1. PICK r, P, A : /\ r = refresh[f]
                     /\ P = [k \in Key |-> PlanOf(k, rows[k], Keys(r), r.live)]
                     /\ A = {k \in Keys(r) : Active(rows[k]) = {}}
  OBVIOUS
<1>2. PICK y : y = [r EXCEPT !.at = "update", !.plan = P, !.add = A]
  OBVIOUS
<1>3. FullRefresh(r) /\ r.live \in BOOLEAN
  <2>1. r.at = "list"
    BY <1>1 DEF Plan
  <2>. QED
    BY <1>1, <2>1 DEF IncInv, AllRefreshes
<1>4. /\ FullRefresh(y) /\ y.at = "update" /\ y.plan = P /\ y.add = A
      /\ y.feed = r.feed /\ y.live = r.live
  BY <1>2, <1>3 DEF FullRefresh, IncFields
<1>5. Keys(y) = Keys(r)
  BY <1>4, Zenon DEF Keys
<1>6. /\ refresh' = [refresh EXCEPT ![f] = y] /\ UNCHANGED <<rows, episode>>
      /\ overlap' = (overlap \/ \E g \in Refresh \ {f} : refresh[g].at \in {"update", "add"})
  BY <1>1, <1>2, Zenon DEF Plan
<1>7. /\ AllRefreshes' /\ refresh'[f] = y
      /\ \A g \in Refresh \ {f} : refresh'[g] = refresh[g]
  BY <1>4, <1>6, RefreshNext, Zenon DEF IncInv
<1>8. \A g \in Refresh : refresh'[g].at # "idle" /\ refresh'[g].at # "fetch" => refresh'[g].live \in BOOLEAN
  BY <1>3, <1>4, <1>7, Zenon DEF IncInv
<1>9. overlap' \in BOOLEAN
  BY <1>6
<1>10. ASSUME ~overlap' PROVE KeysTyped' /\ OneWrites' /\ PlansCurrent' /\ TotalsTrue'
  <2>1. ~overlap /\ \A g \in Refresh \ {f} : ~Writes(refresh[g])
    BY <1>6, <1>10 DEF Writes
  <2>2. KeysTyped' /\ TotalsTrue'
    BY <1>6, <2>1 DEF IncInv, KeysTyped, TotalsTrue
  <2>3. \A g \in Refresh : Writes(refresh'[g]) => g = f
    BY <1>7, <2>1, Zenon
  <2>4. OneWrites'
    BY <2>3, Zenon DEF OneWrites
  <2>5. PlanFits(y, rows)
    BY <1>1, <1>3, <1>4, <1>5, Zenon DEF PlanFits
  <2>6. ASSUME NEW g \in Refresh PROVE PlanFits(refresh'[g], rows)
    <3>1. CASE g = f
      BY <1>7, <2>5, <3>1, Zenon
    <3>2. CASE g # f
      BY <1>7, <2>1, <3>2 DEF PlanFits, Writes
    <3>. QED
      BY <3>1, <3>2
  <2>7. PlansCurrent'
    BY <1>6, <2>6, Zenon DEF PlansCurrent
  <2>. QED
    BY <2>2, <2>4, <2>7
<1>. QED
  BY <1>7, <1>8, <1>9, <1>10 DEF IncInv

LEMMA IncUpdate ==
  ASSUME IncInv, NEW f \in Refresh, Update(f)
  PROVE  IncInv'
<1>1. PICK r, y : r = refresh[f] /\ y = [Rested EXCEPT !.at = "add", !.add = r.add]
  OBVIOUS
<1>2. FullRefresh(y) /\ y.at = "add" /\ y.live = FALSE
  BY <1>1 DEF FullRefresh, IncFields, Rested
<1>3. /\ r.at = "update" /\ UNCHANGED overlap
      /\ refresh' = [refresh EXCEPT ![f] = y]
  BY <1>1, Zenon DEF Update
<1>4. PICK plan, add, keys, live :
        plan = r.plan /\ add = r.add /\ keys = Keys(r) /\ live = r.live
  OBVIOUS
<1>5. PICK closed, written : /\ closed = (IF live THEN LiveCloses \ keys ELSE {})
                             /\ written = keys \ add
  OBVIOUS
<1>6. /\ rows' = [k \in Key |-> Written(rows[k], plan[k])]
      /\ episode' = [k \in Key |-> IF k \in closed THEN 0
                                   ELSE episode[k] + IF k \in written THEN 1 ELSE 0]
  BY <1>1, <1>4, <1>5, Zenon DEF Update, Written
<1>7. /\ AllRefreshes' /\ refresh'[f] = y
      /\ \A g \in Refresh \ {f} : refresh'[g] = refresh[g]
  BY <1>2, <1>3, RefreshNext, Zenon DEF IncInv
<1>8. \A g \in Refresh : refresh'[g].at # "idle" /\ refresh'[g].at # "fetch" => refresh'[g].live \in BOOLEAN
  <2>1. y.live \in BOOLEAN
    BY <1>2
  <2>. QED
    BY <1>7, <2>1, Zenon DEF IncInv
<1>9. ASSUME ~overlap PROVE KeysTyped' /\ OneWrites' /\ PlansCurrent' /\ TotalsTrue'
  <2>1. KeysTyped /\ OneWrites /\ PlansCurrent /\ TotalsTrue
    BY <1>9 DEF IncInv
  <2>2. /\ live \in BOOLEAN
        /\ plan = [k \in Key |-> PlanOf(k, rows[k], keys, live)]
        /\ add = {k \in keys : Active(rows[k]) = {}}
    <3>1. PlanFits(r, rows)
      BY <1>1, <2>1 DEF PlansCurrent
    <3>. QED
      BY <1>3, <1>4, <3>1 DEF PlanFits
  <2>3. ASSUME NEW k \in Key, NEW R, R = rows'[k], NEW e, e = episode'[k]
        PROVE  R \in Seq(IncRow) /\ e \in Nat /\ Total(R) = e
    <3>1. PICK rs, n : rs = rows[k] /\ n = episode[k]
      OBVIOUS
    <3>2. rs \in Seq(IncRow) /\ n \in Nat /\ Total(rs) = n
      BY <2>1, <3>1 DEF KeysTyped, TotalsTrue
    <3>3. R = Written(rs, PlanOf(k, rs, keys, live))
      BY <1>6, <2>2, <2>3, <3>1
    <3>4. e = IF k \in closed THEN 0 ELSE n + IF k \in written THEN 1 ELSE 0
      BY <1>6, <2>3, <3>1
    <3>5. k \in written <=> k \in keys /\ Active(rs) # {}
      BY <1>5, <2>2, <3>1
    <3>6. k \in closed <=> live /\ k \in LiveCloses /\ k \notin keys
      BY <1>5
    <3>7. CASE k \in written
      BY <3>2, <3>3, <3>4, <3>5, <3>6, <3>7, PlanObserved DEF Total
    <3>8. CASE k \in closed
      <4>1. R \in Seq(IncRow) /\ Active(R) = {}
        BY <2>2, <3>2, <3>3, <3>6, <3>8, PlanOther
      <4>2. Total(R) = 0
        BY <4>1, SumsNone DEF Total
      <4>. QED
        BY <3>4, <3>8, <4>1, <4>2
    <3>9. CASE k \notin written /\ k \notin closed
      <4>1. R = rs
        BY <2>2, <3>2, <3>3, <3>5, <3>6, <3>9, PlanOther
      <4>. QED
        BY <3>2, <3>4, <3>9, <4>1
    <3>. QED
      BY <3>7, <3>8, <3>9
  <2>4. KeysTyped'
    BY <1>6, <2>3 DEF KeysTyped
  <2>5. TotalsTrue'
    BY <2>3 DEF TotalsTrue
  <2>6. \A g \in Refresh \ {f} : ~Writes(refresh[g])
    BY <1>1, <1>3, <2>1 DEF OneWrites, Writes
  <2>7. OneWrites'
    BY <1>7, <2>6, Zenon DEF OneWrites
  <2>8. ASSUME NEW g \in Refresh, NEW rws PROVE PlanFits(refresh'[g], rws)
    BY <1>2, <1>7, <2>6 DEF PlanFits, Writes
  <2>9. PlansCurrent'
    BY <2>8, Zenon DEF PlansCurrent
  <2>. QED
    BY <2>4, <2>5, <2>7, <2>9
<1>. QED
  BY <1>3, <1>7, <1>8, <1>9 DEF IncInv

LEMMA IncAdd ==
  ASSUME IncInv, NEW f \in Refresh, Add(f)
  PROVE  IncInv'
<1>1. PICK y, add : y = Rested /\ add = refresh[f].add
  OBVIOUS
<1>2. FullRefresh(y) /\ y.at = "idle" /\ y.live = FALSE
  BY <1>1 DEF FullRefresh, IncFields, Rested
<1>3. /\ refresh[f].at = "add" /\ UNCHANGED overlap
      /\ refresh' = [refresh EXCEPT ![f] = y]
  BY <1>1, Zenon DEF Add
<1>4. PICK r : r = [occ |-> 1, active |-> TRUE]
  OBVIOUS
<1>5. /\ rows' = [k \in Key |-> IF k \in add THEN Append(rows[k], r) ELSE rows[k]]
      /\ episode' = [k \in Key |-> episode[k] + IF k \in add THEN 1 ELSE 0]
  BY <1>1, <1>4 DEF Add
<1>6. /\ AllRefreshes' /\ refresh'[f] = y
      /\ \A g \in Refresh \ {f} : refresh'[g] = refresh[g]
  BY <1>2, <1>3, RefreshNext, Zenon DEF IncInv
<1>7. \A g \in Refresh : refresh'[g].at # "idle" /\ refresh'[g].at # "fetch" => refresh'[g].live \in BOOLEAN
  BY <1>2, <1>6, Zenon DEF IncInv
<1>8. r \in IncRow /\ r.occ = 1 /\ r.active
  BY <1>4 DEF IncRow
<1>9. ASSUME NEW rs \in Seq(IncRow)
      PROVE  Append(rs, r) \in Seq(IncRow) /\ Total(Append(rs, r)) = Total(rs) + 1
  <2>1. PICK ss, L, A, B : /\ ss = Append(rs, r) /\ L = Len(rs)
                           /\ A = Active(rs) /\ B = Active(ss)
    OBVIOUS
  <2>2. /\ ss \in Seq(IncRow) /\ L \in Nat /\ ss[L + 1] = r /\ \A i \in 1..L : ss[i] = rs[i]
        /\ DOMAIN ss = 1..(L + 1) /\ DOMAIN rs = 1..L
    BY <1>8, <2>1
  <2>3. L + 1 \in B /\ \A i \in 1..L : i \in B <=> i \in A
    BY <1>8, <2>1, <2>2 DEF Active
  <2>4. Occurrences(ss, B) = Occurrences(rs, B) + 1
    BY <1>8, <2>1, <2>3, SumsAppend
  <2>5. \A i \in 1..Len(rs) : Share(rs, A, i) = Share(rs, B, i)
    BY <2>1, <2>3 DEF Share
  <2>6. Occurrences(rs, A) = Occurrences(rs, B)
    BY <2>5, SumsSame
  <2>. QED
    BY <2>1, <2>2, <2>4, <2>6 DEF Total
<1>10. ASSUME ~overlap PROVE KeysTyped' /\ OneWrites' /\ PlansCurrent' /\ TotalsTrue'
  <2>1. KeysTyped /\ OneWrites /\ TotalsTrue
    BY <1>10 DEF IncInv
  <2>2. ASSUME NEW k \in Key, NEW R, R = rows'[k], NEW e, e = episode'[k]
        PROVE  R \in Seq(IncRow) /\ e \in Nat /\ Total(R) = e
    <3>1. PICK rs, n : rs = rows[k] /\ n = episode[k]
      OBVIOUS
    <3>2. rs \in Seq(IncRow) /\ n \in Nat /\ Total(rs) = n
      BY <2>1, <3>1 DEF KeysTyped, TotalsTrue
    <3>3. CASE k \in add
      <4>1. R = Append(rs, r) /\ e = n + 1
        BY <1>5, <2>2, <3>1, <3>3
      <4>. QED
        BY <1>9, <3>2, <4>1
    <3>4. CASE k \notin add
      BY <1>5, <2>2, <3>1, <3>2, <3>4
    <3>. QED
      BY <3>3, <3>4
  <2>3. KeysTyped'
    BY <1>5, <2>2 DEF KeysTyped
  <2>4. TotalsTrue'
    BY <2>2 DEF TotalsTrue
  <2>5. \A g \in Refresh : ~Writes(refresh'[g])
    BY <1>2, <1>3, <1>6, <2>1 DEF OneWrites, Writes
  <2>6. OneWrites'
    BY <2>5, Zenon DEF OneWrites
  <2>7. ASSUME NEW g \in Refresh, NEW rws PROVE PlanFits(refresh'[g], rws)
    BY <2>5 DEF PlanFits, Writes
  <2>8. PlansCurrent'
    BY <2>7, Zenon DEF PlansCurrent
  <2>. QED
    BY <2>3, <2>4, <2>6, <2>8
<1>. QED
  BY <1>3, <1>6, <1>7, <1>10 DEF IncInv

LEMMA IncInvNext == IncInv /\ [IncNext]_incVars => IncInv'
<1> SUFFICES ASSUME IncInv, [IncNext]_incVars PROVE IncInv'
  OBVIOUS
<1>1. CASE UNCHANGED incVars
  BY <1>1 DEF incVars, IncInv, AllRefreshes, KeysTyped, OneWrites, PlansCurrent, TotalsTrue
<1>2. ASSUME NEW f \in Refresh, ListSystems(f) \/ Abandon(f) PROVE IncInv'
  <2>1. PICK y : /\ refresh' = [refresh EXCEPT ![f] = y]
                 /\ y = Rested \/ y = [Rested EXCEPT !.at = "fetch", !.list = status]
    BY <1>2 DEF ListSystems, Abandon
  <2>2. FullRefresh(y) /\ y.at \in {"idle", "fetch"}
    <3>1. FullRefresh(Rested) /\ Rested.at = "idle"
      BY DEF FullRefresh, IncFields, Rested
    <3>2. PICK z : z = [Rested EXCEPT !.at = "fetch", !.list = status]
      OBVIOUS
    <3>3. FullRefresh(z) /\ z.at = "fetch"
      BY <3>2 DEF FullRefresh, IncFields, Rested
    <3>. QED
      BY <2>1, <3>1, <3>2, <3>3, Zenon
  <2>3. ~Writes(y) /\ (y.at # "idle" /\ y.at # "fetch" => y.live \in BOOLEAN)
    BY <2>2 DEF Writes
  <2>. QED
    BY <1>2, <2>1, <2>2, <2>3, IncQuiet DEF ListSystems, Abandon
<1>3. ASSUME NEW f \in Refresh, FetchTelemetry(f) PROVE IncInv'
  <2>1. PICK r : r = refresh[f]
    OBVIOUS
  <2>2. PICK live \in BOOLEAN, green \in BOOLEAN,
             feed \in [System -> {"ok", "error", "down", "both", "unmapped"}] :
          refresh' = [refresh EXCEPT ![f] = [r EXCEPT !.at = "systems", !.live = live,
            !.seen = live \/ proven, !.green = green, !.feed = feed, !.left = System]]
    BY <1>3, <2>1, Zenon DEF FetchTelemetry
  <2>3. PICK seen : seen = (live \/ proven)
    OBVIOUS
  <2>4. PICK y : y = [r EXCEPT !.at = "systems", !.live = live,
                        !.seen = seen, !.green = green, !.feed = feed, !.left = System]
    OBVIOUS
  <2>5. FullRefresh(y) /\ y.at = "systems" /\ y.live = live
    BY <2>1, <2>4 DEF IncInv, AllRefreshes, FullRefresh, IncFields
  <2>6. ~Writes(y) /\ y.live \in BOOLEAN
    BY <2>5, Zenon DEF Writes
  <2>7. refresh' = [refresh EXCEPT ![f] = y]
    BY <2>2, <2>3, <2>4, Zenon
  <2>. QED
    BY <1>3, <2>5, <2>6, <2>7, IncQuiet DEF FetchTelemetry
<1>4. ASSUME NEW f \in Refresh, NEW s \in System, WriteSystem(f, s) PROVE IncInv'
  <2>1. PICK r : r = refresh[f]
    OBVIOUS
  <2>2. PICK left, at : /\ at \in {"list", "systems"}
                        /\ refresh' = [refresh EXCEPT ![f] = [r EXCEPT !.left = left, !.at = at]]
    BY <1>4, <2>1 DEF WriteSystem
  <2>3. PICK y : y = [r EXCEPT !.left = left, !.at = at]
    OBVIOUS
  <2>4. FullRefresh(y) /\ y.at = at /\ y.live = r.live
    BY <2>1, <2>3 DEF IncInv, AllRefreshes, FullRefresh, IncFields
  <2>5. r.live \in BOOLEAN
    BY <1>4, <2>1 DEF WriteSystem, IncInv
  <2>6. ~Writes(y) /\ (y.at # "idle" /\ y.at # "fetch" => y.live \in BOOLEAN)
    BY <2>2, <2>4, <2>5 DEF Writes
  <2>. QED
    BY <1>4, <2>2, <2>3, <2>4, <2>6, IncQuiet DEF WriteSystem
<1>. QED
  BY <1>1, <1>2, <1>3, <1>4, IncPlan, IncUpdate, IncAdd DEF IncNext

(***************************************************************************)
(* Unless a refresh ever planned its writes while another still had its    *)
(* own to make, the owner is shown for each incident how often it was      *)
(* observed since it was last closed: for any systems, refreshes, legacy   *)
(* rows and limit of a merge, however refreshes overlap otherwise, fail or *)
(* stop (planIncidentWrites, activeIncidents).                             *)
(***************************************************************************)
THEOREM TotalsShown == IncSpec => []OccurrencesTrue
<1>1. IncInv => OccurrencesTrue
  BY DEF IncInv, TotalsTrue, Total, OccurrencesTrue
<1>. QED
  BY <1>1, IncInvInit, IncInvNext, PTL DEF IncSpec
=============================================================================
