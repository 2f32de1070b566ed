---------------------------- MODULE Certification ----------------------------
(***************************************************************************)
(* Products, certification runs, stored evidence and the verdicts of the   *)
(* panel (runCertificationExecutor, ensureProducts, the handlers of        *)
(* /api/products/*, adminData and buildProductCertification of             *)
(* backend/index.ts and of the worker's backend-index.ts).                 *)
(*                                                                         *)
(* Processes of either site work on shared records in several calls each,  *)
(* while production deploys, the Control Core catches up and surfaces come *)
(* and go.  The evidence of a run is stored in one call, under one         *)
(* fingerprint, and invalidated together: evidence maps a run to it.       *)
(*                                                                         *)
(* Only ZEVANORY has a source system here, and ARBM ONE, a target without  *)
(* a product record, is left out.  No writer leaves a ZEES:Pxx:PROVEN:     *)
(* line in a source, so explicit evidence never counts.                    *)
(***************************************************************************)
EXTENDS Verifiers, Sequences

CONSTANTS Proc, Site,   \* processes and the site of each: "server" or "edge"
          Cases,        \* where a behaviour starts: the products and the world, what
                        \* is asked for one after the other (jobs: task, product id and
                        \* form), and how many changes of the world there may be
          Catalogue,    \* slugs ensureProducts keeps present
          Snapshots,    \* <<slug, pillar>> with a blocking line in VERIFIED_EVIDENCE
          Feed,         \* releases and CI states the private telemetry may report
          Flaky,        \* surfaces that come and go
          Tags          \* kinds of evidence line the source carries

ASSUME ProcAssumption == /\ Site \in [Proc -> {"server", "edge"}]
                         /\ \A c \in Cases : c.changes \in Nat /\ DOMAIN c.world = WorldParts

VARIABLES
  products,   \* acs_products_admin, in the order of creation
  system,     \* the ZEVANORY row of the systems
  runs,       \* certification runs, in the order of creation
  evidence,   \* per run that stored it: target, fingerprint, verdicts, dead
  world,      \* what the verifiers can read (see Verifiers)
  work,       \* what each process is doing
  clock,      \* distinct stamps given out (updatedAt)
  todo,       \* jobs not begun yet
  changes,    \* changes of the world that are left
  overlapped  \* ghost: slugs two runs of which were under way together

certVars == <<products, system, runs, evidence, world, work, clock, todo, changes, overlapped>>

-----------------------------------------------------------------------------
(* Products and their verdicts. *)

\* commercialBlockers
Complete(p) == p.status = "ready" /\ p.priced /\ "checkout" \in p.urls /\ p.gates = AllGates

Profile(slug) == CASE slug = "arbm-sist" -> "AI_AGENTIC_PLATFORM"
                   [] slug = "zevanory" -> "COMMERCE_CONTROL_PLANE"
                   [] slug = "zevanory-one" -> "SAAS_TRANSACTIONAL"
                   [] OTHER -> "DIGITAL_CONTENT"
Linked(p) == p.slug = "zevanory"

\* What a verifier is given: the product and its source.
Context(p, s) ==
  [slug |-> p.slug, profile |-> Profile(p.slug), described |-> p.described, urls |-> p.urls,
   gates |-> p.gates, audit |-> p.audit, linked |-> Linked(p), status |-> s.status,
   sha |-> IF Linked(p) THEN s.sha ELSE None, ci |-> IF Linked(p) THEN s.ci ELSE "none",
   full |-> Linked(p), tags |-> IF Linked(p) THEN Tags ELSE {}]

\* certificationReleaseFingerprint: a product version with its source's release.
Fingerprint(p, s) ==
  [slug |-> p.slug, stamp |-> p.stamp, urls |-> p.urls, gates |-> p.gates, status |-> p.status,
   sha |-> IF Linked(p) THEN s.sha ELSE None, ci |-> IF Linked(p) THEN s.ci ELSE "none"]

\* Stored runs whose evidence counts for a product (verifiedEvidence).
Counted(p, s, ev) ==
  {r \in DOMAIN ev : ev[r].target = p.slug /\ ~ev[r].dead /\ ev[r].print = Fingerprint(p, s)}

ProvedByRun(d, p, s, ev) == \E r \in Counted(p, s, ev) : ev[r].found[d] = "proved"
Refuted(d, p, s, ev) == \/ \E r \in Counted(p, s, ev) : ev[r].found[d] = "blocked"
                        \/ <<p.slug, d>> \in Snapshots

\* Read-backs made for this version of the product whose SHA is the source's.
Fresh(p, s, rows) ==
  {x.row : x \in {y \in rows : y.slug = p.slug /\ y.stamp = p.stamp /\ y.row.sha = Context(p, s).sha}}

\* buildProductCertification: what proves pillar d.  Authoritative read-backs
\* prevail over whatever blocks it.
ProvedPillar(d, p, s, ev, rows) ==
  \/ \E x \in Fresh(p, s, rows) : x.pillar = d /\ x.strong
  \/ /\ ProvedByRun(d, p, s, ev) \/ \E x \in Fresh(p, s, rows) : x.pillar = d
     /\ ~Refuted(d, p, s, ev)
Applicable(p) == {d \in AllPillars : d # "P14" \/ AiProfile(Profile(p.slug))}
Ready(p, s, ev, rows) == \A d \in Applicable(p) : ProvedPillar(d, p, s, ev, rows)

\* The worker's copy knows no read-backs and nothing authoritative.
EdgeReady(p, s, ev) == \A d \in Applicable(p) : ProvedByRun(d, p, s, ev) /\ ~Refuted(d, p, s, ev)

\* invalidateObsoleteCertificationEvidence and invalidatePriorRunEvidence.  Each
\* lists and then updates: a run stored between the two calls is missed just as
\* one stored after both.
Obsolete(slug, print, ev) ==
  [r \in DOMAIN ev |-> IF ev[r].target = slug /\ ev[r].print # print
                         THEN [ev[r] EXCEPT !.dead = TRUE] ELSE ev[r]]
\* Mutant: what earlier runs of the same version stored stays.
SupersededKept(slug, print, ev) ==
  [r \in DOMAIN ev |-> IF ev[r].target = slug /\ ev[r].print # print
                         THEN [ev[r] EXCEPT !.dead = TRUE] ELSE ev[r]]
Superseded(slug, print, ev) ==
  [r \in DOMAIN ev |-> IF ev[r].target = slug /\ ev[r].print = print
                         THEN [ev[r] EXCEPT !.dead = TRUE] ELSE ev[r]]

\* normalizeProduct: the form's fields, stamped now; an archived product is not sold.
Normalized(form, stamp) ==
  [slug |-> form.slug, titled |-> form.titled, described |-> form.described,
   urls |-> form.urls, gates |-> form.gates, audit |-> form.audit, status |-> form.status,
   priced |-> form.priced, stamp |-> stamp,
   onSale |-> form.onSale /\ form.status # "archived"]

\* The record ensureProducts adds for a slug of the catalogue.
Seeded(slug, stamp) ==
  [slug |-> slug, titled |-> TRUE, described |-> TRUE, urls |-> {"page"}, gates |-> {},
   audit |-> IF slug = "zevanory" THEN {"ux", "engineering"} ELSE {}, status |-> "validation",
   priced |-> FALSE, stamp |-> stamp, onSale |-> FALSE]

-----------------------------------------------------------------------------
(* Steps of a process. *)

NoWork == [task |-> "none", at |-> "idle", id |-> 0, form |-> None, have |-> None,
           listing |-> <<>>, sys |-> None, ev |-> <<>>, run |-> 0, rows |-> {}, found |-> <<>>,
           unread |-> {}, lately |-> {}]

With(q, job)  == [work EXCEPT ![q] = job]
Goto(q, step) == [work EXCEPT ![q].at = step]
At(q, step)   == work[q].at = step

\* ensureProducts, on the products as listed: the record of ZEVANORY ONE brought to
\* its canonical name and page, the audit of ZEVANORY filled in, what is missing added.
OneOf(l)     == {i \in DOMAIN l : l[i].slug = "zevanory-one"}
ZevOf(l)     == {i \in DOMAIN l : l[i].slug = "zevanory"}
Oldest(S)    == {i \in S : \A j \in S : i <= j}
Migrates(l)  == {i \in Oldest(OneOf(l)) : ~l[i].titled}
Fills(l)     == {i \in Oldest(ZevOf(l)) : l[i].audit = {}}
Missing(l)   == Catalogue \ {l[i].slug : i \in DOMAIN l}

\* What follows ensureProducts in each task.
Main(task) == CASE task = "create" -> "systems" [] task = "panel" -> "read" [] OTHER -> "telemetry"
AfterFill(l, task) == IF Missing(l) # {} THEN "add" ELSE Main(task)
AfterMigrate(l, task) == IF Fills(l) # {} THEN "fill" ELSE AfterFill(l, task)
AfterList(l, task) == IF Migrates(l) # {} THEN "migrate" ELSE AfterMigrate(l, task)

Begin(q) ==
  /\ At(q, "idle") /\ todo # <<>>
  /\ todo' = Tail(todo)
  /\ LET job == Head(todo)
     IN  work' = With(q, [NoWork EXCEPT !.task = job.task, !.id = job.id, !.form = job.form,
           !.lately = {world.live}, !.unread = {"products", "systems", "evidence"},
           !.at = IF job.task \in {"update", "archive"} THEN "get"
                  ELSE IF job.task = "panel" /\ Site[q] = "edge" THEN "read" ELSE "list"])
  /\ UNCHANGED <<products, system, runs, evidence, world, clock, changes, overlapped>>

List(q) ==
  /\ At(q, "list")
  /\ work' = With(q, [work[q] EXCEPT !.listing = products, !.at = AfterList(products, work[q].task)])
  /\ UNCHANGED <<products, system, runs, evidence, world, clock, todo, changes, overlapped>>

\* Whole records are written back as they were listed.
Migrate(q) ==
  /\ At(q, "migrate")
  /\ LET l == work[q].listing
     IN  /\ products' = [i \in DOMAIN products |->
              IF i \in Migrates(l)
                THEN [l[i] EXCEPT !.titled = TRUE, !.described = TRUE, !.stamp = clock + 1]
                ELSE products[i]]
         /\ work' = Goto(q, AfterMigrate(l, work[q].task))
  /\ clock' = clock + 1
  /\ UNCHANGED <<system, runs, evidence, world, todo, changes, overlapped>>

FillAudit(q) ==
  /\ At(q, "fill")
  /\ LET l == work[q].listing
     IN  /\ products' = [i \in DOMAIN products |->
              IF i \in Fills(l)
                THEN [l[i] EXCEPT !.audit = {"ux", "engineering"}, !.stamp = clock + 1]
                ELSE products[i]]
         /\ work' = Goto(q, AfterFill(l, work[q].task))
  /\ clock' = clock + 1
  /\ UNCHANGED <<system, runs, evidence, world, todo, changes, overlapped>>

AddMissing(q) ==
  /\ At(q, "add")
  /\ \E order \in [1..Cardinality(Missing(work[q].listing)) -> Missing(work[q].listing)] :
       /\ {order[i] : i \in DOMAIN order} = Missing(work[q].listing)
       /\ products' = products \o [i \in DOMAIN order |-> Seeded(order[i], clock + 1)]
  /\ clock' = clock + 1
  /\ work' = Goto(q, Main(work[q].task))
  /\ UNCHANGED <<system, runs, evidence, world, todo, changes, overlapped>>

\* create: lists systems and evidence, decides, adds.
Consult(q) ==
  /\ At(q, "systems")
  /\ work' = With(q, [work[q] EXCEPT !.sys = system, !.ev = evidence, !.at = "decide",
                        !.have = Normalized(work[q].form, clock + 1)])
  /\ clock' = clock + 1
  /\ UNCHANGED <<products, system, runs, evidence, world, todo, changes, overlapped>>

\* update and archive: get and normalise.
Get(q) ==
  /\ At(q, "get")
  /\ work' = With(q, [work[q] EXCEPT
       !.at = IF work[q].task = "archive" THEN "write" ELSE "print",
       !.have = IF work[q].task = "archive"
                  THEN [products[work[q].id] EXCEPT !.status = "archived", !.onSale = FALSE, !.stamp = clock + 1]
                  ELSE Normalized(work[q].form, clock + 1),
       !.listing = <<products[work[q].id]>>])
  /\ clock' = clock + 1
  /\ UNCHANGED <<products, system, runs, evidence, world, todo, changes, overlapped>>

\* update: lists the systems, then invalidates what is not of the new version.
Outdate(q) ==
  /\ At(q, "print")
  /\ evidence' = Obsolete(work[q].have.slug, Fingerprint(work[q].have, system), evidence)
  /\ work' = With(q, [work[q] EXCEPT !.sys = system, !.at = "fresh"])
  /\ UNCHANGED <<products, system, runs, world, clock, todo, changes, overlapped>>

Relist(q) ==
  /\ At(q, "fresh")
  /\ work' = With(q, [work[q] EXCEPT !.ev = evidence, !.at = "decide"])
  /\ UNCHANGED <<products, system, runs, evidence, world, clock, todo, changes, overlapped>>

Verdict(q) == IF Site[q] = "edge" THEN EdgeReady(work[q].have, work[q].sys, work[q].ev)
              ELSE Ready(work[q].have, work[q].sys, work[q].ev, {})

\* A product is put on sale only when it is complete and certified (409).
Decide(q) ==
  /\ At(q, "decide")
  /\ work' = With(q, [work[q] EXCEPT !.ev = <<>>,
       !.at = IF work[q].have.onSale /\ ~(Complete(work[q].have) /\ Verdict(q))
                THEN "refused" ELSE "write"])
  /\ UNCHANGED <<products, system, runs, evidence, world, clock, todo, changes, overlapped>>

Write(q) ==
  /\ At(q, "write")
  /\ products' = IF work[q].task = "create" THEN Append(products, work[q].have)
                 ELSE [products EXCEPT ![work[q].id] = work[q].have]
  /\ work' = With(q, NoWork)
  /\ UNCHANGED <<system, runs, evidence, world, clock, todo, changes, overlapped>>

\* The answer has been sent.
End(q) ==
  /\ work[q].at \in {"refused", "shown", "final"}
  /\ work' = With(q, NoWork)
  /\ UNCHANGED <<products, system, runs, evidence, world, clock, todo, changes, overlapped>>

-----------------------------------------------------------------------------
(* The executor. *)

\* The Control Core vouches for its release (canonicalZevanoryTelemetryFallback).
Green(w) == "core" \in w.up /\ w.core.complete /\ w.core.allows
Overlaid(s, w) == IF Green(w) THEN [s EXCEPT !.sha = w.core.sha, !.ci = "green", !.status = "healthy"]
                  ELSE s

\* refreshTelemetry, what it leaves of the ZEVANORY row (its incidents are those of
\* module Incidents): what the private feed reports or, without it, a stale row,
\* for which the core of the server's copy may vouch.
Stale(s) == [s EXCEPT !.status = "attention", !.ci = "stale"]
Refreshed(s, w, site) ==
  {[s EXCEPT !.sha = f.sha, !.ci = f.ci] : f \in Feed}
    \union {IF site = "server" THEN Overlaid(Stale(s), w) ELSE Stale(s)}

Telemetry(q) ==
  /\ At(q, "telemetry")
  /\ system' \in Refreshed(system, world, Site[q])
  /\ work' = Goto(q, "snapshot")
  /\ UNCHANGED <<products, runs, evidence, world, clock, todo, changes, overlapped>>

\* Systems and products are listed once for the whole run.
Snapshot(q) ==
  /\ At(q, "snapshot")
  /\ work' = With(q, [work[q] EXCEPT !.sys = system, !.have = products[work[q].id],
                        !.listing = <<>>, !.at = "obsolete"])
  /\ UNCHANGED <<products, system, runs, evidence, world, clock, todo, changes, overlapped>>

Imprint(q) == Fingerprint(work[q].have, work[q].sys)

Invalidate(q) ==
  /\ At(q, "obsolete")
  /\ evidence' = Obsolete(work[q].have.slug, Imprint(q), evidence)
  /\ work' = Goto(q, "prior")
  /\ UNCHANGED <<products, system, runs, world, clock, todo, changes, overlapped>>

\* Runs of the target that are past their own invalidation and have not stored yet.
Rivals(q) == {o \in Proc \ {q} : /\ work[o].at \in {"start", "check", "store"}
                                 /\ work[o].have.slug = work[q].have.slug}
Supersede(q) ==
  /\ At(q, "prior")
  /\ evidence' = Superseded(work[q].have.slug, Imprint(q), evidence)
  /\ overlapped' = overlapped \union IF Rivals(q) # {} THEN {work[q].have.slug} ELSE {}
  /\ work' = Goto(q, "start")
  /\ UNCHANGED <<products, system, runs, world, clock, todo, changes>>

StartRun(q) ==
  /\ At(q, "start")
  /\ runs' = Append(runs, [target |-> work[q].have.slug, print |-> Imprint(q), status |-> "running", done |-> 0])
  /\ work' = With(q, [work[q] EXCEPT !.run = Len(runs) + 1, !.at = "check"])
  /\ UNCHANGED <<products, system, evidence, world, clock, todo, changes, overlapped>>

\* The verifiers in order; after every fourth the progress is saved.  The four
\* between two saves read the world in one state here.
Quarter == <<{"P01", "P02", "P03", "P04"}, {"P05", "P06", "P07", "P08"},
             {"P09", "P10", "P11", "P12"}, {"P13", "P14", "P15", "P16"}>>
Executed(q, d) == LET c == Context(work[q].have, work[q].sys)
                  IN  IF Site[q] = "edge" THEN EdgeVerifier(d, c, world).status
                      ELSE Verifier(d, c, world).status
\* Mutant: the evidence is stored before the last quarter.
CheckStoresEarly(q) ==
  /\ At(q, "check")
  /\ LET k == runs[work[q].run].done \div 4 + 1
     IN  /\ work' = With(q, [work[q] EXCEPT
              !.found = [d \in DOMAIN work[q].found \union Quarter[k] |->
                           IF d \in Quarter[k] THEN Executed(q, d) ELSE work[q].found[d]],
              !.at = IF k = 3 THEN "store" ELSE "check"])
         /\ runs' = [runs EXCEPT ![work[q].run].done = 4 * k]
  /\ UNCHANGED <<products, system, evidence, world, clock, todo, changes, overlapped>>
Check(q) ==
  /\ At(q, "check")
  /\ LET k == runs[work[q].run].done \div 4 + 1
     IN  /\ work' = With(q, [work[q] EXCEPT
              !.found = [d \in DOMAIN work[q].found \union Quarter[k] |->
                           IF d \in Quarter[k] THEN Executed(q, d) ELSE work[q].found[d]],
              !.at = IF k = 4 THEN "store" ELSE "check"])
         /\ runs' = [runs EXCEPT ![work[q].run].done = 4 * k]
  /\ UNCHANGED <<products, system, evidence, world, clock, todo, changes, overlapped>>

Store(q) ==
  /\ At(q, "store")
  /\ evidence' = [r \in DOMAIN evidence \union {work[q].run} |->
       IF r = work[q].run
         THEN [target |-> work[q].have.slug, print |-> Imprint(q), found |-> work[q].found, dead |-> FALSE]
         ELSE evidence[r]]
  /\ work' = Goto(q, "finish")
  /\ UNCHANGED <<products, system, runs, world, clock, todo, changes, overlapped>>

Finish(q) ==
  /\ At(q, "finish")
  /\ runs' = [runs EXCEPT ![work[q].run].status = "complete"]
  /\ work' = Goto(q, "final")
  /\ UNCHANGED <<products, system, evidence, world, clock, todo, changes, overlapped>>

\* A verifier or a call throws: the run is marked failed, even a complete one, when it
\* is the list for the answer that fails.
Fail(q) ==
  /\ work[q].at \in {"check", "store", "finish", "final"}
  /\ runs' = [runs EXCEPT ![work[q].run].status = "failed"]
  /\ work' = With(q, NoWork)
  /\ UNCHANGED <<products, system, evidence, world, clock, todo, changes, overlapped>>

-----------------------------------------------------------------------------
(* adminData: the lists, the identity of production, the read-backs. *)

\* The lists are asked for together and answered in any order.
ReadPart(q) ==
  /\ At(q, "read")
  /\ \E part \in work[q].unread :
       LET rest == work[q].unread \ {part}
       IN  work' = With(q, [work[q] EXCEPT !.unread = rest,
             !.listing = IF part = "products" THEN products ELSE @,
             !.sys = IF part = "systems" THEN system ELSE @,
             !.ev = IF part = "evidence" THEN evidence ELSE @,
             !.at = IF rest # {} THEN "read" ELSE IF Site[q] = "edge" THEN "shown" ELSE "overlay"])
  /\ UNCHANGED <<products, system, runs, evidence, world, clock, todo, changes, overlapped>>

Overlay(q) ==
  /\ At(q, "overlay")
  /\ work' = With(q, [work[q] EXCEPT !.sys = Overlaid(@, world), !.at = "identity"])
  /\ UNCHANGED <<products, system, runs, evidence, world, clock, todo, changes, overlapped>>

\* Without a declared or with a stale release, the one production names itself.
Identity(q) ==
  /\ At(q, "identity")
  /\ LET s == work[q].sys
         named == /\ ZevOf(work[q].listing) # {} /\ (s.sha = None \/ s.ci = "stale")
                  /\ {"release", "health"} \subseteq world.up
     IN  work' = With(q, [work[q] EXCEPT !.at = "exact",
           !.sys = IF named THEN [s EXCEPT !.sha = world.live, !.ci = "current", !.status = "attention"]
                   ELSE s])
  /\ UNCHANGED <<products, system, runs, evidence, world, clock, todo, changes, overlapped>>

\* The read-backs each stand on their own reads; those of one line of this list
\* read the world in one state here.
Tagged(p, rows) == {[slug |-> p.slug, stamp |-> p.stamp, row |-> r] : r \in rows}
Exact(c, w)     == UNION {CanonicalCore(c, w), CanonicalP08(c, w), CanonicalP09(c, w),
                          CanonicalP13(c, w), CanonicalExact(c, w), DirectExact(c, w)}
Lasting(c, w)   == DurableProtected(c, w) \union DurableSecuritySupply(c, w)
Pages(c, w)     == UNION {DigitalTechnical(c, w), DigitalP16(c, w), OneProtected(c, w),
                          OneDurable(c, w), CanonicalPortfolio(c, w)}

Collect(q) ==
  /\ work[q].at \in {"exact", "lasting", "pages"}
  /\ LET l == work[q].listing
         read(p) == CASE At(q, "exact")   -> Exact(Context(p, work[q].sys), world)
                      [] At(q, "lasting") -> Lasting(Context(p, work[q].sys), world)
                      [] At(q, "pages")   -> Pages(Context(p, work[q].sys), world)
         ids == IF At(q, "pages") THEN DOMAIN l ELSE Oldest(ZevOf(l))
     IN  work' = With(q, [work[q] EXCEPT !.rows = @ \union UNION {Tagged(l[i], read(l[i])) : i \in ids},
           !.at = CASE At(q, "exact") -> "lasting" [] At(q, "lasting") -> "pages" [] At(q, "pages") -> "shown"])
  /\ UNCHANGED <<products, system, runs, evidence, world, clock, todo, changes, overlapped>>

\* One record per slug: the active one, updated last.
Rank(p) == IF p.status = "archived" THEN 0 ELSE 1
Shown(l) == {i \in DOMAIN l : \A j \in DOMAIN l \ {i} : l[j].slug = l[i].slug =>
               \/ Rank(l[i]) > Rank(l[j])
               \/ Rank(l[i]) = Rank(l[j]) /\ (l[i].stamp > l[j].stamp \/ (l[i].stamp = l[j].stamp /\ i < j))}

-----------------------------------------------------------------------------
(* What goes on outside. *)

\* The process stops, or a call of a handler fails.
Cut(q) ==
  /\ work[q].at \notin {"idle", "refused", "shown"}
  /\ work' = With(q, NoWork)
  /\ UNCHANGED <<products, system, runs, evidence, world, clock, todo, changes, overlapped>>

Changing == changes > 0 /\ changes' = changes - 1

Deploy ==
  /\ Changing
  /\ \E r \in Release \ {world.live} :
       /\ world' = [world EXCEPT !.live = r]
       /\ work' = [q \in Proc |-> IF At(q, "idle") THEN work[q]
                                  ELSE [work[q] EXCEPT !.lately = @ \union {r}]]
  /\ UNCHANGED <<products, system, runs, evidence, clock, todo, overlapped>>

\* The Control Core and the proof chain follow the release in production.
CatchUp ==
  /\ Changing
  /\ world.core.sha # world.live
  /\ world' = [world EXCEPT !.core.sha = world.live, !.chain = world.live]
  /\ UNCHANGED <<products, system, runs, evidence, work, clock, todo, overlapped>>

Flicker ==
  /\ Changing
  /\ \E s \in Flaky : world' = [world EXCEPT !.up = IF s \in @ THEN @ \ {s} ELSE @ \union {s}]
  /\ UNCHANGED <<products, system, runs, evidence, work, clock, todo, overlapped>>

Products(q) == \/ List(q) \/ Migrate(q) \/ FillAudit(q) \/ AddMissing(q) \/ Consult(q)
               \/ Get(q) \/ Outdate(q) \/ Relist(q) \/ Decide(q) \/ Write(q)
Execute(q)  == \/ Telemetry(q) \/ Snapshot(q) \/ Invalidate(q) \/ Supersede(q) \/ StartRun(q)
               \/ Check(q) \/ Store(q) \/ Finish(q) \/ Fail(q)
Panel(q)    == ReadPart(q) \/ Overlay(q) \/ Identity(q) \/ Collect(q)

CertInit ==
  /\ \E c \in Cases : /\ products = c.products /\ world = c.world
                       /\ todo = c.jobs /\ changes = c.changes
  /\ system = [sha |-> None, ci |-> "none", status |-> "attention"]
  /\ runs = <<>> /\ evidence = <<>>
  /\ work = [q \in Proc |-> NoWork]
  /\ clock = 1 /\ overlapped = {}

CertNext ==
  \/ \E q \in Proc : Begin(q) \/ Products(q) \/ Execute(q) \/ Panel(q) \/ End(q) \/ Cut(q)
  \/ Deploy \/ CatchUp \/ Flicker

CertSpec == CertInit /\ [][CertNext]_certVars

-----------------------------------------------------------------------------
(***************************************************************************)
(* What a run's record says is true: it is complete only with its evidence *)
(* stored, and evidence comes only from runs that went through all sixteen *)
(* pillars for the version and release the record names.                   *)
(***************************************************************************)
RunsTruthful ==
  /\ \A r \in DOMAIN runs : runs[r].status = "complete" => r \in DOMAIN evidence
  /\ \A r \in DOMAIN evidence : /\ runs[r].done = 16 /\ DOMAIN evidence[r].found = AllPillars
                                /\ evidence[r].print = runs[r].print

(***************************************************************************)
(* A product certified by stored evidence owes it to one run that proved   *)
(* every applicable pillar of this very version and release; the results   *)
(* of different runs are not added up, unless two runs of the product were *)
(* under way together.                                                     *)
(***************************************************************************)
CertifiedByOneRun ==
  \A i \in DOMAIN products :
    LET p == products[i]
    IN  EdgeReady(p, system, evidence) /\ p.slug \notin overlapped =>
          \E r \in Counted(p, system, evidence) : \A d \in Applicable(p) : evidence[r].found[d] = "proved"

(***************************************************************************)
(* When the panel shows ZEVANORY certified on read-backs alone, the        *)
(* release it names was in production while the panel was being computed,  *)
(* whatever was deployed between its reads.                                *)
(***************************************************************************)
PanelReadyWasLive ==
  \A q \in Proc : At(q, "shown") /\ Site[q] = "server" =>
    \A i \in Shown(work[q].listing) :
      LET p == work[q].listing[i]
      IN  Linked(p) /\ Ready(p, work[q].sys, <<>>, work[q].rows) => work[q].sys.sha \in work[q].lately

(***************************************************************************)
(* "Para ativar, o produto precisa estar Pronto, com comercial completo e  *)
(* certificacao ZEES-16 integralmente PROVADA" (App.tsx:908): a product    *)
(* that is all of that in the panel is not refused when its sale is turned *)
(* on and nothing else is changed.                                         *)
(***************************************************************************)
PanelCertified(p) ==
  LET s == Overlaid(system, world)
  IN  Ready(p, s, evidence, Tagged(p, Readbacks(Context(p, s), world)))
CertifiedCanSell ==
  \A q \in Proc : At(q, "refused") /\ work[q].task = "update" =>
    LET old == work[q].listing[1]
    IN  ~ /\ work[q].have = [old EXCEPT !.onSale = TRUE, !.stamp = work[q].have.stamp]
          /\ Complete(old) /\ PanelCertified(old)
=============================================================================
