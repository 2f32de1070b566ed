------------------------------ MODULE Verifiers ------------------------------
(***************************************************************************)
(* The ZEES-16 verifiers (backend/zees-verifiers.ts, its edge copy, and    *)
(* the read-backs of backend/index.ts): what each pillar's check concludes *)
(* from the context of a target and from what it reads of the world.       *)
(*                                                                         *)
(* A context c is                                                          *)
(*   slug, profile   the target and its certification profile              *)
(*   described       description and delivery model are filled in          *)
(*   urls            which of "page", "checkout" the target has            *)
(*   gates, audit    gates set, audit dimensions graded                    *)
(*   linked          it has a source system, whose status, sha (None: not  *)
(*                   declared), ci, availability (full) and evidence lines *)
(*                   follow; tags are the kinds of line found among them   *)
(* and a world w is                                                        *)
(*   up              the surfaces that answer                              *)
(*   page            what the public page shows                            *)
(*   live            the release in production                             *)
(*   core            the release, proved pillars and completeness of the   *)
(*                   Control Core's snapshot, and its decision             *)
(*   chain           the release the proof chain names                     *)
(*   collected       per release, the gates that passed bound to it        *)
(*   runs            protected workflow runs: workflow, what they are of   *)
(*                   (a release or a slug); read as the ten latest runs    *)
(*   blobs           files that still have the blob they were proved with  *)
(*   kept            read-back proofs whose artifact has not expired       *)
(*   closed          whether sales are globally blocked                    *)
(* Messages, artifact lists and texts are left out.                        *)
(***************************************************************************)
EXTENDS Naturals, FiniteSets

CONSTANTS Release,  \* commit SHAs of production
          Proven,   \* the release the durable proofs of the code name (runtimeSha)
          None

WorldParts == {"up", "page", "live", "core", "chain", "collected", "runs", "blobs", "kept",
               "closed"}

ASSUME ProvenAssumption == Proven \in Release /\ None \notin Release

AllPillars == {"P01", "P02", "P03", "P04", "P05", "P06", "P07", "P08",
               "P09", "P10", "P11", "P12", "P13", "P14", "P15", "P16"}
Reusable   == {"P01", "P02", "P04", "P06", "P10", "P14", "P15"}
Portfolio  == {"ia-na-pratica", "vendas-na-pratica", "combo-ia-vendas",
               "lucro-e-caixa", "negocio-completo", "zevanory-one"}
Digital    == Portfolio \ {"zevanory-one"}
AllGates   == {"legal", "payment", "fulfillment", "support"}

\* A proof names the release or file it is of; other results name nothing.
Proof(of) == [status |-> "proved", of |-> of]
Result(s) == [status |-> s, of |-> None]
NoProof   == [status |-> "none", of |-> None]

Graded(c, all, some) == IF all \subseteq c.tags THEN Result("proved")
                        ELSE IF some THEN Result("partial") ELSE Result("blocked")
\* proved with every kind of line, partial with one of them, otherwise blocked
AllOf(c, kinds) == Graded(c, kinds, c.tags \intersect kinds # {})

CiHealthy(c) == c.ci = "green"
CiCurrent(c) == c.ci \notin {"none", "stale"}
PageUp(c, w) == "page" \in c.urls /\ "page" \in w.up

-----------------------------------------------------------------------------
(* Proofs bound to an exact release, of the product ZEVANORY only. *)

\* The Control Core's own certification, when it is of the declared release.  A
\* source without a declared SHA accepts the core's release, whatever it is.
CoreProof(pillar, c, w) ==
  IF /\ c.slug = "zevanory" /\ pillar \in Reusable /\ "core" \in w.up
     /\ c.sha \in {None, w.core.sha} /\ pillar \in w.core.proved
    THEN Proof(w.core.sha) ELSE NoProof

\* Gates collected by the control plane, all bound to the declared release.
CollectedProof(c, w, names) ==
  IF /\ c.slug = "zevanory" /\ c.sha # None /\ {"control", "github"} \subseteq w.up
     /\ w.live = c.sha /\ names \subseteq w.collected[c.sha]
    THEN Proof(c.sha) ELSE NoProof

\* A successful protected run whose workflow names the release and whose artifact
\* is kept.
ProtectedProof(c, w, workflow) ==
  IF /\ c.slug = "zevanory" /\ c.sha # None /\ "github" \in w.up
     /\ \E r \in w.runs : r.workflow = workflow /\ r.of = c.sha /\ r.kept
    THEN Proof(c.sha) ELSE NoProof

SupplyProof(c, w) == ProtectedProof(c, w, "zevanory-p08-supply-chain")

\* The same for a portfolio page: the run's commit still holds the page's blob.
PortfolioProof(c, w, workflow) ==
  IF /\ c.slug \in Portfolio /\ "github" \in w.up
     /\ \E r \in w.runs : r.workflow = workflow /\ r.of = c.slug /\ r.kept
    THEN Proof(c.slug) ELSE NoProof

PrivacyProof(c, w) ==
  IF /\ c.slug = "zevanory" /\ c.sha # None /\ {"control", "policies"} \subseteq w.up
     /\ w.live = c.sha /\ w.closed
    THEN Proof(c.sha) ELSE NoProof

DataProof(c, w) ==
  IF /\ c.slug = "zevanory" /\ c.sha # None
     /\ {"health", "control", "core", "policies"} \subseteq w.up
     /\ {w.live, w.chain, w.core.sha} = {c.sha} /\ w.core.allows
    THEN Proof(c.sha) ELSE NoProof

\* The first that proves, otherwise what was observed.
First(proof, observed) == IF proof.status = "proved" THEN proof ELSE observed

-----------------------------------------------------------------------------
(* What each pillar concludes from live probes and evidence lines. *)

P01(c, w) == IF ~(c.described /\ PageUp(c, w)) THEN Result("blocked")
             ELSE IF "architecture" \in c.tags THEN Result("proved") ELSE Result("partial")

P02(c, w) == IF ~(PageUp(c, w) /\ "html" \in w.page) THEN Result("blocked")
             ELSE IF "visual" \in c.tags /\ "ux" \in c.audit THEN Result("proved")
             ELSE Result("partial")

Geometry(c, w) == IF ~(PageUp(c, w) /\ "viewport" \in w.page) THEN Result("blocked")
                  ELSE IF "geometry" \in c.tags /\ "stylesheet" \in w.page THEN Result("proved")
                  ELSE Result("partial")
P03(c, w) ==
  First(PortfolioProof(c, w, "portfolio-p03-exact"),
  First(CollectedProof(c, w, {"apex", "p02-visual", "p04-wcag", "remote-quality"}), Geometry(c, w)))

P04(c, w) == IF ~PageUp(c, w) THEN Result("blocked")
             ELSE IF "wcag-pass" \in c.tags THEN Result("proved")
             ELSE IF \/ Cardinality({"lang", "title", "viewport", "aria"} \intersect w.page) >= 3
                     \/ "wcag" \in c.tags
               THEN Result("partial") ELSE Result("blocked")

Engineering(c) == IF ~c.linked THEN Result("blocked")
                  ELSE IF CiHealthy(c) /\ "engineering" \in c.tags THEN Result("proved")
                  ELSE IF CiCurrent(c) THEN Result("partial") ELSE Result("blocked")
P05(c, w) == First(CollectedProof(c, w, {"apex", "zees-gate"}), Engineering(c))

P06(c, w) == LET found == {"unit", "integration", "e2e", "regression"} \intersect c.tags
             IN  IF Cardinality(found) >= 3 /\ CiHealthy(c) THEN Result("proved")
                 ELSE IF found # {} THEN Result("partial") ELSE Result("blocked")

Security(c, w) == LET scans == {"sast", "dast", "sca"}
                      https == "https" \in w.page
                  IN  IF ~https THEN Result("blocked")
                      ELSE Graded(c, scans, "headers" \in w.page \/ scans \intersect c.tags # {})
P07(c, w) == First(ProtectedProof(c, w, "zevanory-p07-app-security"), Security(c, w))

P08(c, w) == First(SupplyProof(c, w), AllOf(c, {"sbom", "sca", "provenance"}))

Privacy(c) == IF "legal" \in c.gates /\ "privacy-twice" \in c.tags THEN Result("proved")
              ELSE IF "legal" \in c.gates \/ {"privacy", "privacy-twice"} \intersect c.tags # {}
                THEN Result("partial") ELSE Result("blocked")
P09(c, w) == First(PrivacyProof(c, w), Privacy(c))

P10(c, w) == AllOf(c, {"backup", "restore", "failover", "objectives"})

\* Three probes of the page, the slowest within 2.5 s.
Performance(c, w) == IF ~PageUp(c, w) THEN Result("blocked")
                     ELSE IF "fast" \in w.page /\ "vitals" \in c.tags THEN Result("proved")
                     ELSE Result("partial")
P11(c, w) == First(CollectedProof(c, w, {"apex", "remote-quality", "p12-slo"}), Performance(c, w))

Observability(c, w) ==
  LET kinds == {"metrics", "logs", "traces", "slo"}
  IN  IF c.linked /\ c.status = "healthy" /\ kinds \subseteq c.tags /\ PageUp(c, w) THEN Result("proved")
      ELSE IF PageUp(c, w) /\ (c.linked \/ kinds \intersect c.tags # {}) THEN Result("partial")
      ELSE Result("blocked")
P12(c, w) == First(ProtectedProof(c, w, "zevanory-p12-observability"), Observability(c, w))

P13(c, w) == First(DataProof(c, w), AllOf(c, {"schema", "lineage", "retention", "quality"}))

AiProfile(profile) == profile \in {"AI_AGENTIC_PLATFORM", "COMMERCE_CONTROL_PLANE"}
P14(c, w) == IF ~AiProfile(c.profile) THEN Result("na")
             ELSE AllOf(c, {"guardrails", "injection", "drift", "model-failover"})

P15(c, w) == IF /\ c.sha # None /\ CiHealthy(c) /\ "deploy" \in c.tags
                /\ PageUp(c, w) \/ c.full
               THEN Result("proved")
             ELSE IF c.sha # None /\ CiCurrent(c) THEN Result("partial") ELSE Result("blocked")

Lifecycle(c, w) ==
  IF ~(c.gates = AllGates /\ {"checkout"} \subseteq c.urls \intersect w.up) THEN Result("blocked")
  ELSE IF {"payment", "fulfillment", "onboarding", "support", "refund"} \subseteq c.tags
    THEN Result("proved") ELSE Result("partial")
P16(c, w) == First(ProtectedProof(c, w, "zevanory-p16-deterministic"), Lifecycle(c, w))

\* executeZeesVerifier: the core's proof first, then the pillar's verifier.
Verifier(pillar, c, w) ==
  First(CoreProof(pillar, c, w),
    CASE pillar = "P01" -> P01(c, w) [] pillar = "P02" -> P02(c, w)
      [] pillar = "P03" -> P03(c, w) [] pillar = "P04" -> P04(c, w)
      [] pillar = "P05" -> P05(c, w) [] pillar = "P06" -> P06(c, w)
      [] pillar = "P07" -> P07(c, w) [] pillar = "P08" -> P08(c, w)
      [] pillar = "P09" -> P09(c, w) [] pillar = "P10" -> P10(c, w)
      [] pillar = "P11" -> P11(c, w) [] pillar = "P12" -> P12(c, w)
      [] pillar = "P13" -> P13(c, w) [] pillar = "P14" -> P14(c, w)
      [] pillar = "P15" -> P15(c, w) [] pillar = "P16" -> P16(c, w))

-----------------------------------------------------------------------------
(***************************************************************************)
(* The read-backs adminData adds to the stored evidence, as sets of        *)
(* [pillar, of, sha]: what was proved, of which release, and the SHA that  *)
(* goes into the fingerprint of the row (None: computed without a source). *)
(* All rows are authoritative except the core's and those of P09 and P13.  *)
(***************************************************************************)
Row(pillar, of, sha, strong) == [pillar |-> pillar, of |-> of, sha |-> sha, strong |-> strong]

CanonicalCore(c, w) ==
  IF "core" \in w.up /\ c.slug = "zevanory" /\ c.sha \in {None, w.core.sha} /\ w.core.complete
    THEN {Row(p, w.core.sha, c.sha, FALSE) : p \in Reusable \intersect w.core.proved} ELSE {}

\* The verifier of one pillar, when the release is declared and it is proved.
Readback(pillar, c, w, strong) ==
  IF c.slug = "zevanory" /\ c.sha # None /\ Verifier(pillar, c, w).status = "proved"
    THEN {Row(pillar, c.sha, c.sha, strong)} ELSE {}
CanonicalP08(c, w) == Readback("P08", c, w, TRUE)
CanonicalP09(c, w) == Readback("P09", c, w, FALSE)
CanonicalP13(c, w) == Readback("P13", c, w, FALSE)

CanonicalExact(c, w) ==
  UNION {Readback(p, c, w, TRUE) : p \in {"P03", "P05", "P07", "P11", "P12", "P16"}}

\* Portfolio targets, verified without a source system: only P03.
CanonicalPortfolio(c, w) ==
  IF c.slug \in Portfolio /\ Verifier("P03", c, w).status = "proved"
    THEN {Row("P03", c.slug, None, TRUE)} ELSE {}

\* All sixteen or none: the workflows of the live release, the dedicated verifiers
\* for that release, and the control plane naming it as well.
RequiredGates == {"apex", "p02-visual", "p04-wcag", "p12-slo", "zees-gate", "remote-quality",
                  "recovery", "quorum", "independence", "p15-provenance", "deploy"}
\* Mutant: what the live release proves is filed under the declared one, and the
\* dedicated verifiers are not asked for.
DirectExactUnbound(c, w) ==
  IF /\ c.slug = "zevanory" /\ {"release", "health", "github", "control", "policies"} \subseteq w.up
     /\ RequiredGates \subseteq w.collected[w.live]
    THEN {Row(p, w.live, c.sha, TRUE) : p \in AllPillars} ELSE {}
DirectExact(c, w) ==
  LET source == [c EXCEPT !.sha = w.live, !.linked = TRUE]
  IN  IF /\ c.slug = "zevanory" /\ {"release", "health", "github", "control", "policies"} \subseteq w.up
         /\ c.sha \in {None, w.live}
         /\ RequiredGates \subseteq w.collected[w.live]
         /\ \A p \in {"P07", "P08", "P09", "P12", "P16"} : Verifier(p, source, w).status = "proved"
         /\ w.chain = w.live
        THEN {Row(p, w.live, w.live, TRUE) : p \in AllPillars} ELSE {}

\* Proofs kept for one release, while it is the one in production.
Durable(c, w, pillars) ==
  IF /\ c.slug = "zevanory" /\ c.sha \in {None, Proven}
     /\ "release" \in w.up /\ w.live = Proven
    THEN {Row(p, Proven, Proven, TRUE) : p \in {q \in pillars : q \in w.kept /\ "github" \in w.up}}
    ELSE {}
DurableProtected(c, w)      == Durable(c, w, {"P12", "P16"})
DurableSecuritySupply(c, w) == Durable(c, w, {"P07", "P08"})

\* The pages of the portfolio, by the blobs they still have.
BlobsProved(c, w, files) ==
  files \subseteq w.blobs /\ {"github", "release"} \subseteq w.up /\ w.live = Proven
DigitalTechnical(c, w) ==
  IF c.slug \in Digital /\ "technical" \in w.kept /\ BlobsProved(c, w, {c.slug, "shared"})
    THEN {Row(p, c.slug, None, TRUE) : p \in AllPillars \ {"P14", "P16"}} ELSE {}
DigitalP16(c, w) ==
  IF c.slug \in Digital /\ "digital-p16" \in w.kept /\ BlobsProved(c, w, {c.slug})
    THEN {Row("P16", c.slug, None, TRUE)} ELSE {}

\* rawGithubBlobSha of the page and of its contract, and the workflow's markers.
OneDurable(c, w) ==
  IF /\ c.slug = "zevanory-one" /\ "one" \in w.kept /\ w.closed
     /\ BlobsProved(c, w, {c.slug, "contract"})
    THEN {Row(p, c.slug, None, TRUE) : p \in AllPillars \ {"P14"}} ELSE {}
\* The same with the protected run and its artifact read back as well.
OneProtected(c, w) ==
  IF \E r \in w.runs : r.workflow = "zevanory-one-exact-saas-cert" /\ r.of = c.slug /\ r.kept
    THEN OneDurable(c, w) ELSE {}

Readbacks(c, w) ==
  UNION {CanonicalCore(c, w), CanonicalP08(c, w), CanonicalP09(c, w), CanonicalP13(c, w),
         CanonicalExact(c, w), DirectExact(c, w), DurableProtected(c, w),
         DurableSecuritySupply(c, w), DigitalTechnical(c, w), DigitalP16(c, w),
         OneProtected(c, w), OneDurable(c, w), CanonicalPortfolio(c, w)}

-----------------------------------------------------------------------------
(* The edge's verifiers have no exact proofs. *)
EdgeSurface(pillar, c, w) ==
  CASE pillar = "P01" -> P01(c, w) [] pillar = "P02" -> P02(c, w)
    [] pillar = "P03" -> Geometry(c, w) [] pillar = "P04" -> P04(c, w)
    [] pillar = "P05" -> Engineering(c) [] pillar = "P06" -> P06(c, w)
    [] pillar = "P07" -> Security(c, w)
    [] pillar = "P08" -> AllOf(c, {"sbom", "sca", "provenance"})
EdgeOperation(pillar, c, w) ==
  CASE pillar = "P09" -> Privacy(c) [] pillar = "P10" -> P10(c, w)
    [] pillar = "P11" -> Performance(c, w) [] pillar = "P12" -> Observability(c, w)
    [] pillar = "P13" -> AllOf(c, {"schema", "lineage", "retention", "quality"})
    [] pillar = "P14" -> P14(c, w) [] pillar = "P15" -> P15(c, w)
    [] pillar = "P16" -> Lifecycle(c, w)
EdgeVerifier(pillar, c, w) ==
  IF pillar \in {"P01", "P02", "P03", "P04", "P05", "P06", "P07", "P08"}
    THEN EdgeSurface(pillar, c, w) ELSE EdgeOperation(pillar, c, w)
=============================================================================
