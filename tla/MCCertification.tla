--------------------------- MODULE MCCertification ---------------------------
(***************************************************************************)
(* Instances for TLC of the panel's evidence: the products and their       *)
(* certification, the telemetry refreshes with their incidents, and the    *)
(* trust strip.  The three share no state the models keep, so each         *)
(* behaviour runs one of them.                                             *)
(***************************************************************************)
EXTENDS Certification, Incidents, Trust, TLC

CONSTANTS q1, q2, r1, r2

\* Products: one with everything a sale asks for, one that is a draft.
Full == [slug |-> "zevanory", titled |-> TRUE, described |-> TRUE, urls |-> {"page", "checkout"},
         gates |-> AllGates, audit |-> {"ux", "engineering"}, status |-> "ready",
         priced |-> TRUE, onSale |-> TRUE]
Draft == [slug |-> "zevanory-one", titled |-> FALSE, described |-> FALSE, urls |-> {"page"},
          gates |-> {}, audit |-> {}, status |-> "draft", priced |-> FALSE, onSale |-> FALSE]
Older == <<Normalized([Full EXCEPT !.onSale = FALSE, !.audit = {}], 1), Normalized(Draft, 1)>>
Today == <<Normalized([Full EXCEPT !.onSale = FALSE], 1),
           Normalized([Draft EXCEPT !.titled = TRUE, !.slug = "lucro-e-caixa"], 1)>>
MCCatalogue == {"zevanory", "lucro-e-caixa"}

\* The world as every verifier wants it, but for the services that are down.
AllUp == {"page", "checkout", "core", "control", "github", "policies", "health", "release"}
WorldOf(up) ==
  [up |-> up, page |-> {"html", "viewport", "stylesheet", "https", "headers", "lang", "title"},
   live |-> r1, core |-> [sha |-> r1, proved |-> Reusable, complete |-> TRUE, allows |-> TRUE],
   chain |-> r1,
   collected |-> [r \in Release |-> {"apex", "p02-visual", "p04-wcag", "p12-slo", "zees-gate",
     "remote-quality", "recovery", "quorum", "independence", "p15-provenance", "deploy"}],
   runs |-> {[workflow |-> wf, of |-> r, kept |-> TRUE] :
               wf \in {"zevanory-p07-app-security", "zevanory-p08-supply-chain",
                       "zevanory-p12-observability", "zevanory-p16-deterministic"},
               r \in Release},
   blobs |-> {}, kept |-> {"P12", "P16"}, closed |-> TRUE]
MCFeed == {[sha |-> r1, ci |-> "green"]}
MCSite == [q \in Proc |-> IF q = q1 THEN "server" ELSE "edge"]
MCTags == {"sast", "sbom", "backup", "schema", "guardrails", "privacy", "unit", "metrics", "wcag"}

\* What two requests at a time do.
Job(task, id, form) == [task |-> task, id |-> id, form |-> form]
Run1   == Job("run", 1, None)
Panel1 == Job("panel", 1, None)
Sell1  == Job("update", 1, Full)
Case(jobs, prods, up, n) ==
  [jobs |-> jobs, products |-> prods, world |-> WorldOf(up), changes |-> n]
MCCases ==
  {Case(<<Run1, Run1>>, Today, AllUp \ {"core"}, 2),
   Case(<<Panel1, Sell1>>, Today, AllUp, 1),
   Case(<<Panel1>>, Older, AllUp, 2),
   Case(<<Run1, Sell1>>, Today, AllUp, 0),
   Case(<<Run1, Panel1>>, Today, AllUp, 1),
   Case(<<Job("create", 1, [Draft EXCEPT !.onSale = TRUE]), Job("archive", 2, None)>>, Older, AllUp, 0)}

VARIABLE scenario

EvidenceInit ==
  /\ scenario \in {"certification", "telemetry", "trust"}
  /\ CertInit /\ (scenario # "certification" => world.up = AllUp /\ Len(todo) = 1)
  /\ IncInit /\ (scenario # "telemetry" => proven /\ \A s \in System : status[s] = "healthy")
  /\ TrustInit

\* The two releases of the trust strip are interchangeable.
Symmetry == Permutations(Sha)

EvidenceNext ==
  /\ UNCHANGED scenario
  /\ \/ scenario = "certification" /\ CertNext /\ UNCHANGED <<incVars, trustVars>>
     \/ scenario = "telemetry" /\ IncNext /\ UNCHANGED <<certVars, trustVars>>
     \/ scenario = "trust" /\ TrustNext /\ UNCHANGED <<certVars, incVars>>

EvidenceSpec == EvidenceInit /\ [][EvidenceNext]_<<certVars, incVars, trustVars, scenario>>
=============================================================================
