-------------------------- MODULE MCMetaPublisher --------------------------
(***************************************************************************)
(* Instances for TLC of the Meta robot: how briefs and creatives come into *)
(* being (CreativeFactory), how an approved one is published               *)
(* (MetaPublisher), and what the people who answer it write (MetaWebhook). *)
(* The three share no state the models keep, so each behaviour runs one of *)
(* them.                                                                   *)
(***************************************************************************)
EXTENDS MetaPublisher, CreativeFactory, MetaWebhook, TLC

CONSTANTS p1, p2, e1, e2, a1

\* T2_PRODUCT_SLUGS is a list: the factory takes the first that is missing.
TwoProducts == <<p1, p2>>

\* One person writes two messages; Meta delivers the first alone or both in one entry.
OneAuthor  == e1 :> a1 @@ e2 :> a1
TwoBatches == {<<e1>>, <<e1, e2>>}

VARIABLE scenario

\* The runs of the publisher, the jobs of the factory and the deliveries are calls of
\* the same worker and carry the same names (a behaviour has only one of the three).
\* They are interchangeable, and so are handlers, creatives and certificates.
Symmetry == Permutations(Runs) \union Permutations(Editors)
              \union Permutations(Creative) \union Permutations(Cert)

RobotInit ==
  /\ scenario \in {"factory", "publisher", "webhook"}
  /\ Init /\ (scenario # "publisher" => \A c \in Creative : rec[c].media \in Priced)
  /\ FactoryInit
  /\ HookInit

RobotNext ==
  /\ UNCHANGED scenario
  /\ \/ scenario = "factory" /\ FactoryNext /\ UNCHANGED <<vars, hookVars>>
     \/ scenario = "publisher" /\ Next /\ UNCHANGED <<factoryVars, hookVars>>
     \/ scenario = "webhook" /\ WebhookNext /\ UNCHANGED <<vars, factoryVars>>

RobotSpec == RobotInit /\ [][RobotNext]_<<vars, factoryVars, hookVars, scenario>>
=============================================================================
