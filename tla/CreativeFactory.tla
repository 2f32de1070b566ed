--------------------------- MODULE CreativeFactory ---------------------------
(***************************************************************************)
(* Where the creatives come from: the daily briefs of the commercial robot *)
(* in the Render server, the factory of the edge worker (T2), which the    *)
(* server calls after every tick of the robot and others by a signed       *)
(* request, and the upload of a composed picture.  Each lists the bucket,  *)
(* works - a picture takes a minute - and writes what it decided from that *)
(* list; a write that was given up may still be carried out.               *)
(*                                                                         *)
(* One bucket stands for both stores (DualStore); the owner's decision on  *)
(* a waiting creative is one step here (its own race is MetaPublisher's).  *)
(***************************************************************************)
EXTENDS Naturals, FiniteSets, Sequences

CONSTANTS Products,     \* T2_PRODUCT_SLUGS, in their order
          Enough,       \* creatives awaiting approval that end the briefs of earlier days (5)
          Job,          \* factory runs, uploads and ticks that may be under way together
          MaxEvents,    \* bound: signed requests, decisions of the owner, calls that fail
                        \* and restarts of the server, together
          MaxDay        \* bound: days

ASSUME FactoryAssumption == {Enough, MaxEvents} \subseteq Nat /\ MaxDay \in Nat \ {0}

VARIABLES
  pieces,     \* the statuses of a product's creatives, in the order of their creation
  briefs,     \* ... and of its briefs, by the date of their key
  job,        \* each job: what it does, how far it is and what it keeps of its list
  ticking,    \* robotTickRunning
  day,        \* the date
  events,     \* what has been used of the bound
  crossed     \* ghost: products two jobs worked on together

bucket == <<pieces, briefs>>
factoryVars == <<bucket, job, ticking, day, events, crossed>>

Slug == {Products[i] : i \in 1..Len(Products)}
Idle == [at |-> "idle", kind |-> "none", product |-> "none", ready |-> 0, others |-> {},
         todo |-> {}, seen |-> {}, date |-> 0]

Waiting(p) == {i \in DOMAIN pieces[p] : pieces[p][i] = "approval"}
First(S) == IF S = {} THEN 0 ELSE CHOOSE i \in S : \A k \in S : i <= k

\* A product with a decided creative, and none that waits, is missing one again.
Ready(p) == p \in Slug /\ Waiting(p) # {}

Missing == {i \in 1..Len(Products) : ~Ready(Products[i])}
Counted == events < MaxEvents /\ events' = events + 1
Works == UNCHANGED events

\* A job holds a product from its list to its write.
Holds(j, p) == job[j].at \in {"make", "write", "brief"} /\ job[j].product = p
Crossing(j, p) == crossed' = IF \E k \in Job \ {j} : Holds(k, p) THEN crossed \union {p} ELSE crossed
Ends(j) == job' = [job EXCEPT ![j] = Idle]
Goes(j, at) == job' = [job EXCEPT ![j].at = at]

-----------------------------------------------------------------------------
(***************************************************************************)
(* runT2CreativeFactory: "tick" makes the first creative that is missing,  *)
(* "only" and "force" the one they are asked for, "finalize" none.         *)
(***************************************************************************)
Start(j, at, kind, p) ==
  /\ job[j].at = "idle"
  /\ job' = [job EXCEPT ![j] = [Idle EXCEPT !.at = at, !.kind = kind, !.product = p]]
  /\ UNCHANGED <<bucket, day, crossed>>

Ask(j) == /\ \/ \E kind \in {"only", "force", "upload"}, p \in Slug : Start(j, "list", kind, p)
             \/ Start(j, "list", "finalize", "none")
          /\ Counted /\ UNCHANGED ticking

Target(j) == CASE job[j].kind = "tick" -> IF Missing = {} THEN "none" ELSE Products[First(Missing)]
               [] OTHER -> job[j].product

Skips(j, p) == p = "none" \/ (job[j].kind \in {"tick", "only"} /\ Ready(p))

ListExisting(j) ==
  /\ job[j].at = "list"
  /\ LET p == Target(j)
     IN  \/ Skips(j, p) /\ Goes(j, "after") /\ UNCHANGED crossed
         \/ /\ ~Skips(j, p)
            /\ job' = [job EXCEPT ![j] = [@ EXCEPT !.product = p,
                         !.at = IF job[j].kind = "upload" THEN "write" ELSE "make",
                         !.ready = First(Waiting(p)), !.others = Waiting(p) \ {First(Waiting(p))}]]
            /\ Crossing(j, p)
  /\ Works /\ UNCHANGED <<bucket, ticking, day>>

\* The published page is read, the picture made and stored: any of them may fail.
Make(j) ==
  /\ job[j].at = "make"
  /\ (Goes(j, "write") /\ Works) \/ (Ends(j) /\ Counted)
  /\ UNCHANGED <<bucket, ticking, day, crossed>>

\* The factory replaces the creative it was forced to make again; the upload keeps the
\* first that waited and archives the rest.  The call may fail after it was carried out.
WriteWith(j, keeps) ==
  /\ job[j].at = "write"
  /\ LET p == job[j].product
         stored == IF keeps
                   THEN [pieces EXCEPT ![p] = [i \in DOMAIN @ |->
                           IF i = job[j].ready THEN "approval"
                           ELSE IF job[j].kind = "upload" /\ i \in job[j].others THEN "archived"
                           ELSE @[i]]]
                   ELSE [pieces EXCEPT ![p] = Append(@, "approval")]
     IN  \/ /\ pieces' = stored /\ Works
            /\ IF job[j].kind = "upload" THEN Ends(j) ELSE Goes(j, "after")
         \/ Counted /\ Ends(j) /\ pieces' \in {stored, pieces}
  /\ UNCHANGED <<briefs, ticking, day, crossed>>

\* Mutant: what is made again is added.
WriteAdds(j) == WriteWith(j, FALSE)
Write(j) == WriteWith(j, job[j].ready # 0)

\* The briefs of earlier days end when enough creatives wait.
ListAfter(j) ==
  /\ job[j].at = "after"
  /\ LET enough == Cardinality({p \in Slug : Ready(p)}) >= Enough
         old == {o \in Slug \X (1..(day - 1)) \X (1..2) :
                   o[3] <= Len(briefs[o[1]][o[2]]) /\ briefs[o[1]][o[2]][o[3]] = "brief"}
     IN  IF enough /\ job[j].kind \in {"tick", "finalize"} /\ old # {}
         THEN job' = [job EXCEPT ![j].at = "archive", ![j].others = old]
         ELSE Ends(j)
  /\ Works /\ UNCHANGED <<bucket, ticking, day, crossed>>

ArchiveBriefs(j) ==
  /\ job[j].at = "archive"
  /\ LET stored == [p \in Slug |-> [d \in 1..MaxDay |->
                      [i \in DOMAIN briefs[p][d] |->
                         IF <<p, d, i>> \in job[j].others THEN "archived" ELSE briefs[p][d][i]]]]
     IN  (briefs' = stored /\ Works) \/ (briefs' \in {stored, briefs} /\ Counted)
  /\ Ends(j)
  /\ UNCHANGED <<pieces, ticking, day, crossed>>

-----------------------------------------------------------------------------
(***************************************************************************)
(* Every fifteen minutes the server runs the robot's tick and then calls   *)
(* the factory.  A tick that finds another one running is skipped.  In it, *)
(* generateDailyBriefs gives a brief to each product that had none of      *)
(* today's in the list made at the start.                                  *)
(***************************************************************************)
Tick(j) ==
  /\ Start(j, IF ticking THEN "list" ELSE "first", "tick", "none")
  /\ ticking' = TRUE /\ Works

ListBriefs(j) ==
  /\ job[j].at = "first"
  /\ job' = [job EXCEPT ![j].at = "briefs", ![j].todo = Slug,
               ![j].seen = {pd \in Slug \X (1..MaxDay) : briefs[pd[1]][pd[2]] # <<>>}]
  /\ Works /\ UNCHANGED <<bucket, ticking, day, crossed>>

\* The key of a brief is the date at its turn; upsertBySourceKey looks for it again.
FindBrief(j, p) ==
  /\ job[j].at = "briefs" /\ p \in job[j].todo /\ <<p, day>> \notin job[j].seen
  /\ job' = [job EXCEPT ![j] = [job[j] EXCEPT !.at = "brief", !.product = p, !.todo = job[j].todo \ {p},
               !.ready = IF briefs[p][day] = <<>> THEN 0 ELSE 1, !.date = day]]
  /\ Crossing(j, p)
  /\ Works /\ UNCHANGED <<bucket, ticking, day>>

\* A call that fails ends the tick; one that was sent before a restart ends nothing.
WriteBrief(j) ==
  /\ job[j].at = "brief"
  /\ LET stored == [briefs EXCEPT ![job[j].product][job[j].date] =
                      IF job[j].ready = 0 THEN Append(@, "brief") ELSE [@ EXCEPT ![1] = "brief"]]
     IN  \/ /\ briefs' = stored /\ Works /\ UNCHANGED ticking
            /\ IF job[j].kind = "lost" THEN Ends(j) ELSE Goes(j, "briefs")
         \/ /\ job[j].kind # "lost" /\ briefs' \in {stored, briefs} /\ Counted
            /\ Ends(j) /\ ticking' = FALSE
  /\ UNCHANGED <<pieces, day, crossed>>

TickEnds(j) ==
  /\ job[j].at = "briefs" /\ \A p \in job[j].todo : <<p, day>> \in job[j].seen
  /\ job' = [job EXCEPT ![j] = [Idle EXCEPT !.at = "list", !.kind = "tick"]]
  /\ ticking' = FALSE
  /\ Works /\ UNCHANGED <<bucket, day, crossed>>

\* The server is started again: a call it had sent may still be carried out.
Restart ==
  /\ ticking /\ Counted
  /\ ticking' = FALSE
  /\ \E landing \in {"lost", "none"} :
       job' = [j \in Job |->
                 CASE job[j].at \notin {"first", "briefs", "brief"} -> job[j]
                   [] job[j].at = "brief" /\ landing = "lost" -> [job[j] EXCEPT !.kind = "lost"]
                   [] OTHER -> Idle]
  /\ UNCHANGED <<bucket, day, crossed>>

-----------------------------------------------------------------------------
\* The owner approves or rejects a creative that waits.
Decide(p, i) ==
  /\ i \in Waiting(p) /\ Counted
  /\ pieces' = [pieces EXCEPT ![p][i] = "decided"]
  /\ UNCHANGED <<briefs, job, ticking, day, crossed>>

Midnight ==
  /\ day < MaxDay /\ day' = day + 1
  /\ Works /\ UNCHANGED <<bucket, job, ticking, crossed>>

FactoryInit ==
  /\ pieces = [p \in Slug |-> <<>>]
  /\ briefs = [p \in Slug |-> [d \in 1..MaxDay |-> <<>>]]
  /\ job = [j \in Job |-> Idle] /\ ticking = FALSE /\ day = 1
  /\ events = 0 /\ crossed = {}

JobStep(j) ==
  \/ ListExisting(j) \/ Make(j) \/ Write(j) \/ ListAfter(j) \/ ArchiveBriefs(j)
  \/ ListBriefs(j) \/ (\E p \in Slug : FindBrief(j, p)) \/ WriteBrief(j) \/ TickEnds(j)

FactoryNext ==
  \/ \E j \in Job : JobStep(j) \/ Tick(j) \/ Ask(j)
  \/ Restart \/ Midnight
  \/ \E p \in Slug : \E i \in DOMAIN pieces[p] : Decide(p, i)

FactorySpec == FactoryInit /\ [][FactoryNext]_factoryVars

-----------------------------------------------------------------------------
(***************************************************************************)
(* Whatever ticks, requests, uploads, failures and restarts follow one     *)
(* another, a product never has two creatives awaiting approval, nor two   *)
(* briefs of one day, unless two jobs held it between their list and their *)
(* write at the same time: what each lists is enough when they take turns, *)
(* and the product that is forced is replaced, not added.                  *)
(***************************************************************************)
MadeOnce ==
  \A p \in Slug \ crossed :
    /\ Cardinality(Waiting(p)) <= 1
    /\ \A d \in 1..MaxDay : Len(briefs[p][d]) <= 1
=============================================================================
