--------------------------- MODULE MetaPublisher ---------------------------
(***************************************************************************)
(* The publisher of creatives on Instagram and Facebook (runT3Publisher in *)
(* cf-worker/worker.ts), the owner's decisions and the creative factory,   *)
(* which write the same records.  A run lists the records, reserves the    *)
(* picture of one of them, and posts it on one network after the other;    *)
(* before every request to Meta it asks again for the certificate, the     *)
(* receipt of the picture and the sales switch.  Any two steps have an     *)
(* await between them: other runs and handlers go on, or the run ends.     *)
(***************************************************************************)
EXTENDS Naturals

CONSTANTS Creative,    \* records of creatives
          Media,       \* pictures, each with its caption
          Priced,      \* those with a price, a checkout link or a call to buy
          Composed,    \* those whose record carries their sha256
          Cert,        \* certificates of the certifier
          Runs,        \* publisher runs that go on at the same time
          Editors,     \* handlers of the panel and of the factory
          None,
          MaxRuns,     \* bound: runs begun
          MaxEdits,    \* bound: handlers begun
          MaxChanges   \* bound: changes of certificate, receipts and switch

ASSUME PublisherAssumption ==
  /\ Priced \subseteq Media /\ Composed \subseteq Media
  /\ None \notin Creative /\ None \notin Cert /\ None \notin Media
  /\ MaxRuns \in Nat /\ MaxEdits \in Nat /\ MaxChanges \in Nat

VARIABLES
  rec,        \* the records of the creatives
  claims,     \* the creative the picture is reserved for
  world,      \* the certificate, the receipts withdrawn, the sales switch
  posts,      \* number of posts of each picture on each network
  run,        \* what each run is doing
  edit,       \* what each handler is doing
  begun,      \* runs and handlers begun, changes made
  granted,    \* history: pictures reserved more than once
  doubt,      \* history: pictures whose record may not tell what was posted
  late,       \* history: posts a run made since a hold is in force
  approved,   \* history: what the owner approved, as <<creative, picture>>
  author      \* history: the creatives each picture was posted for

vars == <<rec, claims, world, posts, run, edit, begun, granted, doubt, late,
          approved, author>>

Network == {"instagram", "facebook"}
Hold == {"certificate", "receipt", "sales"}
Status == {"approval", "approved", "rejected", "published"}

-----------------------------------------------------------------------------
(* Records and checks *)

\* What the factory and the upload store: the evidence starts anew.
Fresh(m) == [status |-> "approval", media |-> m, receipt |-> None, ids |-> {},
             dated |-> FALSE]

NoItem == [status |-> "none", media |-> None, receipt |-> None, ids |-> {},
           dated |-> FALSE]
IdleRun == [pc |-> "idle", open |-> FALSE, creative |-> None, item |-> NoItem,
            cert |-> None, goal |-> "none"]
IdleEdit == [pc |-> "idle", via |-> "none", creative |-> None, seen |-> NoItem,
             media |-> None]
NotLate == [h \in Hold |-> 0]

\* What one who read the record as seen does not know of it.
Stale(c, seen) == rec[c].ids # seen.ids \/ rec[c].media # seen.media

\* verifyP04RenderedReceipt: the receipt is of this certificate and stands.
ReceiptStands(item, cert) ==
  item.receipt = cert /\ item.media \notin world.recalled

\* salesLockViolations on a closed switch.
SalesHeld(item, open) == ~open /\ item.media \in Priced

\* A composed picture some record already published.
AlreadyPublished(m) ==
  m \in Composed /\ \E d \in Creative : rec[d].status = "published" /\ rec[d].media = m

\* Mutant: whatever was not rejected is a candidate.
CandidateUnapproved(c, open) ==
  rec[c].status # "rejected" /\ ~rec[c].dated /\ ~SalesHeld(rec[c], open)
Candidate(c, open) ==
  /\ rec[c].status = "approved" /\ ~rec[c].dated
  /\ ~SalesHeld(rec[c], open)
  /\ ~AlreadyPublished(rec[c].media)

\* The network to post on next, by the ids in the evidence.
\* Mutant: the evidence is not looked at.
NextGoalForgets(ids) == "container"
NextGoal(ids) == IF "instagram" \notin ids THEN "container"
                 ELSE IF "facebook" \notin ids THEN "facebook" ELSE "none"

-----------------------------------------------------------------------------
(* A run *)

Init ==
  /\ \E k \in Cert :
       /\ world = [cert |-> k, recalled |-> {}, sales |-> TRUE]
       /\ \E pic \in [Creative -> Media] :
            rec = [c \in Creative |-> [Fresh(pic[c]) EXCEPT !.receipt = k]]
  /\ claims = [m \in Media |-> None]
  /\ posts = [m \in Media |-> [n \in Network |-> 0]]
  /\ run = [r \in Runs |-> IdleRun]
  /\ edit = [e \in Editors |-> IdleEdit]
  /\ begun = [runs |-> 0, edits |-> 0, changes |-> 0]
  /\ granted = {} /\ doubt = {} /\ approved = {}
  /\ late = [r \in Runs |-> NotLate]
  /\ author = [m \in Media |-> {}]

\* Steps with a creative in hand, and those with its picture reserved too.
Reserved == {"check", "receipt", "switch", "post", "save"}
InHand == {"certify", "verify", "claim"} \union Reserved

At(r, pc) == run[r].pc = pc
Goto(r, pc) == run' = [run EXCEPT ![r].pc = pc]
End(r) == run' = [run EXCEPT ![r] = IdleRun]
Forget(r) == late' = [late EXCEPT ![r] = NotLate]

\* The cron or the tick; the sales switch is read first.
Begin(r) ==
  /\ At(r, "idle") /\ begun.runs < MaxRuns
  /\ begun' = [begun EXCEPT !.runs = @ + 1]
  /\ run' = [run EXCEPT ![r].pc = "list", ![r].open = world.sales]
  /\ Forget(r)
  /\ UNCHANGED <<rec, claims, world, posts, edit, granted, doubt, approved, author>>

\* The list; the run publishes at most one creative, the first that passes.
List(r) ==
  /\ At(r, "list")
  /\ \E c \in Creative :
       /\ Candidate(c, run[r].open)
       /\ run' = [run EXCEPT ![r].pc = "certify", ![r].creative = c,
                             ![r].item = rec[c], ![r].open = FALSE]
  /\ UNCHANGED <<rec, claims, world, posts, edit, begun, granted, doubt, late,
                 approved, author>>

Certify(r) ==
  /\ At(r, "certify") /\ world.cert # None
  /\ run' = [run EXCEPT ![r].pc = "verify", ![r].cert = world.cert]
  /\ UNCHANGED <<rec, claims, world, posts, edit, begun, granted, doubt, late,
                 approved, author>>

Verify(r) ==
  /\ At(r, "verify") /\ ReceiptStands(run[r].item, run[r].cert)
  /\ Goto(r, "claim")
  /\ UNCHANGED <<rec, claims, world, posts, edit, begun, granted, doubt, late,
                 approved, author>>

\* The reservation service: a picture is reserved for one creative only.
\* Whether that creative gets its reservation again is up to the service.
Grants(m, c) == claims[m] \in {None, c}

UnderWay(m) == \E r \in Runs : run[r].pc \in Reserved /\ run[r].item.media = m

\* Mutant: the run goes on whatever the service answers.
ClaimUnverified(r) ==
  /\ At(r, "claim")
  /\ run' = [run EXCEPT ![r].pc = "check", ![r].goal = NextGoal(run[r].item.ids)]
  /\ UNCHANGED <<rec, claims, world, posts, edit, begun, granted, doubt, late,
                 approved, author>>
Claim(r) ==
  LET m == run[r].item.media  c == run[r].creative IN
  /\ At(r, "claim") /\ Grants(m, c)
  /\ claims' = [claims EXCEPT ![m] = c]
  /\ granted' = IF claims[m] = c THEN granted \union {m} ELSE granted
  /\ doubt' = IF UnderWay(m) \/ Stale(c, run[r].item) THEN doubt \union {m} ELSE doubt
  /\ \/ run' = [run EXCEPT ![r].pc = "check", ![r].goal = NextGoal(run[r].item.ids)]
     \/ End(r)          \* the answer is late or cannot be verified
  /\ UNCHANGED <<rec, world, posts, edit, begun, late, approved, author>>

\* recheckBeforeMetaPost: certificate, receipt and switch, one after the other.
CheckCertificate(r) ==
  /\ At(r, "check") /\ world.cert = run[r].cert
  /\ Goto(r, "receipt")
  /\ UNCHANGED <<rec, claims, world, posts, edit, begun, granted, doubt, late,
                 approved, author>>

CheckReceipt(r) ==
  /\ At(r, "receipt") /\ ReceiptStands(run[r].item, run[r].cert)
  /\ Goto(r, "switch")
  /\ UNCHANGED <<rec, claims, world, posts, edit, begun, granted, doubt, late,
                 approved, author>>

CheckSwitch(r) ==
  /\ At(r, "switch") /\ ~SalesHeld(run[r].item, world.sales)
  /\ Goto(r, "post")
  /\ UNCHANGED <<rec, claims, world, posts, edit, begun, granted, doubt, late,
                 approved, author>>

\* The container of an Instagram post: nothing is visible yet.
CreateContainer(r) ==
  /\ At(r, "post") /\ run[r].goal = "container"
  /\ run' = [run EXCEPT ![r].pc = "check", ![r].goal = "instagram"]
  /\ UNCHANGED <<rec, claims, world, posts, edit, begun, granted, doubt, late,
                 approved, author>>

InForce(r) ==
  {h \in Hold :
     CASE h = "certificate" -> world.cert # run[r].cert
       [] h = "receipt"     -> run[r].item.media \in world.recalled
       [] h = "sales"       -> SalesHeld(run[r].item, world.sales)}

\* media_publish and photos: the post is made, and answered or not.
Post(r) ==
  LET m == run[r].item.media  n == run[r].goal IN
  /\ At(r, "post") /\ n \in Network
  /\ posts' = [posts EXCEPT ![m][n] = @ + 1]
  /\ author' = [author EXCEPT ![m] = @ \union {run[r].creative}]
  /\ late' = [late EXCEPT ![r] = [h \in Hold |->
                 IF h \in InForce(r) THEN @[h] + 1 ELSE @[h]]]
  /\ \/ Goto(r, "save") /\ UNCHANGED doubt
     \/ End(r) /\ doubt' = doubt \union {m}
  /\ UNCHANGED <<rec, claims, world, edit, begun, granted, approved>>

\* Mutant: a failed post is not noticed.
PostFailUnnoticed(r) ==
  /\ At(r, "post") /\ run[r].goal \in Network
  /\ Goto(r, "save")
  /\ UNCHANGED <<rec, claims, world, posts, edit, begun, granted, doubt, late,
                 approved, author>>
PostFail(r) ==
  /\ At(r, "post") /\ run[r].goal \in Network
  /\ End(r)
  /\ UNCHANGED <<rec, claims, world, posts, edit, begun, granted, doubt, late,
                 approved, author>>

\* The record as the run listed it, with the new id: the last write makes it
\* published.
Posted(r) ==
  LET ids == run[r].item.ids \union {run[r].goal} IN
  IF NextGoal(ids) = "none"
  THEN [run[r].item EXCEPT !.ids = ids, !.status = "published", !.dated = TRUE]
  ELSE [run[r].item EXCEPT !.ids = ids]

\* Mutant: Facebook follows Instagram without a check.
SaveUnchecked(r) ==
  /\ At(r, "save")
  /\ rec' = [rec EXCEPT ![run[r].creative] = Posted(r)]
  /\ IF Posted(r).status = "published" THEN End(r) /\ Forget(r)
     ELSE /\ run' = [run EXCEPT ![r].pc = "post", ![r].item = Posted(r),
                                ![r].goal = NextGoal(Posted(r).ids)]
          /\ UNCHANGED late
  /\ UNCHANGED <<claims, world, posts, edit, begun, granted, doubt, approved, author>>

\* It is written back whole; after Instagram the run goes on with Facebook.
Save(r) ==
  LET c == run[r].creative IN
  /\ At(r, "save")
  /\ rec' = [rec EXCEPT ![c] = Posted(r)]
  /\ doubt' = IF Stale(c, run[r].item)
              THEN doubt \union {run[r].item.media, rec[c].media} ELSE doubt
  /\ IF Posted(r).status = "published" THEN End(r) /\ Forget(r)
     ELSE /\ run' = [run EXCEPT ![r].pc = "check", ![r].item = Posted(r),
                                ![r].goal = NextGoal(Posted(r).ids)]
          /\ UNCHANGED late
  /\ UNCHANGED <<claims, world, posts, edit, begun, granted, approved, author>>

\* A check that fails, an error, the end of the worker: the reservation stays.
Cut(r) ==
  /\ ~At(r, "idle")
  /\ End(r) /\ Forget(r)
  /\ doubt' = IF At(r, "save") THEN doubt \union {run[r].item.media} ELSE doubt
  /\ UNCHANGED <<rec, claims, world, posts, edit, begun, granted, approved, author>>

-----------------------------------------------------------------------------
(* The owner and the factory *)

\* A decision at the edge, one at the server, and a picture that replaces the
\* one of a waiting record.
Waits(c) == rec[c].status = "approval"
Via == {"edge-approve", "edge-reject", "server-approve", "server-reject", "factory"}

BeginEdit(e, c, via, m) ==
  /\ edit[e].pc = "idle" /\ begun.edits < MaxEdits
  /\ via \in {"server-approve", "server-reject"} \/ Waits(c)
  /\ via = "factory" \/ m = rec[c].media
  /\ begun' = [begun EXCEPT !.edits = @ + 1]
  /\ edit' = [edit EXCEPT ![e] = [pc |-> "write", via |-> via, creative |-> c,
                                  seen |-> rec[c], media |-> m]]
  /\ UNCHANGED <<rec, claims, world, posts, run, granted, doubt, late, approved,
                 author>>

\* The server's normalisation keeps no receipt.
Edited(e) ==
  LET seen == edit[e].seen IN
  CASE edit[e].via = "edge-approve"   -> [seen EXCEPT !.status = "approved"]
    [] edit[e].via = "edge-reject"    -> [seen EXCEPT !.status = "rejected"]
    [] edit[e].via = "server-approve" -> [seen EXCEPT !.status = "approved", !.receipt = None]
    [] edit[e].via = "server-reject"  -> [seen EXCEPT !.status = "rejected", !.receipt = None]
    [] edit[e].via = "factory"        -> Fresh(edit[e].media)

EndEdit(e) ==
  LET c == edit[e].creative  m == edit[e].media IN
  /\ edit[e].pc = "write"
  /\ rec' = [rec EXCEPT ![c] = Edited(e)]
  /\ doubt' = IF Stale(c, edit[e].seen) THEN doubt \union {m, rec[c].media} ELSE doubt
  /\ approved' = IF Edited(e).status = "approved"
                 THEN approved \union {<<c, m>>} ELSE approved
  /\ edit' = [edit EXCEPT ![e] = IdleEdit]
  /\ UNCHANGED <<claims, world, posts, run, begun, granted, late, author>>

CutEdit(e) ==
  /\ edit[e].pc = "write"
  /\ edit' = [edit EXCEPT ![e] = IdleEdit]
  /\ UNCHANGED <<rec, claims, world, posts, run, begun, granted, doubt, late,
                 approved, author>>

-----------------------------------------------------------------------------
(* The certifier and the sales switch, outside this repository *)

\* The certifier approves the picture of a record.
Attach(c) ==
  /\ world.cert # None /\ rec[c].media \notin world.recalled
  /\ rec[c].receipt # world.cert
  /\ rec' = [rec EXCEPT ![c].receipt = world.cert]
  /\ UNCHANGED <<claims, world, posts, run, edit, begun, granted, doubt, late,
                 approved, author>>

\* A hold that is lifted is not in force any more.
Change(new) ==
  /\ begun.changes < MaxChanges /\ new # world
  /\ begun' = [begun EXCEPT !.changes = @ + 1]
  /\ world' = new
  /\ late' = [r \in Runs |-> [h \in Hold |->
                IF \/ h = "certificate" /\ new.cert = run[r].cert
                   \/ h = "sales" /\ new.sales
                THEN 0 ELSE late[r][h]]]
  /\ UNCHANGED <<rec, claims, posts, run, edit, granted, doubt, approved, author>>

ChangeCertificate == \E k \in Cert \union {None} : Change([world EXCEPT !.cert = k])
Recall == \E m \in Media : Change([world EXCEPT !.recalled = @ \union {m}])
TurnSwitch == Change([world EXCEPT !.sales = ~@])

Publish(r) ==
  \/ Begin(r) \/ List(r) \/ Certify(r) \/ Verify(r) \/ Claim(r)
  \/ CheckCertificate(r) \/ CheckReceipt(r) \/ CheckSwitch(r)
  \/ CreateContainer(r) \/ Post(r) \/ PostFail(r) \/ Save(r) \/ Cut(r)

Edit(e) ==
  \/ \E c \in Creative, via \in Via, m \in Media : BeginEdit(e, c, via, m)
  \/ EndEdit(e) \/ CutEdit(e)

Environment ==
  \/ \E c \in Creative : Attach(c)
  \/ ChangeCertificate \/ Recall \/ TurnSwitch

Next == (\E r \in Runs : Publish(r)) \/ (\E e \in Editors : Edit(e)) \/ Environment
Spec == Init /\ [][Next]_vars

-----------------------------------------------------------------------------
(* Properties *)

Record == [status : Status, media : Media, receipt : Cert \union {None},
           ids : SUBSET Network, dated : BOOLEAN]
RunPc == {"idle", "list"} \union InHand

\* The network a run is about to post on is not in the evidence it listed.
GoalFits(r) ==
  \/ run[r].goal = "container" /\ run[r].pc # "save" /\ "instagram" \notin run[r].item.ids
  \/ run[r].goal \in Network \ run[r].item.ids

\* Types; a run past the list has a creative in hand, and one with its picture
\* reserved has a network left to post on.
TypeOK ==
  /\ rec \in [Creative -> Record]
  /\ claims \in [Media -> Creative \union {None}]
  /\ world \in [cert : Cert \union {None}, recalled : SUBSET Media, sales : BOOLEAN]
  /\ posts \in [Media -> [Network -> Nat]]
  /\ run \in [Runs -> [pc : RunPc, open : BOOLEAN, creative : Creative \union {None},
                       item : Record \union {NoItem}, cert : Cert \union {None},
                       goal : Network \union {"container", "none"}]]
  /\ \A r \in Runs :
       /\ run[r].pc \in InHand => run[r].creative \in Creative /\ run[r].item \in Record
       /\ run[r].pc \in Reserved => GoalFits(r)
  /\ edit \in [Editors -> [pc : {"idle", "write"}, via : Via \union {"none"},
                           creative : Creative \union {None},
                           seen : Record \union {NoItem},
                           media : Media \union {None}]]
  /\ begun \in [runs : 0..MaxRuns, edits : 0..MaxEdits, changes : 0..MaxChanges]
  /\ granted \subseteq Media /\ doubt \subseteq Media
  /\ late \in [Runs -> [Hold -> Nat]]
  /\ approved \subseteq Creative \X Media
  /\ author \in [Media -> SUBSET Creative]

\* Each network gets a picture at most once (the comments at worker.ts:646 and
\* 681), however often runs fail and are repeated.  Twice only if the service
\* reserves the picture again for its creative and its record did not tell of
\* the first post: two runs at once, a post whose answer or record was lost, a
\* record written over by a handler or a run that read it before.
EachNetworkOnce ==
  \A m \in Media, n \in Network : posts[m][n] > 1 => m \in granted /\ m \in doubt

\* A picture is posted for one creative only, whatever copies of it there are.
OneCreativePerPicture == \A m \in Media : \A c, d \in author[m] : c = d

\* While a hold is in force - the certificate is withdrawn or another one, the
\* receipt is withdrawn, sales are closed and the text has a price - a run makes
\* one post at most, the one whose checks came before it.
OneLatePost == \A r \in Runs, h \in Hold : late[r][h] <= 1

\* What a record says was posted was posted; one that is published was posted
\* on both networks, whoever wrote over the record in between.
RecordsTruthful ==
  \A c \in Creative :
    /\ \A n \in rec[c].ids : posts[rec[c].media][n] > 0
    /\ rec[c].status = "published" => rec[c].ids = Network

\* Only what the owner approved is posted (worker.ts:504): the very picture, and
\* for the creative it was approved for, though the factory replaces pictures of
\* waiting records and handlers write records back whole.
OnlyApprovedPosted ==
  \A m \in Media : \A c \in author[m] : <<c, m>> \in approved

=============================================================================
