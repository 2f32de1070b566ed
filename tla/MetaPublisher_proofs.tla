------------------------ MODULE MetaPublisher_proofs ------------------------
(* Proofs about MetaPublisher, for any sets and bounds. *)
EXTENDS MetaPublisher, CreativeFactory, SequenceTheorems, FiniteSetTheorems, TLAPS

RunState == [pc : RunPc, open : BOOLEAN, creative : Creative \union {None},
             item : Record \union {NoItem}, cert : Cert \union {None},
             goal : Network \union {"container", "none"}]
EditState == [pc : {"idle", "write"}, via : Via \union {"none"},
              creative : Creative \union {None}, seen : Record \union {NoItem},
              media : Media \union {None}]

-----------------------------------------------------------------------------
(* Types *)

\* A record with both ids is dated, and so is not a candidate again.
Full(item) == item.ids = Network => item.dated

\* What a handler writes is a record: its bound variables are those TypeOK
\* leaves open.
EditFits(e) ==
  edit[e].pc = "write" =>
    /\ edit[e].creative \in Creative /\ edit[e].seen \in Record /\ Full(edit[e].seen)
    /\ edit[e].media \in Media /\ edit[e].via \in Via
RunFits(x) ==
  /\ x \in RunState
  /\ x.pc \in InHand =>
       x.creative \in Creative /\ x.item \in Record /\ x.item.ids # Network
  /\ x.pc \in Reserved =>
       \/ x.goal = "container" /\ x.pc # "save" /\ "instagram" \notin x.item.ids
       \/ x.goal \in Network \ x.item.ids
RunsTyped == run \in [Runs -> RunState] /\ \A r \in Runs : RunFits(run[r])

EditsTyped == edit \in [Editors -> EditState] /\ \A e \in Editors : EditFits(e)

StoreTyped ==
  /\ rec \in [Creative -> Record] /\ \A c \in Creative : Full(rec[c])
  /\ claims \in [Media -> Creative \union {None}]
  /\ world \in [cert : Cert \union {None}, recalled : SUBSET Media, sales : BOOLEAN]
  /\ posts \in [Media -> [Network -> Nat]]
BegunTyped == begun \in [runs : 0..MaxRuns, edits : 0..MaxEdits, changes : 0..MaxChanges]
HistoryTyped ==
  /\ granted \subseteq Media /\ doubt \subseteq Media
  /\ late \in [Runs -> [Hold -> Nat]]
  /\ approved \subseteq Creative \X Media
  /\ author \in [Media -> SUBSET Creative]

Typed == RunsTyped /\ EditsTyped /\ StoreTyped /\ BegunTyped /\ HistoryTyped

LEMMA NextGoalType ==
  ASSUME NEW ids \in SUBSET Network
  PROVE  /\ NextGoal(ids) \in Network \union {"container", "none"}
         /\ NextGoal(ids) = "container" <=> "instagram" \notin ids
         /\ NextGoal(ids) = "facebook" <=> "instagram" \in ids /\ "facebook" \notin ids
         /\ NextGoal(ids) = "none" <=> ids = Network
         /\ NextGoal(ids) # "instagram"
BY DEF NextGoal, Network

LEMMA PostedType ==
  ASSUME RunsTyped, NEW r \in Runs, run[r].pc = "save"
  PROVE  /\ Posted(r) \in Record
         /\ Posted(r).media = run[r].item.media
         /\ Posted(r).ids = run[r].item.ids \union {run[r].goal}
         /\ Posted(r).receipt = run[r].item.receipt
         /\ Posted(r).ids = Network =>
              Posted(r).status = "published" /\ Posted(r).dated
         /\ Posted(r).ids # Network =>
              /\ Posted(r).status = run[r].item.status
              /\ Posted(r).dated = run[r].item.dated
<1>. DEFINE ids == run[r].item.ids \union {run[r].goal}
<1>1. run[r].item \in Record /\ run[r].goal \in Network
  BY DEF RunsTyped, RunFits, InHand, Reserved
<1>2. ids \in SUBSET Network
  BY <1>1 DEF Record
<1>3. NextGoal(ids) = "none" <=> ids = Network
  BY <1>2, NextGoalType
<1>. QED
  BY <1>1, <1>2, <1>3 DEF Posted, Record, Status

LEMMA EditedType ==
  ASSUME NEW e \in Editors, EditFits(e), edit[e].pc = "write"
  PROVE  Edited(e) \in Record /\ Full(Edited(e))
BY DEF Full, Network, EditFits, Edited, Via, Record, Status, Fresh

LEMMA TypedTypeOK == Typed => TypeOK
<1>1. RunsTyped => /\ run \in [Runs -> RunState]
                   /\ \A r \in Runs :
                        /\ run[r].pc \in InHand => run[r].creative \in Creative
                                                    /\ run[r].item \in Record
                        /\ run[r].pc \in Reserved => GoalFits(r)
  BY DEF RunsTyped, RunFits, GoalFits
<1>. QED
  BY <1>1 DEF Typed, TypeOK, EditsTyped, StoreTyped, BegunTyped, HistoryTyped, RunState,
              EditState

LEMMA IdleFits == RunFits(IdleRun) /\ IdleEdit \in EditState
<1>1. NoItem \in Record \union {NoItem}
  OBVIOUS
<1>. HIDE DEF NoItem
<1>. QED
  BY <1>1 DEF RunFits, RunState, IdleRun, IdleEdit, EditState, RunPc, InHand, Reserved

LEMMA ReservedFits ==
  ASSUME NEW s \in RunState, s.creative \in Creative, NEW item \in Record, item.ids # Network,
         NEW goal, goal \in {"container", "facebook"},
         goal = "container" => "instagram" \notin item.ids,
         goal = "facebook" => "facebook" \notin item.ids
  PROVE  RunFits([s EXCEPT !.pc = "check", !.item = item, !.goal = goal])
<1>. DEFINE x == [s EXCEPT !.pc = "check", !.item = item, !.goal = goal]
<1>1. x \in RunState
  BY DEF RunState, Network, RunPc, InHand, Reserved
<1>2. x.pc = "check" /\ x.goal = goal /\ x.creative = s.creative /\ x.item = item
  BY DEF RunState
<1>3. goal = "container" \/ goal \in Network \ item.ids
  BY DEF Network
<1>4. x.pc # "save" /\ (x.goal = "container" => "instagram" \notin x.item.ids)
  BY <1>2
<1>5. PICK y : y = x
  OBVIOUS
<1>6. RunFits(y)
  <2>. HIDE DEF x
  <2>. QED
    BY <1>1, <1>2, <1>3, <1>4, <1>5 DEF RunFits
<1>. QED
  BY <1>5, <1>6

LEMMA RunStep ==
  ASSUME RunsTyped, NEW r \in Runs, NEW x, RunFits(x), run' = [run EXCEPT ![r] = x]
  PROVE  RunsTyped'
<1>1. run' \in [Runs -> RunState]
  BY DEF RunsTyped, RunFits
<1>2. \A q \in Runs : RunFits(run[q])'
  <2>. SUFFICES ASSUME NEW q \in Runs PROVE RunFits(run[q])'
    OBVIOUS
  <2>1. run'[q] = x \/ run'[q] = run[q]
    BY DEF RunsTyped
  <2>. QED
    BY <2>1 DEF RunsTyped, RunFits
<1>. QED
  BY <1>1, <1>2 DEF RunsTyped

\* Every record starts waiting and unposted.
LEMMA InitRecords ==
  Init => \A c \in Creative : rec[c].ids = {} /\ rec[c].status = "approval"
<1>. SUFFICES ASSUME Init, NEW c \in Creative
              PROVE  rec[c].ids = {} /\ rec[c].status = "approval"
  OBVIOUS
<1>1. PICK k \in Cert, pic \in [Creative -> Media] :
        rec = [d \in Creative |-> [Fresh(pic[d]) EXCEPT !.receipt = k]]
  BY DEF Init
<1>2. rec[c] = [Fresh(pic[c]) EXCEPT !.receipt = k]
  BY <1>1
<1>3. Fresh(pic[c]).ids = {} /\ Fresh(pic[c]).status = "approval"
  BY DEF Fresh
<1>. QED
  BY <1>2, <1>3 DEF Fresh

LEMMA InitTyped == Init => Typed
<1>. SUFFICES ASSUME Init PROVE Typed
  OBVIOUS
<1>1. RunsTyped /\ EditsTyped
  BY IdleFits DEF Init, RunsTyped, EditsTyped, EditFits, IdleEdit, RunFits
<1>2. StoreTyped
  <2>1. PICK k \in Cert, pic \in [Creative -> Media] :
          /\ world = [cert |-> k, recalled |-> {}, sales |-> TRUE]
          /\ rec = [c \in Creative |-> [Fresh(pic[c]) EXCEPT !.receipt = k]]
    BY DEF Init
  <2>. QED
    BY <2>1 DEF Init, StoreTyped, Record, Status, Fresh, Full, Network
<1>3. BegunTyped /\ HistoryTyped
  BY PublisherAssumption DEF Init, BegunTyped, HistoryTyped, NotLate
<1>. QED
  BY <1>1, <1>2, <1>3 DEF Typed

RunsKeep == UNCHANGED <<rec, claims, world, posts, edit, begun, granted, doubt, late,
                        approved, author>>

\* Steps of a run that only change what the run is doing.
LEMMA RunOnlyTyped ==
  ASSUME Typed, RunsTyped', RunsKeep
  PROVE  Typed'
BY DEF Typed, RunsKeep, EditsTyped, EditFits, StoreTyped, BegunTyped, HistoryTyped, Full

LEMMA NextTyped == Typed /\ [Next]_vars => Typed'
<1>. SUFFICES ASSUME Typed, Next PROVE Typed'
  <2>1. UNCHANGED vars /\ Typed => Typed'
    BY DEF Typed, RunsTyped, EditsTyped, EditFits, StoreTyped, BegunTyped, HistoryTyped, Full, vars
  <2>. QED
    BY <2>1
<1>0. RunsTyped /\ EditsTyped /\ StoreTyped /\ BegunTyped /\ HistoryTyped
  BY DEF Typed
<1>. USE PublisherAssumption
<1>. USE DEF At, Goto, End, Forget
<1>1. ASSUME NEW r \in Runs, Begin(r) PROVE Typed'
  <2>1. RunFits([run[r] EXCEPT !.pc = "list", !.open = world.sales])
    BY <1>0 DEF RunsTyped, RunFits, RunState, StoreTyped, RunPc, InHand, Reserved
  <2>2. RunsTyped'
    BY <1>0, <1>1, <2>1, RunStep DEF Begin, RunsTyped
  <2>3. BegunTyped' /\ HistoryTyped'
    BY <1>0, <1>1 DEF Begin, BegunTyped, HistoryTyped, NotLate
  <2>. QED
    BY <1>0, <1>1, <2>2, <2>3 DEF Begin, Typed, EditsTyped, EditFits, StoreTyped, Full
<1>2. ASSUME NEW r \in Runs, List(r) PROVE Typed'
  <2>1. PICK c \in Creative :
          /\ Candidate(c, run[r].open)
          /\ run' = [run EXCEPT ![r].pc = "certify", ![r].creative = c, ![r].item = rec[c],
                                ![r].open = FALSE]
    BY <1>2 DEF List
  <2>. DEFINE x == [run[r] EXCEPT !.pc = "certify", !.creative = c, !.item = rec[c],
                                  !.open = FALSE]
  <2>2. RunFits(x)
    <3>1. run[r] \in RunState /\ rec[c] \in Record /\ rec[c].ids # Network
      BY <1>0, <2>1 DEF RunsTyped, RunFits, StoreTyped, Candidate, Full
    <3>2. x \in RunState /\ x.pc = "certify" /\ x.creative = c /\ x.item = rec[c]
      BY <3>1 DEF RunState, RunPc, InHand
    <3>. QED
      BY <3>1, <3>2 DEF RunFits, Reserved
  <2>3. RunsTyped'
    BY <1>0, <2>1, <2>2, RunStep DEF RunsTyped
  <2>. QED
    BY <1>2, <2>3, RunOnlyTyped DEF List, RunsKeep
<1>3. ASSUME NEW r \in Runs, Certify(r) PROVE Typed'
  <2>0. run[r] \in RunState /\ world.cert \in Cert \union {None}
    BY <1>0 DEF RunsTyped, RunFits, StoreTyped
  <2>1. RunFits([run[r] EXCEPT !.pc = "verify", !.cert = world.cert])
    <3>1. [run[r] EXCEPT !.pc = "verify", !.cert = world.cert] \in RunState
      BY <2>0 DEF RunState, RunPc, InHand
    <3>. QED
      BY <1>0, <1>3, <2>0, <3>1 DEF Certify, RunsTyped, RunFits, RunState, InHand, Reserved
  <2>2. RunsTyped'
    BY <1>0, <1>3, <2>1, RunStep DEF Certify, RunsTyped
  <2>. QED
    BY <1>3, <2>2, RunOnlyTyped DEF Certify, RunsKeep
<1>4. ASSUME NEW r \in Runs, Verify(r) PROVE Typed'
  <2>1. RunFits([run[r] EXCEPT !.pc = "claim"])
    BY <1>0, <1>4 DEF Verify, RunsTyped, RunFits, RunState, RunPc, InHand, Reserved
  <2>2. RunsTyped'
    BY <1>0, <1>4, <2>1, RunStep DEF Verify, RunsTyped
  <2>. QED
    BY <1>4, <2>2, RunOnlyTyped DEF Verify, RunsKeep
<1>5. ASSUME NEW r \in Runs, Claim(r) PROVE Typed'
  <2>. DEFINE m == run[r].item.media
              c == run[r].creative
              x == [run[r] EXCEPT !.pc = "check", !.goal = NextGoal(run[r].item.ids)]
  <2>0. run[r] \in RunState /\ c \in Creative /\ run[r].item \in Record /\ m \in Media
        /\ run[r].item.ids \in SUBSET Network /\ run[r].item.ids # Network
    BY <1>0, <1>5 DEF Claim, RunsTyped, RunFits, InHand, Record
  <2>1. RunFits(x)
    <3>0. /\ NextGoal(run[r].item.ids) \in {"container", "facebook"}
          /\ NextGoal(run[r].item.ids) = "container" => "instagram" \notin run[r].item.ids
          /\ NextGoal(run[r].item.ids) = "facebook" => "facebook" \notin run[r].item.ids
      BY <2>0, NextGoalType DEF Network
    <3>1. PICK g : g = NextGoal(run[r].item.ids)
      OBVIOUS
    <3>2. /\ g \in {"container", "facebook"}
          /\ g = "container" => "instagram" \notin run[r].item.ids
          /\ g = "facebook" => "facebook" \notin run[r].item.ids
      BY <3>0, <3>1
    <3>3. RunFits([run[r] EXCEPT !.pc = "check", !.item = run[r].item, !.goal = g])
      BY <2>0, <3>2, ReservedFits
    <3>4. [run[r] EXCEPT !.pc = "check", !.item = run[r].item, !.goal = g]
            = [run[r] EXCEPT !.pc = "check", !.goal = g]
      BY <2>0 DEF RunState
    <3>. QED
      BY <3>1, <3>3, <3>4
  <2>2. RunsTyped'
    <3>1. run' = [run EXCEPT ![r] = x] \/ run' = [run EXCEPT ![r] = IdleRun]
      BY <1>0, <1>5 DEF Claim, RunsTyped
    <3>. QED
      BY <1>0, <2>1, <3>1, RunStep, IdleFits
  <2>3. StoreTyped' /\ HistoryTyped'
    BY <1>0, <1>5, <2>0 DEF Claim, StoreTyped, HistoryTyped, Full
  <2>. QED
    BY <1>0, <1>5, <2>2, <2>3 DEF Claim, Typed, EditsTyped, EditFits, BegunTyped, Full
<1>6. ASSUME NEW r \in Runs, CheckCertificate(r) \/ CheckReceipt(r) \/ CheckSwitch(r)
      PROVE Typed'
  <2>1. PICK pc \in {"receipt", "switch", "post"} :
          /\ run' = [run EXCEPT ![r].pc = pc]
          /\ run[r].pc \in {"check", "receipt", "switch"}
    BY <1>6 DEF CheckCertificate, CheckReceipt, CheckSwitch
  <2>2. RunFits([run[r] EXCEPT !.pc = pc])
    BY <1>0, <2>1 DEF RunsTyped, RunFits, RunState, RunPc, InHand, Reserved
  <2>3. RunsTyped'
    BY <1>0, <2>1, <2>2, RunStep DEF RunsTyped
  <2>. QED
    BY <1>6, <2>3, RunOnlyTyped DEF CheckCertificate, CheckReceipt, CheckSwitch, RunsKeep
<1>7. ASSUME NEW r \in Runs, CreateContainer(r) PROVE Typed'
  <2>1. RunFits([run[r] EXCEPT !.pc = "check", !.goal = "instagram"])
    BY <1>0, <1>7 DEF CreateContainer, RunsTyped, RunFits, RunState, RunPc, InHand, Reserved,
                      Network
  <2>2. RunsTyped'
    BY <1>0, <1>7, <2>1, RunStep DEF CreateContainer, RunsTyped
  <2>. QED
    BY <1>7, <2>2, RunOnlyTyped DEF CreateContainer, RunsKeep
<1>8. ASSUME NEW r \in Runs, Post(r) PROVE Typed'
  <2>0. run[r].item.media \in Media /\ run[r].creative \in Creative
    BY <1>0, <1>8 DEF Post, RunsTyped, RunFits, InHand, Reserved, Record
  <2>1. RunFits([run[r] EXCEPT !.pc = "save"])
    BY <1>0, <1>8 DEF Post, RunsTyped, RunFits, RunState, RunPc, InHand, Reserved, Network
  <2>2. RunsTyped'
    <3>1. run' = [run EXCEPT ![r] = [run[r] EXCEPT !.pc = "save"]]
          \/ run' = [run EXCEPT ![r] = IdleRun]
      BY <1>0, <1>8 DEF Post, RunsTyped
    <3>. QED
      BY <1>0, <2>1, <3>1, RunStep, IdleFits
  <2>3. StoreTyped'
    BY <1>0, <1>8, <2>0 DEF Post, StoreTyped, Full
  <2>4. HistoryTyped'
    <3>1. late' \in [Runs -> [Hold -> Nat]]
      BY <1>0, <1>8 DEF Post, HistoryTyped
    <3>. QED
      BY <1>0, <1>8, <2>0, <3>1 DEF Post, HistoryTyped
  <2>. QED
    BY <1>0, <1>8, <2>2, <2>3, <2>4 DEF Post, Typed, EditsTyped, EditFits, BegunTyped, Full
<1>9. ASSUME NEW r \in Runs, PostFail(r) PROVE Typed'
  <2>1. RunsTyped'
    BY <1>0, <1>9, RunStep, IdleFits DEF PostFail
  <2>. QED
    BY <1>9, <2>1, RunOnlyTyped DEF PostFail, RunsKeep
<1>10. ASSUME NEW r \in Runs, Save(r) PROVE Typed'
  <2>. DEFINE x == [run[r] EXCEPT !.pc = "check", !.item = Posted(r),
                                  !.goal = NextGoal(Posted(r).ids)]
  <2>0. /\ run[r] \in RunState /\ run[r].creative \in Creative
        /\ run[r].item \in Record /\ run[r].item.media \in Media
        /\ rec[run[r].creative].media \in Media
    BY <1>0, <1>10 DEF Save, RunsTyped, RunFits, StoreTyped, InHand, Reserved, Record
  <2>1. Posted(r) \in Record /\ Full(Posted(r)) /\ Posted(r).ids \in SUBSET Network
    BY <1>0, <1>10, PostedType DEF Save, Full, Record
  <2>2. CASE Posted(r).status = "published"
    <3>1. RunsTyped'
      BY <1>0, <1>10, <2>2, RunStep, IdleFits DEF Save
    <3>2. StoreTyped'
      BY <1>0, <1>10, <2>0, <2>1 DEF Save, StoreTyped, Full
    <3>3. HistoryTyped'
      BY <1>0, <1>10, <2>0, <2>2 DEF Save, HistoryTyped, NotLate
    <3>. QED
      BY <1>0, <1>10, <3>1, <3>2, <3>3 DEF Save, Typed, EditsTyped, EditFits, BegunTyped, Full
  <2>3. CASE Posted(r).status # "published"
    <3>1. Posted(r).ids # Network
      BY <1>0, <1>10, <2>3, PostedType DEF Save
    <3>2. /\ NextGoal(Posted(r).ids) \in {"container", "facebook"}
          /\ NextGoal(Posted(r).ids) = "container" => "instagram" \notin Posted(r).ids
          /\ NextGoal(Posted(r).ids) = "facebook" => "facebook" \notin Posted(r).ids
      BY <2>1, <3>1, NextGoalType DEF Network
    <3>3. PICK g : g = NextGoal(Posted(r).ids)
      OBVIOUS
    <3>4. RunFits(x)
      <4>1. RunFits([run[r] EXCEPT !.pc = "check", !.item = Posted(r), !.goal = g])
        <5>1. /\ g \in {"container", "facebook"}
              /\ g = "container" => "instagram" \notin Posted(r).ids
              /\ g = "facebook" => "facebook" \notin Posted(r).ids
          BY <3>2, <3>3
        <5>. QED
          BY <2>0, <2>1, <3>1, <5>1, ReservedFits
      <4>. QED
        BY <3>3, <4>1
    <3>5. RunsTyped'
      BY <1>0, <1>10, <2>3, <3>4, RunStep DEF Save, RunsTyped
    <3>6. StoreTyped' /\ HistoryTyped'
      BY <1>0, <1>10, <2>0, <2>1, <2>3 DEF Save, StoreTyped, HistoryTyped, Full
    <3>. QED
      BY <1>0, <1>10, <3>5, <3>6, <2>3 DEF Save, Typed, EditsTyped, EditFits, BegunTyped, Full
  <2>. QED
    BY <2>2, <2>3
<1>11. ASSUME NEW r \in Runs, Cut(r) PROVE Typed'
  <2>1. RunsTyped'
    BY <1>0, <1>11, RunStep, IdleFits DEF Cut
  <2>2. HistoryTyped'
    BY <1>0, <1>11 DEF Cut, HistoryTyped, NotLate, RunsTyped, RunFits, InHand, Reserved, Record
  <2>. QED
    BY <1>0, <1>11, <2>1, <2>2
       DEF Cut, Typed, EditsTyped, EditFits, StoreTyped, BegunTyped, Full
<1>12. ASSUME NEW e \in Editors, NEW c \in Creative, NEW via \in Via, NEW m \in Media,
              BeginEdit(e, c, via, m)
       PROVE Typed'
  <2>1. EditsTyped'
    BY <1>0, <1>12 DEF BeginEdit, EditsTyped, EditState, EditFits, StoreTyped
  <2>2. BegunTyped'
    BY <1>0, <1>12 DEF BeginEdit, BegunTyped
  <2>. QED
    BY <1>0, <1>12, <2>1, <2>2
       DEF BeginEdit, Typed, RunsTyped, RunFits, StoreTyped, HistoryTyped, Full
<1>13. ASSUME NEW e \in Editors, EndEdit(e) PROVE Typed'
  <2>0. /\ edit[e].creative \in Creative /\ edit[e].media \in Media
        /\ Edited(e) \in Record /\ Full(Edited(e))
        /\ rec[edit[e].creative].media \in Media
    BY <1>0, <1>13, EditedType DEF EndEdit, EditsTyped, EditFits, StoreTyped, Record
  <2>1. EditsTyped'
    BY <1>0, <1>13, IdleFits DEF EndEdit, EditsTyped, EditFits, IdleEdit
  <2>2. StoreTyped'
    BY <1>0, <1>13, <2>0 DEF EndEdit, StoreTyped
  <2>3. HistoryTyped'
    BY <1>0, <1>13, <2>0 DEF EndEdit, HistoryTyped
  <2>. QED
    BY <1>0, <1>13, <2>1, <2>2, <2>3 DEF EndEdit, Typed, RunsTyped, RunFits, BegunTyped
<1>14. ASSUME NEW e \in Editors, CutEdit(e) PROVE Typed'
  <2>1. EditsTyped'
    BY <1>0, <1>14, IdleFits DEF CutEdit, EditsTyped, EditFits, IdleEdit
  <2>. QED
    BY <1>0, <1>14, <2>1
       DEF CutEdit, Typed, RunsTyped, RunFits, StoreTyped, BegunTyped, HistoryTyped, Full
<1>15. ASSUME NEW c \in Creative, Attach(c) PROVE Typed'
  <2>1. StoreTyped'
    BY <1>0, <1>15 DEF Attach, StoreTyped, Record, Full
  <2>. QED
    BY <1>0, <1>15, <2>1
       DEF Attach, Typed, RunsTyped, RunFits, EditsTyped, EditFits, BegunTyped, HistoryTyped, Full
<1>16. ASSUME ChangeCertificate \/ Recall \/ TurnSwitch PROVE Typed'
  <2>1. PICK new : /\ Change(new)
                   /\ new \in [cert : Cert \union {None}, recalled : SUBSET Media,
                               sales : BOOLEAN]
    <3>1. CASE ChangeCertificate
      <4>1. PICK k \in Cert \union {None} : Change([world EXCEPT !.cert = k])
        BY <3>1 DEF ChangeCertificate
      <4>. QED
        BY <1>0, <4>1 DEF StoreTyped
    <3>2. CASE Recall
      <4>1. PICK m \in Media : Change([world EXCEPT !.recalled = @ \union {m}])
        BY <3>2 DEF Recall
      <4>2. world.recalled \union {m} \in SUBSET Media
        BY <1>0 DEF StoreTyped
      <4>3. [world EXCEPT !.recalled = world.recalled \union {m}]
              \in [cert : Cert \union {None}, recalled : SUBSET Media, sales : BOOLEAN]
        BY <1>0, <4>2 DEF StoreTyped
      <4>. QED
        BY <4>1, <4>3
    <3>3. CASE TurnSwitch
      <4>2. PICK open \in BOOLEAN : open = ~world.sales
        BY Zenon
      <4>3. [world EXCEPT !.sales = open]
              \in [cert : Cert \union {None}, recalled : SUBSET Media, sales : BOOLEAN]
        BY <1>0 DEF StoreTyped
      <4>. QED
        BY <3>3, <4>2, <4>3 DEF TurnSwitch
    <3>. QED
      BY <1>16, <3>1, <3>2, <3>3
  <2>2. StoreTyped' /\ BegunTyped'
    BY <1>0, <2>1 DEF Change, StoreTyped, BegunTyped, Full
  <2>3. HistoryTyped'
    BY <1>0, <2>1 DEF Change, HistoryTyped
  <2>. QED
    BY <1>0, <2>1, <2>2, <2>3
       DEF Change, Typed, RunsTyped, RunFits, EditsTyped, EditFits, Full
<1>. QED
  BY <1>1, <1>2, <1>3, <1>4, <1>5, <1>6, <1>7, <1>8, <1>9, <1>10, <1>11, <1>12, <1>13,
     <1>14, <1>15, <1>16
     DEF Next, Publish, Edit, Environment

\* The types of MetaPublisher, for any number of runs, handlers and creatives.
THEOREM TypeCorrect == Spec => []TypeOK
<1>1. Typed /\ [Next]_vars => Typed'
  BY NextTyped
<1>. QED
  BY InitTyped, <1>1, TypedTypeOK, PTL DEF Spec

-----------------------------------------------------------------------------
(* One creative per picture *)

\* A run past the reservation, and a post, belong to the creative the picture is
\* reserved for.
HoldsClaim(x) == x.pc \in Reserved => claims[x.item.media] = x.creative
RunsHold == \A r \in Runs : HoldsClaim(run[r])
AuthorsHold == \A m \in Media : \A c \in author[m] : claims[m] = c
ClaimInv == RunsHold /\ AuthorsHold

\* Steps that leave the reservations alone and change what one run is doing.
LEMMA HoldStep ==
  ASSUME RunsTyped, RunsHold, NEW r \in Runs, NEW x, run' = [run EXCEPT ![r] = x],
         HoldsClaim(x), UNCHANGED claims
  PROVE  RunsHold'
<1>. SUFFICES ASSUME NEW q \in Runs PROVE HoldsClaim(run[q])'
  BY DEF RunsHold
<1>1. run'[q] = x \/ run'[q] = run[q]
  BY DEF RunsTyped
<1>. QED
  BY <1>1 DEF RunsHold, HoldsClaim

LEMMA IdleHolds == HoldsClaim(IdleRun)
BY DEF HoldsClaim, IdleRun, Reserved

LEMMA InitClaim == Init => ClaimInv
BY DEF Init, ClaimInv, RunsHold, HoldsClaim, AuthorsHold, IdleRun, Reserved

LEMMA NextClaim == Typed /\ ClaimInv /\ [Next]_vars => ClaimInv'
<1>. SUFFICES ASSUME Typed, ClaimInv, Next PROVE ClaimInv'
  <2>1. UNCHANGED vars /\ ClaimInv => ClaimInv'
    BY DEF ClaimInv, RunsHold, HoldsClaim, AuthorsHold, vars
  <2>. QED
    BY <2>1
<1>0. RunsTyped /\ RunsHold /\ AuthorsHold
  BY DEF Typed, ClaimInv
<1>1. ASSUME NEW r \in Runs, Begin(r) \/ List(r) \/ Certify(r) \/ Verify(r) PROVE ClaimInv'
  <2>1. PICK x : run' = [run EXCEPT ![r] = x] /\ x.pc \notin Reserved
    <3>1. ASSUME Begin(r) PROVE \E x : run' = [run EXCEPT ![r] = x] /\ x.pc \notin Reserved
      <4>. DEFINE x == [run[r] EXCEPT !.pc = "list", !.open = world.sales]
      <4>1. run' = [run EXCEPT ![r] = x]
        BY <1>0, <3>1 DEF Begin, RunsTyped
      <4>2. x.pc = "list"
        BY <1>0 DEF RunsTyped, RunState
      <4>. HIDE DEF x
      <4>. QED
        BY <4>1, <4>2 DEF Reserved
    <3>2. ASSUME List(r) PROVE \E x : run' = [run EXCEPT ![r] = x] /\ x.pc \notin Reserved
      <4>1. PICK c \in Creative :
              run' = [run EXCEPT ![r].pc = "certify", ![r].creative = c, ![r].item = rec[c],
                                 ![r].open = FALSE]
        BY <3>2 DEF List
      <4>. DEFINE x == [run[r] EXCEPT !.pc = "certify", !.creative = c, !.item = rec[c],
                                      !.open = FALSE]
      <4>2. run' = [run EXCEPT ![r] = x]
        BY <1>0, <4>1 DEF RunsTyped
      <4>3. x.pc = "certify"
        BY <1>0 DEF RunsTyped, RunState
      <4>. HIDE DEF x
      <4>. QED
        BY <4>2, <4>3 DEF Reserved
    <3>3. ASSUME Certify(r) \/ Verify(r)
          PROVE \E x : run' = [run EXCEPT ![r] = x] /\ x.pc \notin Reserved
      BY <1>0, <3>3 DEF Certify, Verify, Goto, RunsTyped, RunFits, RunState, Reserved
    <3>. QED
      BY <1>1, <3>1, <3>2, <3>3
  <2>2. UNCHANGED <<claims, author>>
    BY <1>1 DEF Begin, List, Certify, Verify
  <2>. QED
    BY <1>0, <2>1, <2>2, HoldStep DEF HoldsClaim, ClaimInv, AuthorsHold
<1>2. ASSUME NEW r \in Runs, Claim(r) PROVE ClaimInv'
  <2>. DEFINE m == run[r].item.media
              c == run[r].creative
  <2>1. m \in Media /\ c \in Creative /\ claims[m] \in {None, c}
    BY <1>0, <1>2 DEF Claim, At, Grants, RunsTyped, RunFits, InHand, Record
  <2>2. claims' = [claims EXCEPT ![m] = c] /\ author' = author
    BY <1>2 DEF Claim
  <2>3. AuthorsHold'
    <3>. SUFFICES ASSUME NEW n \in Media, NEW d \in author[n] PROVE claims'[n] = d
      BY <2>2 DEF AuthorsHold
    <3>1. d \in Creative /\ claims[n] = d /\ claims \in [Media -> Creative \union {None}]
      BY <1>0 DEF Typed, HistoryTyped, StoreTyped, AuthorsHold
    <3>. QED
      BY <2>1, <2>2, <3>1, PublisherAssumption
  <2>4. \A q \in Runs : HoldsClaim(run[q])'
    <3>. SUFFICES ASSUME NEW q \in Runs, run'[q].pc \in Reserved
                  PROVE  claims'[run'[q].item.media] = run'[q].creative
      BY DEF HoldsClaim
    <3>0. claims \in [Media -> Creative \union {None}] /\ run[r] \in RunState
      BY <1>0 DEF Typed, StoreTyped, RunsTyped, RunFits
    <3>1. CASE q = r
      <4>1. run'[q].item.media = m /\ run'[q].creative = c
        BY <1>0, <1>2, <3>1, <3>0 DEF Claim, End, IdleRun, Reserved, RunsTyped, RunState
      <4>. QED
        BY <2>1, <2>2, <3>0, <4>1
    <3>2. CASE q # r
      <4>1. run'[q] = run[q]
        BY <1>0, <1>2, <3>2 DEF Claim, End, RunsTyped
      <4>2. claims[run[q].item.media] = run[q].creative /\ run[q].creative \in Creative
            /\ run[q].item.media \in Media
        BY <1>0, <4>1 DEF RunsHold, HoldsClaim, RunsTyped, RunFits, InHand, Record
      <4>. QED
        BY <2>1, <2>2, <3>0, <4>1, <4>2, PublisherAssumption
    <3>. QED
      BY <3>1, <3>2
  <2>. QED
    BY <2>3, <2>4 DEF ClaimInv, RunsHold
<1>3. ASSUME NEW r \in Runs, CheckCertificate(r) \/ CheckReceipt(r) \/ CheckSwitch(r)
                             \/ CreateContainer(r)
      PROVE  ClaimInv'
  <2>1. PICK x : /\ run' = [run EXCEPT ![r] = x]
                 /\ x.item = run[r].item /\ x.creative = run[r].creative
    BY <1>0, <1>3 DEF CheckCertificate, CheckReceipt, CheckSwitch, CreateContainer, Goto, At,
                      RunsTyped, RunFits, RunState
  <2>2. run[r].pc \in Reserved /\ UNCHANGED <<claims, author>>
    BY <1>3 DEF CheckCertificate, CheckReceipt, CheckSwitch, CreateContainer, At, Reserved
  <2>. QED
    BY <1>0, <2>1, <2>2, HoldStep DEF HoldsClaim, RunsHold, ClaimInv, AuthorsHold
<1>4. ASSUME NEW r \in Runs, Post(r) PROVE ClaimInv'
  <2>1. run[r].pc \in Reserved /\ claims' = claims /\ run[r].item.media \in Media
    BY <1>0, <1>4 DEF Post, At, RunsTyped, RunFits, InHand, Reserved, Record
  <2>2. claims[run[r].item.media] = run[r].creative
    BY <1>0, <2>1 DEF RunsHold, HoldsClaim
  <2>3. AuthorsHold'
    BY <1>0, <1>4, <2>1, <2>2 DEF Post, AuthorsHold, Typed, HistoryTyped
  <2>4. RunsHold'
    <3>1. PICK x : /\ run' = [run EXCEPT ![r] = x]
                   /\ \/ x = IdleRun
                      \/ x.item = run[r].item /\ x.creative = run[r].creative
      BY <1>0, <1>4 DEF Post, Goto, End, RunsTyped, RunFits, RunState
    <3>. QED
      BY <1>0, <2>1, <2>2, <3>1, HoldStep, IdleHolds DEF HoldsClaim
  <2>. QED
    BY <2>3, <2>4 DEF ClaimInv
<1>5. ASSUME NEW r \in Runs, PostFail(r) \/ Cut(r) PROVE ClaimInv'
  <2>1. run' = [run EXCEPT ![r] = IdleRun] /\ UNCHANGED <<claims, author>>
    BY <1>5 DEF PostFail, Cut, End
  <2>. QED
    BY <1>0, <2>1, HoldStep, IdleHolds DEF ClaimInv, AuthorsHold
<1>6. ASSUME NEW r \in Runs, Save(r) PROVE ClaimInv'
  <2>1. run[r].pc = "save" /\ UNCHANGED <<claims, author>>
    BY <1>6 DEF Save, At
  <2>2. claims[run[r].item.media] = run[r].creative /\ Posted(r).media = run[r].item.media
    BY <1>0, <2>1, PostedType DEF RunsHold, HoldsClaim, Reserved
  <2>3. PICK x : /\ run' = [run EXCEPT ![r] = x]
                 /\ \/ x = IdleRun
                    \/ x.item = Posted(r) /\ x.creative = run[r].creative
    BY <1>0, <1>6 DEF Save, End, RunsTyped, RunFits, RunState
  <2>. QED
    BY <1>0, <2>1, <2>2, <2>3, HoldStep, IdleHolds DEF HoldsClaim, ClaimInv, AuthorsHold
<1>7. ASSUME (\E e \in Editors : Edit(e)) \/ Environment PROVE ClaimInv'
  <2>1. UNCHANGED <<run, claims, author>>
    BY <1>7 DEF Edit, Environment, BeginEdit, EndEdit, CutEdit, Attach, ChangeCertificate,
                Recall, TurnSwitch, Change
  <2>. QED
    BY <1>0, <2>1 DEF ClaimInv, RunsHold, HoldsClaim, AuthorsHold
<1>. QED
  BY <1>1, <1>2, <1>3, <1>4, <1>5, <1>6, <1>7 DEF Next, Publish

\* A picture is posted for one creative only, though the reservation service may
\* grant it again to the same one and runs end after any step.
THEOREM OneCreative == Spec => []OneCreativePerPicture
<1>1. Typed /\ ClaimInv => OneCreativePerPicture
  BY DEF Typed, HistoryTyped, ClaimInv, AuthorsHold, OneCreativePerPicture
<1>2. Typed /\ [Next]_vars => Typed'
  BY NextTyped
<1>3. Typed /\ ClaimInv /\ [Next]_vars => ClaimInv'
  BY NextClaim
<1>. QED
  BY InitTyped, InitClaim, <1>1, <1>2, <1>3, PTL DEF Spec

-----------------------------------------------------------------------------
(* Only what the owner approved *)

\* A record that says approved or published, the item of a run past the list and
\* a post are of a picture approved for that creative; a decision that is about
\* to be written is about the picture it read.
ApprovedItem(c, item) == <<c, item.media>> \in approved
RecordsApproved ==
  \A c \in Creative : rec[c].status \in {"approved", "published"} => ApprovedItem(c, rec[c])
RunApproved(x) == x.pc \in InHand => ApprovedItem(x.creative, x.item)
RunsApproved == \A r \in Runs : RunApproved(run[r])
AuthorsApproved == \A m \in Media : \A c \in author[m] : <<c, m>> \in approved
DecisionsSeen ==
  \A e \in Editors : edit[e].pc = "write" /\ edit[e].via # "factory" =>
                       edit[e].media = edit[e].seen.media
ApprovedInv == RecordsApproved /\ RunsApproved /\ AuthorsApproved /\ DecisionsSeen

LEMMA InitApproved == Init => ApprovedInv
<1>. SUFFICES ASSUME Init PROVE ApprovedInv
  OBVIOUS
<1>1. \A c \in Creative : rec[c].status = "approval"
  BY InitRecords
<1>. QED
  BY <1>1 DEF Init, ApprovedInv, RecordsApproved, RunsApproved, RunApproved, AuthorsApproved,
              DecisionsSeen, IdleRun, IdleEdit, InHand, Reserved

\* Steps that only change what one run is doing, and what it has in hand stays
\* approved.
LEMMA ApprovedRunStep ==
  ASSUME RunsTyped, ApprovedInv, NEW r \in Runs, NEW x, run' = [run EXCEPT ![r] = x],
         RunApproved(x), UNCHANGED <<rec, edit, approved, author>>
  PROVE  ApprovedInv'
<1>1. ASSUME NEW q \in Runs PROVE RunApproved(run[q])'
  <2>1. run'[q] = x \/ run'[q] = run[q]
    BY DEF RunsTyped
  <2>. QED
    BY <2>1 DEF ApprovedInv, RunsApproved, RunApproved, ApprovedItem
<1>. QED
  BY <1>1 DEF ApprovedInv, RecordsApproved, RunsApproved, AuthorsApproved, DecisionsSeen,
              ApprovedItem

LEMMA IdleApproved == RunApproved(IdleRun)
BY DEF RunApproved, IdleRun, InHand, Reserved

LEMMA NextApproved == Typed /\ ApprovedInv /\ [Next]_vars => ApprovedInv'
<1>. SUFFICES ASSUME Typed, ApprovedInv, Next PROVE ApprovedInv'
  <2>1. UNCHANGED vars /\ ApprovedInv => ApprovedInv'
    BY DEF ApprovedInv, RecordsApproved, RunsApproved, RunApproved, AuthorsApproved,
           DecisionsSeen, ApprovedItem, vars
  <2>. QED
    BY <2>1
<1>0. /\ RunsTyped /\ EditsTyped /\ StoreTyped /\ HistoryTyped
      /\ RecordsApproved /\ RunsApproved /\ AuthorsApproved /\ DecisionsSeen
  BY DEF Typed, ApprovedInv
<1>1. ASSUME NEW r \in Runs, Begin(r) PROVE ApprovedInv'
  <2>. DEFINE x == [run[r] EXCEPT !.pc = "list", !.open = world.sales]
  <2>1. run' = [run EXCEPT ![r] = x] /\ x.pc = "list"
    BY <1>0, <1>1 DEF Begin, RunsTyped, RunState
  <2>2. RunApproved(x)
    BY <2>1 DEF RunApproved, InHand, Reserved
  <2>. QED
    BY <1>0, <1>1, <2>1, <2>2, ApprovedRunStep DEF Begin
<1>2. ASSUME NEW r \in Runs, List(r) PROVE ApprovedInv'
  <2>1. PICK c \in Creative :
          /\ Candidate(c, run[r].open)
          /\ run' = [run EXCEPT ![r].pc = "certify", ![r].creative = c, ![r].item = rec[c],
                                ![r].open = FALSE]
    BY <1>2 DEF List
  <2>. DEFINE x == [run[r] EXCEPT !.pc = "certify", !.creative = c, !.item = rec[c],
                                  !.open = FALSE]
  <2>2. run' = [run EXCEPT ![r] = x] /\ x.creative = c /\ x.item = rec[c]
    BY <1>0, <2>1 DEF RunsTyped, RunState
  <2>3. ApprovedItem(c, rec[c])
    BY <1>0, <2>1 DEF Candidate, RecordsApproved
  <2>4. RunApproved(x)
    BY <2>2, <2>3 DEF RunApproved
  <2>. QED
    BY <1>0, <1>2, <2>2, <2>4, ApprovedRunStep DEF List
<1>3. ASSUME NEW r \in Runs,
             Certify(r) \/ Verify(r) \/ CheckCertificate(r) \/ CheckReceipt(r)
               \/ CheckSwitch(r) \/ CreateContainer(r)
      PROVE  ApprovedInv'
  <2>1. PICK x : /\ run' = [run EXCEPT ![r] = x]
                 /\ x.item = run[r].item /\ x.creative = run[r].creative
    BY <1>0, <1>3 DEF Certify, Verify, CheckCertificate, CheckReceipt, CheckSwitch,
                      CreateContainer, Goto, At, RunsTyped, RunFits, RunState
  <2>2. run[r].pc \in InHand /\ UNCHANGED <<rec, edit, approved, author>>
    BY <1>3 DEF Certify, Verify, CheckCertificate, CheckReceipt, CheckSwitch,
                CreateContainer, At, InHand, Reserved
  <2>. QED
    BY <1>0, <2>1, <2>2, ApprovedRunStep DEF RunsApproved, RunApproved
<1>4. ASSUME NEW r \in Runs, Claim(r) \/ PostFail(r) \/ Cut(r) PROVE ApprovedInv'
  <2>1. PICK x : /\ run' = [run EXCEPT ![r] = x]
                 /\ \/ x = IdleRun
                    \/ /\ x.item = run[r].item /\ x.creative = run[r].creative
                       /\ run[r].pc \in InHand
    BY <1>0, <1>4 DEF Claim, PostFail, Cut, End, At, RunsTyped, RunFits, RunState, InHand
  <2>2. UNCHANGED <<rec, edit, approved, author>>
    BY <1>4 DEF Claim, PostFail, Cut
  <2>. QED
    BY <1>0, <2>1, <2>2, ApprovedRunStep, IdleApproved DEF RunsApproved, RunApproved
<1>5. ASSUME NEW r \in Runs, Post(r) PROVE ApprovedInv'
  <2>1. run[r].pc \in InHand /\ ApprovedItem(run[r].creative, run[r].item)
    BY <1>0, <1>5 DEF Post, At, InHand, Reserved, RunsApproved, RunApproved
  <2>2. AuthorsApproved'
    BY <1>0, <1>5, <2>1 DEF Post, AuthorsApproved, ApprovedItem, HistoryTyped
  <2>3. \A q \in Runs : RunApproved(run[q])'
    <3>1. PICK x : /\ run' = [run EXCEPT ![r] = x]
                   /\ \/ x = IdleRun
                      \/ x.item = run[r].item /\ x.creative = run[r].creative
      BY <1>0, <1>5 DEF Post, Goto, End, RunsTyped, RunFits, RunState
    <3>2. RunApproved(x)
      BY <2>1, <3>1, IdleApproved DEF RunApproved
    <3>. SUFFICES ASSUME NEW q \in Runs PROVE RunApproved(run[q])'
      OBVIOUS
    <3>3. run'[q] = x \/ run'[q] = run[q]
      BY <1>0, <3>1 DEF RunsTyped
    <3>. QED
      BY <1>0, <1>5, <3>2, <3>3 DEF Post, RunsApproved, RunApproved, ApprovedItem
  <2>4. RecordsApproved' /\ DecisionsSeen'
    BY <1>0, <1>5 DEF Post, RecordsApproved, DecisionsSeen, ApprovedItem
  <2>. QED
    BY <2>2, <2>3, <2>4 DEF ApprovedInv, RunsApproved
<1>6. ASSUME NEW r \in Runs, Save(r) PROVE ApprovedInv'
  <2>. DEFINE c == run[r].creative
  <2>1. run[r].pc = "save" /\ c \in Creative /\ UNCHANGED <<edit, approved, author>>
    BY <1>0, <1>6 DEF Save, At, RunsTyped, RunFits, InHand, Reserved
  <2>2. ApprovedItem(c, Posted(r))
    BY <1>0, <2>1, PostedType DEF RunsApproved, RunApproved, ApprovedItem, InHand, Reserved
  <2>3. rec' = [rec EXCEPT ![c] = Posted(r)]
    BY <1>6 DEF Save
  <2>4. RecordsApproved'
    BY <1>0, <2>1, <2>2, <2>3 DEF RecordsApproved, ApprovedItem, StoreTyped
  <2>5. \A q \in Runs : RunApproved(run[q])'
    <3>1. PICK x : /\ run' = [run EXCEPT ![r] = x]
                   /\ \/ x = IdleRun
                      \/ x.item = Posted(r) /\ x.creative = c
      BY <1>0, <1>6 DEF Save, End, RunsTyped, RunFits, RunState
    <3>2. RunApproved(x)
      BY <2>2, <3>1, IdleApproved DEF RunApproved
    <3>. SUFFICES ASSUME NEW q \in Runs PROVE RunApproved(run[q])'
      OBVIOUS
    <3>3. run'[q] = x \/ run'[q] = run[q]
      BY <1>0, <3>1 DEF RunsTyped
    <3>. QED
      BY <1>0, <2>1, <3>2, <3>3 DEF RunsApproved, RunApproved, ApprovedItem
  <2>. QED
    BY <1>0, <2>1, <2>4, <2>5 DEF ApprovedInv, RunsApproved, AuthorsApproved, DecisionsSeen
<1>7. ASSUME NEW e \in Editors, NEW c \in Creative, NEW via \in Via, NEW m \in Media,
             BeginEdit(e, c, via, m)
      PROVE  ApprovedInv'
  <2>1. DecisionsSeen'
    BY <1>0, <1>7 DEF BeginEdit, DecisionsSeen, EditsTyped
  <2>. QED
    BY <1>0, <1>7, <2>1 DEF BeginEdit, ApprovedInv, RecordsApproved, RunsApproved,
                            RunApproved, AuthorsApproved, ApprovedItem
<1>8. ASSUME NEW e \in Editors, EndEdit(e) PROVE ApprovedInv'
  <2>. DEFINE c == edit[e].creative
              m == edit[e].media
  <2>1. /\ edit[e].pc = "write" /\ EditFits(e) /\ c \in Creative
        /\ rec' = [rec EXCEPT ![c] = Edited(e)]
        /\ approved' = IF Edited(e).status = "approved" THEN approved \union {<<c, m>>}
                       ELSE approved
        /\ UNCHANGED <<run, author>> /\ edit' = [edit EXCEPT ![e] = IdleEdit]
    BY <1>0, <1>8 DEF EndEdit, EditsTyped, EditFits
  <2>2. Edited(e).media = m /\ Edited(e).status # "published"
    BY <1>0, <2>1 DEF Edited, EditFits, DecisionsSeen, Via, Record, Status, Fresh
  <2>3. RecordsApproved'
    BY <1>0, <2>1, <2>2 DEF RecordsApproved, ApprovedItem, StoreTyped
  <2>4. RunsApproved' /\ AuthorsApproved'
    BY <1>0, <2>1 DEF RunsApproved, RunApproved, AuthorsApproved, ApprovedItem
  <2>5. DecisionsSeen'
    BY <1>0, <2>1 DEF DecisionsSeen, EditsTyped, IdleEdit
  <2>. QED
    BY <2>3, <2>4, <2>5 DEF ApprovedInv
<1>9. ASSUME NEW e \in Editors, CutEdit(e) PROVE ApprovedInv'
  <2>1. DecisionsSeen'
    BY <1>0, <1>9 DEF CutEdit, DecisionsSeen, EditsTyped, IdleEdit
  <2>. QED
    BY <1>0, <1>9, <2>1 DEF CutEdit, ApprovedInv, RecordsApproved, RunsApproved, RunApproved,
                            AuthorsApproved, ApprovedItem
<1>10. ASSUME NEW c \in Creative, Attach(c) PROVE ApprovedInv'
  <2>1. \A d \in Creative : rec'[d].status = rec[d].status /\ rec'[d].media = rec[d].media
    BY <1>0, <1>10 DEF Attach, StoreTyped, Record
  <2>. QED
    BY <1>0, <1>10, <2>1 DEF Attach, ApprovedInv, RecordsApproved, RunsApproved, RunApproved,
                             AuthorsApproved, DecisionsSeen, ApprovedItem
<1>11. ASSUME ChangeCertificate \/ Recall \/ TurnSwitch PROVE ApprovedInv'
  <2>1. UNCHANGED <<rec, run, edit, approved, author>>
    BY <1>11 DEF ChangeCertificate, Recall, TurnSwitch, Change
  <2>. QED
    BY <1>0, <2>1 DEF ApprovedInv, RecordsApproved, RunsApproved, RunApproved,
                      AuthorsApproved, DecisionsSeen, ApprovedItem
<1>. QED
  BY <1>1, <1>2, <1>3, <1>4, <1>5, <1>6, <1>7, <1>8, <1>9, <1>10, <1>11
     DEF Next, Publish, Edit, Environment

\* Only what the owner approved is posted, the very picture and for the creative
\* it was approved for, whatever handlers and runs write over.
THEOREM OnlyApproved == Spec => []OnlyApprovedPosted
<1>1. ApprovedInv => OnlyApprovedPosted
  BY DEF ApprovedInv, AuthorsApproved, OnlyApprovedPosted
<1>2. Typed /\ [Next]_vars => Typed'
  BY NextTyped
<1>3. Typed /\ ApprovedInv /\ [Next]_vars => ApprovedInv'
  BY NextApproved
<1>. QED
  BY InitTyped, InitApproved, <1>1, <1>2, <1>3, PTL DEF Spec


-----------------------------------------------------------------------------
(* What a step of a run makes of it *)

Becomes(r, x) == run' = [run EXCEPT ![r] = x]
SameWork(x, y) == x.item = y.item /\ x.creative = y.creative /\ x.cert = y.cert

LEMMA OthersSame ==
  ASSUME RunsTyped, NEW r \in Runs, NEW x, Becomes(r, x)
  PROVE  run'[r] = x /\ \A q \in Runs \ {r} : run'[q] = run[q]
  BY DEF RunsTyped, Becomes

\* Before the reservation: the item in hand is the record of its creative, or was listed before.
LEMMA EarlyMoves ==
  ASSUME RunsTyped, NEW r \in Runs, Begin(r) \/ List(r) \/ Certify(r) \/ Verify(r)
  PROVE  \E x : /\ Becomes(r, x)
                /\ x.pc \in {"list", "certify", "verify", "claim"}
                /\ Begin(r) => x.pc = "list"
                /\ \/ x.pc = "list" /\ Begin(r)
                   \/ x.creative \in Creative /\ x.item = rec[x.creative] /\ x.item.status = "approved"
                   \/ /\ x.item = run[r].item /\ x.creative = run[r].creative
                      /\ run[r].pc \in InHand \ Reserved
                /\ x.pc # "list" => run[r].pc \in {"list", "certify", "verify"}
<1>. USE DEF Becomes
<1>0. run[r] \in RunState
  BY DEF RunsTyped
<1>1. CASE Begin(r)
  <2>1. PICK x : x = [run[r] EXCEPT !.pc = "list", !.open = world.sales]
    OBVIOUS
  <2>2. run' = [run EXCEPT ![r] = x] /\ x.pc = "list"
    BY <1>0, <1>1, <2>1 DEF Begin, RunsTyped, RunState
  <2>. QED
    BY <1>1, <2>2
<1>2. CASE List(r)
  <2>1. PICK c \in Creative :
          /\ Candidate(c, run[r].open)
          /\ run' = [run EXCEPT ![r].pc = "certify", ![r].creative = c, ![r].item = rec[c],
                                ![r].open = FALSE]
    BY <1>2 DEF List
  <2>2. PICK x : x = [run[r] EXCEPT !.pc = "certify", !.creative = c, !.item = rec[c], !.open = FALSE]
    OBVIOUS
  <2>3. run' = [run EXCEPT ![r] = x] /\ x.pc = "certify" /\ x.creative = c /\ x.item = rec[c]
    BY <1>0, <2>1, <2>2 DEF RunsTyped, RunState
  <2>4. ~Begin(r) /\ run[r].pc = "list"
    BY <1>2 DEF Begin, List, At
  <2>. QED
    BY <2>1, <2>3, <2>4 DEF Candidate
<1>3. CASE Certify(r)
  <2>1. PICK x : x = [run[r] EXCEPT !.pc = "verify", !.cert = world.cert]
    OBVIOUS
  <2>2. /\ run' = [run EXCEPT ![r] = x] /\ x.pc = "verify"
        /\ x.creative = run[r].creative /\ x.item = run[r].item
    BY <1>0, <1>3, <2>1 DEF Certify, RunsTyped, RunState
  <2>3. ~Begin(r) /\ run[r].pc = "certify" /\ run[r].pc \in InHand \ Reserved
    BY <1>3 DEF Begin, Certify, At, InHand, Reserved
  <2>. QED
    BY <2>2, <2>3
<1>4. CASE Verify(r)
  <2>1. PICK x : x = [run[r] EXCEPT !.pc = "claim"]
    OBVIOUS
  <2>2. /\ run' = [run EXCEPT ![r] = x] /\ x.pc = "claim"
        /\ x.creative = run[r].creative /\ x.item = run[r].item
    BY <1>0, <1>4, <2>1 DEF Verify, Goto, RunsTyped, RunState
  <2>3. ~Begin(r) /\ run[r].pc = "verify" /\ run[r].pc \in InHand \ Reserved
    BY <1>4 DEF Begin, Verify, At, InHand, Reserved
  <2>. QED
    BY <2>2, <2>3
<1>. QED
  BY <1>1, <1>2, <1>3, <1>4

LEMMA ClaimMoves ==
  ASSUME RunsTyped, NEW r \in Runs, Claim(r)
  PROVE  /\ run[r].pc = "claim"
         /\ \E x : /\ Becomes(r, x)
                   /\ x = IdleRun \/ (SameWork(x, run[r]) /\ x.pc = "check")
<1>. USE DEF Becomes
<1>0. run[r] \in RunState
  BY DEF RunsTyped
<1>1. PICK g : g = NextGoal(run[r].item.ids)
  OBVIOUS
<1>2. PICK x : x = [run[r] EXCEPT !.pc = "check", !.goal = g]
  OBVIOUS
<1>3. x.pc = "check" /\ SameWork(x, run[r])
  BY <1>0, <1>2 DEF SameWork, RunState
<1>4. run' = [run EXCEPT ![r] = x] \/ run' = [run EXCEPT ![r] = IdleRun]
  BY <1>1, <1>2 DEF Claim, End, RunsTyped
<1>. QED
  BY <1>3, <1>4 DEF Claim, At

\* The checks and the container: the work stays the same.
LEMMA CheckMoves ==
  ASSUME RunsTyped, NEW r \in Runs,
         CheckCertificate(r) \/ CheckReceipt(r) \/ CheckSwitch(r) \/ CreateContainer(r)
  PROVE  \E x : /\ Becomes(r, x) /\ SameWork(x, run[r])
                /\ \/ run[r].pc = "check" /\ x.pc = "receipt" /\ CheckCertificate(r)
                   \/ run[r].pc = "receipt" /\ x.pc = "switch" /\ CheckReceipt(r)
                   \/ run[r].pc = "switch" /\ x.pc = "post" /\ CheckSwitch(r)
                   \/ run[r].pc = "post" /\ x.pc = "check" /\ CreateContainer(r)
<1>. USE DEF Becomes, SameWork, At
<1>0. run[r] \in RunState
  BY DEF RunsTyped
<1>1. ASSUME NEW pc, Goto(r, pc)
      PROVE  \E x : Becomes(r, x) /\ SameWork(x, run[r]) /\ x.pc = pc
  <2>1. PICK x : x = [run[r] EXCEPT !.pc = pc]
    OBVIOUS
  <2>2. run' = [run EXCEPT ![r] = x] /\ SameWork(x, run[r]) /\ x.pc = pc
    BY <1>0, <1>1, <2>1 DEF Goto, RunState
  <2>. QED
    BY <2>2
<1>2. CASE CheckCertificate(r)
  BY <1>1, <1>2 DEF CheckCertificate
<1>3. CASE CheckReceipt(r)
  BY <1>1, <1>3 DEF CheckReceipt
<1>4. CASE CheckSwitch(r)
  BY <1>1, <1>4 DEF CheckSwitch
<1>5. CASE CreateContainer(r)
  <2>1. PICK x : x = [run[r] EXCEPT !.pc = "check", !.goal = "instagram"]
    OBVIOUS
  <2>2. run' = [run EXCEPT ![r] = x] /\ x.pc = "check" /\ SameWork(x, run[r])
    BY <1>0, <1>5, <2>1 DEF CreateContainer, RunsTyped, RunState
  <2>. QED
    BY <1>5, <2>2 DEF CreateContainer
<1>. QED
  BY <1>2, <1>3, <1>4, <1>5

LEMMA PostMoves ==
  ASSUME RunsTyped, NEW r \in Runs, Post(r)
  PROVE  /\ run[r].pc = "post" /\ run[r].goal \in Network
         /\ \E x : /\ Becomes(r, x)
                   /\ \/ x = IdleRun /\ doubt' = doubt \union {run[r].item.media}
                      \/ SameWork(x, run[r]) /\ x.pc = "save" /\ x.goal = run[r].goal /\ doubt' = doubt
<1>. USE DEF Becomes
<1>0. run[r] \in RunState
  BY DEF RunsTyped
<1>1. PICK x : x = [run[r] EXCEPT !.pc = "save"]
  OBVIOUS
<1>2. x.pc = "save" /\ SameWork(x, run[r]) /\ x.goal = run[r].goal
  BY <1>0, <1>1 DEF SameWork, RunState
<1>3. \/ run' = [run EXCEPT ![r] = x] /\ doubt' = doubt
      \/ run' = [run EXCEPT ![r] = IdleRun] /\ doubt' = doubt \union {run[r].item.media}
  BY <1>1 DEF Post, Goto, End, RunsTyped
<1>. QED
  BY <1>2, <1>3 DEF Post, At

LEMMA SaveMoves ==
  ASSUME RunsTyped, NEW r \in Runs, Save(r)
  PROVE  /\ run[r].pc = "save"
         /\ \E x : /\ Becomes(r, x)
                   /\ \/ x = IdleRun /\ late' = [late EXCEPT ![r] = NotLate]
                      \/ /\ x.item = Posted(r) /\ x.creative = run[r].creative /\ x.cert = run[r].cert
                         /\ x.pc = "check" /\ late' = late
<1>. USE DEF Becomes
<1>0. run[r] \in RunState
  BY DEF RunsTyped
<1>1. PICK g, p : g = NextGoal(Posted(r).ids) /\ p = Posted(r)
  OBVIOUS
<1>2. PICK x : x = [run[r] EXCEPT !.pc = "check", !.item = p, !.goal = g]
  OBVIOUS
<1>3. x.pc = "check" /\ x.item = p /\ x.creative = run[r].creative /\ x.cert = run[r].cert
  BY <1>0, <1>2 DEF RunState
<1>4. \/ run' = [run EXCEPT ![r] = x] /\ late' = late
      \/ run' = [run EXCEPT ![r] = IdleRun] /\ late' = [late EXCEPT ![r] = NotLate]
  BY <1>1, <1>2 DEF Save, End, Forget, RunsTyped
<1>. QED
  BY <1>1, <1>3, <1>4 DEF Save, At

LEMMA StopMoves ==
  ASSUME RunsTyped, NEW r \in Runs, PostFail(r) \/ Cut(r)
  PROVE  Becomes(r, IdleRun)
  BY DEF Becomes, PostFail, Cut, End

LEMMA OutsideSame ==
  ASSUME (\E e \in Editors : Edit(e)) \/ Environment
  PROVE  UNCHANGED <<run, claims, posts, granted, author>>
  BY DEF Edit, Environment, BeginEdit, EndEdit, CutEdit, Attach, ChangeCertificate, Recall, TurnSwitch, Change

-----------------------------------------------------------------------------
(* Records tell the truth *)

\* What an item says was posted was, by the counts p; published means on both networks.
Told(item, p) ==
  /\ \A n \in item.ids : p[item.media][n] > 0
  /\ item.status = "published" => item.ids = Network
RunTold(x, p) ==
  /\ x.pc \in InHand => Told(x.item, p)
  /\ x.pc = "save" => p[x.item.media][x.goal] > 0
EditTold(x, p) == x.pc = "write" => Told(x.seen, p)
TruthInv ==
  /\ \A c \in Creative : Told(rec[c], posts)
  /\ \A r \in Runs : RunTold(run[r], posts)
  /\ \A e \in Editors : EditTold(edit[e], posts)

LEMMA InitTruth == Init => TruthInv
<1>. SUFFICES ASSUME Init PROVE TruthInv
  OBVIOUS
<1>1. \A c \in Creative : rec[c].ids = {} /\ rec[c].status = "approval"
  BY InitRecords
<1>. QED
  BY <1>1 DEF Init, TruthInv, Told, RunTold, EditTold, IdleRun, IdleEdit, InHand, Reserved

LEMMA IdleTold == ASSUME NEW p PROVE RunTold(IdleRun, p)
  BY DEF RunTold, IdleRun, InHand, Reserved

\* A post more takes nothing back.
LEMMA ToldStays ==
  ASSUME NEW item \in Record, NEW p, NEW q,
         \A m \in Media, n \in Network : p[m][n] > 0 => q[m][n] > 0, Told(item, p)
  PROVE  Told(item, q)
  BY DEF Told, Record

LEMMA TruthRun ==
  ASSUME Typed, TruthInv, NEW r \in Runs, NEW x, Becomes(r, x), RunTold(x, posts),
         UNCHANGED <<rec, edit, posts>>
  PROVE  TruthInv'
<1>1. RunsTyped
  BY DEF Typed
<1>2. \A q \in Runs : RunTold(run'[q], posts)
  BY <1>1, OthersSame DEF TruthInv
<1>. QED
  BY <1>2 DEF TruthInv

LEMMA NextTruth == Typed /\ TruthInv /\ [Next]_vars => TruthInv'
<1>. SUFFICES ASSUME Typed, TruthInv, Next PROVE TruthInv'
  <2>1. UNCHANGED vars /\ TruthInv => TruthInv'
    BY DEF TruthInv, vars
  <2>. QED
    BY <2>1
<1>0. RunsTyped /\ EditsTyped /\ StoreTyped
  BY DEF Typed
<1>1. ASSUME NEW r \in Runs, Begin(r) \/ List(r) \/ Certify(r) \/ Verify(r) PROVE TruthInv'
  <2>1. PICK x : /\ Becomes(r, x)
                 /\ x.pc \in {"list", "certify", "verify", "claim"}
                 /\ Begin(r) => x.pc = "list"
                 /\ \/ x.pc = "list" /\ Begin(r)
                    \/ x.creative \in Creative /\ x.item = rec[x.creative] /\ x.item.status = "approved"
                    \/ /\ x.item = run[r].item /\ x.creative = run[r].creative
                       /\ run[r].pc \in InHand \ Reserved
    BY <1>0, <1>1, EarlyMoves
  <2>2. RunTold(x, posts)
    BY <2>1 DEF RunTold, TruthInv, InHand, Reserved
  <2>. QED
    BY <1>1, <2>1, <2>2, TruthRun DEF Begin, List, Certify, Verify
<1>2. ASSUME NEW r \in Runs, Claim(r) PROVE TruthInv'
  <2>1. PICK x : Becomes(r, x) /\ (x = IdleRun \/ (SameWork(x, run[r]) /\ x.pc = "check"))
    BY <1>0, <1>2, ClaimMoves
  <2>2. RunTold(x, posts)
    BY <1>0, <1>2, <2>1, IdleTold, ClaimMoves DEF RunTold, TruthInv, SameWork, InHand
  <2>. QED
    BY <1>2, <2>1, <2>2, TruthRun DEF Claim
<1>3. ASSUME NEW r \in Runs,
             CheckCertificate(r) \/ CheckReceipt(r) \/ CheckSwitch(r) \/ CreateContainer(r)
      PROVE  TruthInv'
  <2>1. PICK x : /\ Becomes(r, x) /\ SameWork(x, run[r])
                 /\ x.pc # "save" /\ run[r].pc \in Reserved
    BY <1>0, <1>3, CheckMoves DEF Reserved
  <2>2. RunTold(x, posts)
    BY <2>1 DEF RunTold, TruthInv, SameWork, InHand
  <2>. QED
    BY <1>3, <2>1, <2>2, TruthRun DEF CheckCertificate, CheckReceipt, CheckSwitch, CreateContainer
<1>4. ASSUME NEW r \in Runs, Post(r) PROVE TruthInv'
  <2>1. PICK x : /\ Becomes(r, x)
                 /\ x = IdleRun \/ (SameWork(x, run[r]) /\ x.pc = "save" /\ x.goal = run[r].goal)
    BY <1>0, <1>4, PostMoves
  <2>2. run[r].pc = "post" /\ run[r].goal \in Network
    BY <1>0, <1>4, PostMoves
  <2>3. /\ posts' = [posts EXCEPT ![run[r].item.media][run[r].goal] = @ + 1]
        /\ UNCHANGED <<rec, edit>>
    BY <1>4 DEF Post
  <2>4. run[r].item \in Record /\ run[r].item.media \in Media
    BY <1>0, <2>2 DEF RunsTyped, RunFits, InHand, Reserved, Record
  <2>5. /\ \A m \in Media, n \in Network : posts[m][n] > 0 => posts'[m][n] > 0
        /\ posts'[run[r].item.media][run[r].goal] > 0
    BY <1>0, <2>2, <2>3, <2>4 DEF StoreTyped
  <2>6. \A c \in Creative : Told(rec'[c], posts')
    BY <1>0, <2>3, <2>5, ToldStays DEF TruthInv, StoreTyped
  <2>7. ASSUME NEW e \in Editors PROVE EditTold(edit'[e], posts')
    <3>. SUFFICES ASSUME edit[e].pc = "write" PROVE Told(edit[e].seen, posts')
      BY <2>3 DEF EditTold
    <3>1. edit[e].seen \in Record /\ Told(edit[e].seen, posts)
      BY <1>0 DEF EditsTyped, EditFits, TruthInv, EditTold
    <3>. QED
      BY <2>5, <3>1, ToldStays
  <2>8. ASSUME NEW q \in Runs PROVE RunTold(run[q], posts')
    <3>1. CASE run[q].pc \in InHand
      <4>1. run[q].item \in Record /\ Told(run[q].item, posts)
        BY <1>0, <3>1 DEF RunsTyped, RunFits, TruthInv, RunTold
      <4>2. run[q].pc = "save" => run[q].item.media \in Media /\ run[q].goal \in Network
        BY <1>0, <4>1 DEF RunsTyped, RunFits, Reserved, Record
      <4>. QED
        BY <2>5, <4>1, <4>2, ToldStays DEF TruthInv, RunTold
    <3>2. CASE run[q].pc \notin InHand
      BY <3>2 DEF RunTold, InHand, Reserved
    <3>. QED
      BY <3>1, <3>2
  <2>9. RunTold(x, posts')
    <3>1. CASE x = IdleRun
      BY <3>1, IdleTold
    <3>2. CASE SameWork(x, run[r]) /\ x.pc = "save" /\ x.goal = run[r].goal
      BY <2>2, <2>5, <2>8, <3>2 DEF RunTold, SameWork, InHand, Reserved
    <3>. QED
      BY <2>1, <3>1, <3>2
  <2>10. \A q \in Runs : RunTold(run'[q], posts')
    BY <1>0, <2>1, <2>8, <2>9, OthersSame
  <2>. QED
    BY <2>6, <2>7, <2>10 DEF TruthInv
<1>5. ASSUME NEW r \in Runs, PostFail(r) \/ Cut(r) PROVE TruthInv'
  BY <1>0, <1>5, StopMoves, IdleTold, TruthRun DEF PostFail, Cut
<1>6. ASSUME NEW r \in Runs, Save(r) PROVE TruthInv'
  <2>1. PICK x : /\ Becomes(r, x)
                 /\ x = IdleRun \/ (x.item = Posted(r) /\ x.creative = run[r].creative /\ x.pc = "check")
    BY <1>0, <1>6, SaveMoves
  <2>2. run[r].pc = "save" /\ rec' = [rec EXCEPT ![run[r].creative] = Posted(r)] /\ UNCHANGED <<edit, posts>>
    BY <1>6 DEF Save, At
  <2>3. Told(Posted(r), posts)
    <3>1. Told(run[r].item, posts) /\ posts[run[r].item.media][run[r].goal] > 0
      BY <2>2 DEF TruthInv, RunTold, InHand, Reserved
    <3>2. run[r].item.ids # Network
      BY <1>0, <2>2 DEF RunsTyped, RunFits, InHand, Reserved
    <3>3. /\ Posted(r).media = run[r].item.media
          /\ Posted(r).ids = run[r].item.ids \union {run[r].goal}
          /\ Posted(r).ids # Network => Posted(r).status = run[r].item.status
      BY <1>0, <2>2, PostedType
    <3>. QED
      BY <3>1, <3>2, <3>3 DEF Told
  <2>4. RunTold(x, posts)
    BY <2>1, <2>3, IdleTold DEF RunTold
  <2>5. \A c \in Creative : Told(rec'[c], posts)
    BY <1>0, <2>2, <2>3 DEF TruthInv, StoreTyped
  <2>6. \A q \in Runs : RunTold(run'[q], posts)
    BY <1>0, <2>1, <2>4, OthersSame DEF TruthInv
  <2>. QED
    BY <2>2, <2>5, <2>6 DEF TruthInv
<1>7. ASSUME NEW e \in Editors, NEW c \in Creative, NEW via \in Via, NEW m \in Media,
             BeginEdit(e, c, via, m)
      PROVE  TruthInv'
  <2>1. /\ edit' = [edit EXCEPT ![e] = [pc |-> "write", via |-> via, creative |-> c, seen |-> rec[c], media |-> m]]
        /\ UNCHANGED <<rec, posts, run>>
    BY <1>7 DEF BeginEdit
  <2>2. \A f \in Editors : EditTold(edit'[f], posts)
    BY <1>0, <2>1 DEF TruthInv, EditTold, EditsTyped
  <2>. QED
    BY <2>1, <2>2 DEF TruthInv
<1>8. ASSUME NEW e \in Editors, EndEdit(e) PROVE TruthInv'
  <2>1. /\ edit[e].pc = "write" /\ EditFits(e)
        /\ rec' = [rec EXCEPT ![edit[e].creative] = Edited(e)]
        /\ edit' = [edit EXCEPT ![e] = IdleEdit] /\ UNCHANGED <<run, posts>>
    BY <1>0, <1>8 DEF EndEdit, EditsTyped
  <2>2. Told(Edited(e), posts)
    <3>1. Told(edit[e].seen, posts) /\ edit[e].seen \in Record
      BY <2>1 DEF TruthInv, EditTold, EditFits
    <3>2. CASE edit[e].via = "factory"
      BY <3>2 DEF Edited, Told, Fresh
    <3>3. CASE edit[e].via # "factory"
      <4>1. /\ Edited(e).ids = edit[e].seen.ids /\ Edited(e).media = edit[e].seen.media
            /\ Edited(e).status \in {"approved", "rejected"}
        BY <2>1, <3>1, <3>3 DEF Edited, EditFits, Via, Record
      <4>. QED
        BY <3>1, <4>1 DEF Told
    <3>. QED
      BY <3>2, <3>3
  <2>3. \A c \in Creative : Told(rec'[c], posts)
    BY <1>0, <2>1, <2>2 DEF TruthInv, StoreTyped
  <2>4. \A f \in Editors : EditTold(edit'[f], posts)
    BY <1>0, <2>1 DEF TruthInv, EditTold, EditsTyped, IdleEdit
  <2>. QED
    BY <2>1, <2>3, <2>4 DEF TruthInv
<1>9. ASSUME NEW e \in Editors, CutEdit(e) PROVE TruthInv'
  <2>1. \A f \in Editors : EditTold(edit'[f], posts)
    BY <1>0, <1>9 DEF CutEdit, TruthInv, EditTold, EditsTyped, IdleEdit
  <2>. QED
    BY <1>9, <2>1 DEF CutEdit, TruthInv
<1>10. ASSUME NEW c \in Creative, Attach(c) PROVE TruthInv'
  <2>1. \A d \in Creative : /\ rec'[d].status = rec[d].status /\ rec'[d].media = rec[d].media
                            /\ rec'[d].ids = rec[d].ids
    BY <1>0, <1>10 DEF Attach, StoreTyped, Record
  <2>2. \A d \in Creative : Told(rec'[d], posts)
    BY <2>1 DEF TruthInv, Told
  <2>. QED
    BY <1>10, <2>2 DEF Attach, TruthInv
<1>11. ASSUME ChangeCertificate \/ Recall \/ TurnSwitch PROVE TruthInv'
  <2>1. UNCHANGED <<rec, run, edit, posts>>
    BY <1>11 DEF ChangeCertificate, Recall, TurnSwitch, Change
  <2>. QED
    BY <2>1 DEF TruthInv
<1>. QED
  BY <1>1, <1>2, <1>3, <1>4, <1>5, <1>6, <1>7, <1>8, <1>9, <1>10, <1>11
     DEF Next, Publish, Edit, Environment

\* What a record says was posted was, on both networks when it says published,
\* whatever handlers and runs wrote it over.
THEOREM RecordsTrue == Spec => []RecordsTruthful
<1>1. TruthInv => RecordsTruthful
  BY DEF TruthInv, Told, RecordsTruthful
<1>2. Typed /\ [Next]_vars => Typed'
  BY NextTyped
<1>3. Typed /\ TruthInv /\ [Next]_vars => TruthInv'
  BY NextTruth
<1>. QED
  BY InitTyped, InitTruth, <1>1, <1>2, <1>3, PTL DEF Spec

-----------------------------------------------------------------------------
(* One late post *)

\* Whether a hold is in force for a run, and where a run stands between a post that was
\* late for the hold and the check of it.
Against(x, w, h) ==
  \/ h = "certificate" /\ w.cert # x.cert
  \/ h = "receipt" /\ x.item.media \in w.recalled
  \/ h = "sales" /\ SalesHeld(x.item, w.sales)
Ahead(h) ==
  {"save", "check"} \union (IF h = "certificate" THEN {} ELSE {"receipt"})
    \union (IF h = "sales" THEN {"switch"} ELSE {})
LateFits(x, l, w) ==
  \A h \in Hold : /\ l[h] <= 1
                  /\ l[h] # 0 /\ x.pc # "idle" => Against(x, w, h) /\ x.pc \in Ahead(h)
LateInv == \A r \in Runs : LateFits(run[r], late[r], world)

LEMMA InForceIs ==
  ASSUME NEW r, NEW h \in Hold PROVE h \in InForce(r) <=> Against(run[r], world, h)
  BY DEF InForce, Against, Hold

LEMMA InitLate == Init => LateInv
  BY DEF Init, LateInv, LateFits, NotLate, Hold, IdleRun

LEMMA NotLateFits == ASSUME NEW x, NEW w PROVE LateFits(x, NotLate, w)
  BY DEF LateFits, NotLate

LEMMA IdleLate ==
  ASSUME NEW x, NEW l, NEW w, LateFits(x, l, w) PROVE LateFits(IdleRun, l, w)
  BY DEF LateFits, IdleRun

\* Steps of a run that keep the world, and the late posts of the others.
LEMMA LateRun ==
  ASSUME RunsTyped, LateInv, NEW r \in Runs, NEW x, Becomes(r, x), UNCHANGED world,
         LateFits(x, late'[r], world), \A q \in Runs \ {r} : late'[q] = late[q]
  PROVE  LateInv'
<1>1. \A q \in Runs : LateFits(run'[q], late'[q], world)
  BY OthersSame DEF LateInv
<1>. QED
  BY <1>1 DEF LateInv

LEMMA NextLate == Typed /\ LateInv /\ [Next]_vars => LateInv'
<1>. SUFFICES ASSUME Typed, LateInv, Next PROVE LateInv'
  <2>1. UNCHANGED vars /\ LateInv => LateInv'
    BY DEF LateInv, vars
  <2>. QED
    BY <2>1
<1>0. RunsTyped /\ StoreTyped /\ late \in [Runs -> [Hold -> Nat]]
  BY DEF Typed, HistoryTyped
<1>1. ASSUME NEW r \in Runs, Begin(r) PROVE LateInv'
  <2>1. late' = [late EXCEPT ![r] = NotLate] /\ UNCHANGED world
    BY <1>1 DEF Begin, Forget
  <2>2. PICK x : Becomes(r, x)
    BY <1>0, <1>1, EarlyMoves
  <2>3. late'[r] = NotLate /\ \A q \in Runs \ {r} : late'[q] = late[q]
    BY <1>0, <2>1
  <2>. QED
    BY <1>0, <2>1, <2>2, <2>3, NotLateFits, LateRun
<1>2. ASSUME NEW r \in Runs, List(r) \/ Certify(r) \/ Verify(r) PROVE LateInv'
  <2>1. UNCHANGED <<world, late>> /\ run[r].pc \in {"list", "certify", "verify"}
    BY <1>2 DEF List, Certify, Verify, At
  <2>2. PICK x : Becomes(r, x)
    BY <1>0, <1>2, EarlyMoves
  <2>3. \A h \in Hold : late[r][h] = 0
    BY <2>1 DEF LateInv, LateFits, Ahead
  <2>4. LateFits(x, late[r], world)
    BY <2>3 DEF LateFits
  <2>. QED
    BY <1>0, <2>1, <2>2, <2>4, LateRun
<1>3. ASSUME NEW r \in Runs, Claim(r) PROVE LateInv'
  <2>1. UNCHANGED <<world, late>> /\ run[r].pc = "claim"
    BY <1>3 DEF Claim, At
  <2>2. PICK x : Becomes(r, x)
    BY <1>0, <1>3, ClaimMoves
  <2>3. \A h \in Hold : late[r][h] = 0
    BY <2>1 DEF LateInv, LateFits, Ahead
  <2>4. LateFits(x, late[r], world)
    BY <2>3 DEF LateFits
  <2>. QED
    BY <1>0, <2>1, <2>2, <2>4, LateRun
<1>4. ASSUME NEW r \in Runs,
             CheckCertificate(r) \/ CheckReceipt(r) \/ CheckSwitch(r) \/ CreateContainer(r)
      PROVE  LateInv'
  <2>0. UNCHANGED <<world, late>>
    BY <1>4 DEF CheckCertificate, CheckReceipt, CheckSwitch, CreateContainer
  <2>1. PICK x : /\ Becomes(r, x) /\ SameWork(x, run[r])
                 /\ \/ run[r].pc = "check" /\ x.pc = "receipt" /\ CheckCertificate(r)
                    \/ run[r].pc = "receipt" /\ x.pc = "switch" /\ CheckReceipt(r)
                    \/ run[r].pc = "switch" /\ x.pc = "post" /\ CheckSwitch(r)
                    \/ run[r].pc = "post" /\ x.pc = "check" /\ CreateContainer(r)
    BY <1>0, <1>4, CheckMoves
  <2>2. ASSUME NEW h \in Hold
        PROVE  /\ late[r][h] <= 1
               /\ late[r][h] # 0 => Against(run[r], world, h) /\ run[r].pc \in Ahead(h)
    BY <2>1 DEF LateInv, LateFits
  <2>3. ASSUME NEW h \in Hold PROVE Against(x, world, h) <=> Against(run[r], world, h)
    BY <2>1 DEF Against, SameWork
  <2>4. CheckCertificate(r) => ~Against(run[r], world, "certificate")
    BY DEF CheckCertificate, Against
  <2>5. CheckReceipt(r) => ~Against(run[r], world, "receipt")
    BY DEF CheckReceipt, ReceiptStands, Against
  <2>6. CheckSwitch(r) => ~Against(run[r], world, "sales")
    BY DEF CheckSwitch, Against
  <2>7. ASSUME NEW h \in Hold, late[r][h] # 0 PROVE x.pc \in Ahead(h)
    BY <2>1, <2>2, <2>4, <2>5, <2>6, <2>7 DEF Ahead, Hold
  <2>8. LateFits(x, late[r], world)
    BY <2>2, <2>3, <2>7 DEF LateFits
  <2>. QED
    BY <1>0, <2>0, <2>1, <2>8, LateRun
<1>5. ASSUME NEW r \in Runs, Post(r) PROVE LateInv'
  <2>1. run[r].pc = "post" /\ UNCHANGED world
    BY <1>5 DEF Post, At
  <2>2. PICK x : /\ Becomes(r, x)
                 /\ x = IdleRun \/ (SameWork(x, run[r]) /\ x.pc = "save")
    BY <1>0, <1>5, PostMoves
  <2>3. \A h \in Hold : late[r][h] = 0
    BY <2>1 DEF LateInv, LateFits, Ahead
  <2>4. /\ \A h \in Hold : late'[r][h] = IF Against(run[r], world, h) THEN 1 ELSE 0
        /\ \A q \in Runs \ {r} : late'[q] = late[q]
    BY <1>0, <1>5, <2>3, InForceIs DEF Post
  <2>5. LateFits(x, late'[r], world)
    <3>1. CASE x = IdleRun
      BY <2>4, <3>1 DEF LateFits, IdleRun
    <3>2. CASE SameWork(x, run[r]) /\ x.pc = "save"
      <4>1. \A h \in Hold : Against(x, world, h) <=> Against(run[r], world, h)
        BY <3>2 DEF Against, SameWork
      <4>. QED
        BY <2>4, <3>2, <4>1 DEF LateFits, Ahead
    <3>. QED
      BY <2>2, <3>1, <3>2
  <2>. QED
    BY <1>0, <2>1, <2>2, <2>4, <2>5, LateRun
<1>6. ASSUME NEW r \in Runs, PostFail(r) PROVE LateInv'
  <2>1. UNCHANGED <<world, late>> /\ Becomes(r, IdleRun)
    BY <1>0, <1>6, StopMoves DEF PostFail
  <2>2. LateFits(IdleRun, late[r], world)
    BY IdleLate DEF LateInv
  <2>. QED
    BY <1>0, <2>1, <2>2, LateRun
<1>7. ASSUME NEW r \in Runs, Cut(r) PROVE LateInv'
  <2>1. late' = [late EXCEPT ![r] = NotLate] /\ UNCHANGED world /\ Becomes(r, IdleRun)
    BY <1>0, <1>7, StopMoves DEF Cut, Forget
  <2>2. late'[r] = NotLate /\ \A q \in Runs \ {r} : late'[q] = late[q]
    BY <1>0, <2>1
  <2>. QED
    BY <1>0, <2>1, <2>2, NotLateFits, LateRun
<1>8. ASSUME NEW r \in Runs, Save(r) PROVE LateInv'
  <2>1. PICK x : /\ Becomes(r, x)
                 /\ \/ x = IdleRun /\ late' = [late EXCEPT ![r] = NotLate]
                    \/ /\ x.item = Posted(r) /\ x.creative = run[r].creative /\ x.cert = run[r].cert
                       /\ x.pc = "check" /\ late' = late
    BY <1>0, <1>8, SaveMoves
  <2>2. run[r].pc = "save" /\ UNCHANGED world
    BY <1>8 DEF Save, At
  <2>3. LateFits(x, late'[r], world) /\ \A q \in Runs \ {r} : late'[q] = late[q]
    <3>1. CASE x = IdleRun /\ late' = [late EXCEPT ![r] = NotLate]
      <4>1. late'[r] = NotLate /\ \A q \in Runs \ {r} : late'[q] = late[q]
        BY <1>0, <3>1
      <4>. QED
        BY <4>1, NotLateFits
    <3>2. CASE x.item = Posted(r) /\ x.cert = run[r].cert /\ x.pc = "check" /\ late' = late
      <4>1. Posted(r).media = run[r].item.media
        BY <1>0, <2>2, PostedType
      <4>2. \A h \in Hold : Against(x, world, h) <=> Against(run[r], world, h)
        BY <3>2, <4>1 DEF Against, SalesHeld
      <4>. QED
        BY <2>2, <3>2, <4>2 DEF LateInv, LateFits, Ahead
    <3>. QED
      BY <2>1, <3>1, <3>2
  <2>. QED
    BY <1>0, <2>1, <2>2, <2>3, LateRun
<1>9. ASSUME (\E e \in Editors : Edit(e)) \/ (\E c \in Creative : Attach(c)) PROVE LateInv'
  <2>1. UNCHANGED <<run, late, world>>
    BY <1>9 DEF Edit, BeginEdit, EndEdit, CutEdit, Attach
  <2>. QED
    BY <2>1 DEF LateInv
<1>10. ASSUME ChangeCertificate \/ Recall \/ TurnSwitch PROVE LateInv'
  <2>1. PICK new : Change(new) /\ world.recalled \subseteq new.recalled
    <3>1. CASE ChangeCertificate
      <4>1. PICK k \in Cert \union {None} : Change([world EXCEPT !.cert = k])
        BY <3>1 DEF ChangeCertificate
      <4>. QED
        BY <1>0, <4>1 DEF StoreTyped
    <3>2. CASE Recall
      <4>1. PICK m, s : m \in Media /\ s = world.recalled \union {m} /\ Change([world EXCEPT !.recalled = s])
        BY <3>2 DEF Recall
      <4>2. [world EXCEPT !.recalled = s].recalled = s
        BY <1>0 DEF StoreTyped
      <4>. QED
        BY <4>1, <4>2
    <3>3. CASE TurnSwitch
      <4>1. PICK new : new = [world EXCEPT !.sales = ~@]
        OBVIOUS
      <4>2. new.recalled = world.recalled
        BY <1>0, <4>1 DEF StoreTyped
      <4>. QED
        BY <3>3, <4>1, <4>2 DEF TurnSwitch
    <3>. QED
      BY <1>10, <3>1, <3>2, <3>3
  <2>2. /\ world' = new /\ run' = run
        /\ late' = [r \in Runs |-> [h \in Hold |->
                      IF \/ h = "certificate" /\ new.cert = run[r].cert
                         \/ h = "sales" /\ new.sales
                      THEN 0 ELSE late[r][h]]]
    BY <2>1 DEF Change
  <2>3. ASSUME NEW r \in Runs, NEW h \in Hold
        PROVE  /\ late'[r][h] <= 1
               /\ late'[r][h] # 0 /\ run[r].pc # "idle" => Against(run[r], new, h) /\ run[r].pc \in Ahead(h)
    <3>1. /\ late[r][h] <= 1
          /\ late[r][h] # 0 /\ run[r].pc # "idle" => Against(run[r], world, h) /\ run[r].pc \in Ahead(h)
      BY DEF LateInv, LateFits
    <3>2. late'[r][h] \in {0, late[r][h]}
      BY <2>2
    <3>3. ASSUME late'[r][h] # 0, Against(run[r], world, h) PROVE Against(run[r], new, h)
      <4>1. h = "certificate" => new.cert # run[r].cert
        BY <2>2, <3>3
      <4>2. h = "sales" => ~new.sales
        BY <2>2, <3>3
      <4>. QED
        BY <2>1, <3>3, <4>1, <4>2 DEF Against, SalesHeld
    <3>. QED
      BY <3>1, <3>2, <3>3
  <2>. QED
    BY <2>2, <2>3 DEF LateInv, LateFits
<1>. QED
  BY <1>1, <1>2, <1>3, <1>4, <1>5, <1>6, <1>7, <1>8, <1>9, <1>10 DEF Next, Publish, Environment

\* A hold that is in force - another certificate, a receipt withdrawn, closed sales -
\* lets one post of a run through at most, the one checked before it.
THEOREM OneLate == Spec => []OneLatePost
<1>1. LateInv => OneLatePost
  BY DEF LateInv, LateFits, OneLatePost
<1>2. Typed /\ [Next]_vars => Typed'
  BY NextTyped
<1>3. Typed /\ LateInv /\ [Next]_vars => LateInv'
  BY NextLate
<1>. QED
  BY InitTyped, InitLate, <1>1, <1>2, <1>3, PTL DEF Spec

-----------------------------------------------------------------------------
(* Each network once: what the reservation service prevents *)

\* A run works on a picture from the reservation on; outside S it works alone.
WorksOn(x, m) == x.pc \in Reserved /\ x.item.media = m
Alone(S) == \A m \in Media \ S : \A q, r \in Runs : WorksOn(run[q], m) /\ WorksOn(run[r], m) => q = r

\* Of a picture reserved once, the run that works on it knows every post but the one it
\* is about to save; a picture not reserved was not posted.
KnowsPosts(x, p, S) ==
  x.pc \in Reserved /\ x.item.media \notin S =>
    \A n \in Network \ x.item.ids : p[x.item.media][n] = 0 \/ (x.pc = "save" /\ x.goal = n)
GrantedInv ==
  /\ Alone(granted)
  /\ \A m \in Media : claims[m] = None => \A n \in Network : posts[m][n] = 0
  /\ \A m \in Media \ granted : \A n \in Network : posts[m][n] <= 1
  /\ \A r \in Runs : KnowsPosts(run[r], posts, granted)

LEMMA IdleAlone ==
  /\ \A m : ~WorksOn(IdleRun, m)
  /\ \A p, S : KnowsPosts(IdleRun, p, S)
  BY DEF WorksOn, KnowsPosts, IdleRun, Reserved

\* A run that begins no work leaves the others alone.
LEMMA AloneStep ==
  ASSUME RunsTyped, NEW r \in Runs, NEW x, Becomes(r, x), NEW S, NEW T, Alone(S), S \subseteq T,
         \A m \in Media \ T : WorksOn(x, m) => WorksOn(run[r], m)
  PROVE  \A m \in Media \ T : \A q, s \in Runs : WorksOn(run'[q], m) /\ WorksOn(run'[s], m) => q = s
<1>. SUFFICES ASSUME NEW m \in Media \ T, NEW q \in Runs, NEW s \in Runs, WorksOn(run'[q], m), WorksOn(run'[s], m)
              PROVE  q = s
  OBVIOUS
<1>1. ASSUME NEW k \in Runs, WorksOn(run'[k], m) PROVE WorksOn(run[k], m)
  <2>1. CASE k = r
    BY <1>1, <2>1, OthersSame
  <2>2. CASE k # r
    BY <1>1, <2>2, OthersSame
  <2>. QED
    BY <2>1, <2>2
<1>2. WorksOn(run[q], m) /\ WorksOn(run[s], m)
  BY <1>1
<1>. QED
  BY <1>2 DEF Alone

LEMMA InitGranted == Init => GrantedInv
  BY DEF Init, GrantedInv, Alone, WorksOn, KnowsPosts, IdleRun, Reserved

\* Steps of a run that reserve, post and grant nothing.
LEMMA GrantedRun ==
  ASSUME Typed, GrantedInv, NEW r \in Runs, NEW x, Becomes(r, x), UNCHANGED <<claims, posts, granted>>,
         KnowsPosts(x, posts, granted), \A m \in Media \ granted : WorksOn(x, m) => WorksOn(run[r], m)
  PROVE  GrantedInv'
<1>0. RunsTyped
  BY DEF Typed
<1>1. Alone(granted)'
  BY <1>0, AloneStep DEF GrantedInv, Alone
<1>2. \A q \in Runs : KnowsPosts(run'[q], posts, granted)
  BY <1>0, OthersSame DEF GrantedInv
<1>. QED
  BY <1>1, <1>2 DEF GrantedInv

LEMMA NextGranted == Typed /\ ClaimInv /\ GrantedInv /\ [Next]_vars => GrantedInv'
<1>. SUFFICES ASSUME Typed, ClaimInv, GrantedInv, Next PROVE GrantedInv'
  <2>1. UNCHANGED vars /\ GrantedInv => GrantedInv'
    BY DEF GrantedInv, Alone, vars
  <2>. QED
    BY <2>1
<1>0. RunsTyped /\ StoreTyped
  BY DEF Typed
<1>1. ASSUME NEW r \in Runs, Begin(r) \/ List(r) \/ Certify(r) \/ Verify(r) PROVE GrantedInv'
  <2>1. PICK x : Becomes(r, x) /\ x.pc \in {"list", "certify", "verify", "claim"}
    BY <1>0, <1>1, EarlyMoves
  <2>2. KnowsPosts(x, posts, granted) /\ \A m : ~WorksOn(x, m)
    BY <2>1 DEF KnowsPosts, WorksOn, Reserved
  <2>. QED
    BY <1>1, <2>1, <2>2, GrantedRun DEF Begin, List, Certify, Verify
<1>2. ASSUME NEW r \in Runs, Claim(r) PROVE GrantedInv'
  <2>1. PICK m, c : m = run[r].item.media /\ c = run[r].creative
    OBVIOUS
  <2>2. /\ m \in Media /\ c \in Creative /\ claims[m] \in {None, c}
        /\ claims' = [claims EXCEPT ![m] = c] /\ UNCHANGED posts
        /\ granted' = IF claims[m] = c THEN granted \union {m} ELSE granted
    BY <1>0, <1>2, <2>1 DEF Claim, At, Grants, RunsTyped, RunFits, InHand, Record
  <2>3. PICK x : Becomes(r, x) /\ (x = IdleRun \/ (SameWork(x, run[r]) /\ x.pc = "check"))
    BY <1>0, <1>2, ClaimMoves
  <2>4. granted \subseteq granted' /\ c # None
    BY <2>2, PublisherAssumption
  <2>5. m \notin granted' => claims[m] = None
    BY <2>2
  <2>6. claims[m] = None => \A q \in Runs : ~WorksOn(run[q], m)
    BY <1>0, <2>2, <2>4, PublisherAssumption DEF ClaimInv, RunsHold, HoldsClaim, WorksOn, RunsTyped, RunFits, InHand
  <2>7. \A k \in Media \ granted' : WorksOn(x, k) => k = m
    BY <2>1, <2>3, IdleAlone DEF WorksOn, SameWork
  <2>8. Alone(granted)'
    <3>. SUFFICES ASSUME NEW k \in Media \ granted', NEW q \in Runs, NEW s \in Runs,
                         WorksOn(run'[q], k), WorksOn(run'[s], k)
                  PROVE  q = s
      BY DEF Alone
    <3>1. CASE q # r /\ s # r
      BY <1>0, <2>3, <2>4, <3>1, OthersSame DEF GrantedInv, Alone
    <3>2. CASE q = r /\ s # r
      BY <1>0, <2>3, <2>5, <2>6, <2>7, <3>2, OthersSame
    <3>3. CASE q # r /\ s = r
      BY <1>0, <2>3, <2>5, <2>6, <2>7, <3>3, OthersSame
    <3>. QED
      BY <3>1, <3>2, <3>3
  <2>9. KnowsPosts(x, posts, granted')
    <3>1. CASE x = IdleRun
      BY <3>1, IdleAlone
    <3>2. CASE SameWork(x, run[r])
      <4>1. x.item.media = m /\ (m \notin granted' => \A n \in Network : posts[m][n] = 0)
        BY <2>1, <2>2, <2>5, <3>2 DEF SameWork, GrantedInv
      <4>. QED
        BY <4>1 DEF KnowsPosts
    <3>. QED
      BY <2>3, <3>1, <3>2
  <2>10. \A q \in Runs : KnowsPosts(run'[q], posts, granted')
    BY <1>0, <2>3, <2>4, <2>9, OthersSame DEF GrantedInv, KnowsPosts
  <2>11. \A k \in Media : claims'[k] = None => claims[k] = None
    BY <1>0, <2>2, <2>4 DEF StoreTyped
  <2>. QED
    BY <2>2, <2>4, <2>8, <2>10, <2>11 DEF GrantedInv
<1>3. ASSUME NEW r \in Runs,
             CheckCertificate(r) \/ CheckReceipt(r) \/ CheckSwitch(r) \/ CreateContainer(r)
      PROVE  GrantedInv'
  <2>1. PICK x : /\ Becomes(r, x) /\ SameWork(x, run[r])
                 /\ x.pc # "save" /\ run[r].pc \in Reserved \ {"save"}
    BY <1>0, <1>3, CheckMoves DEF Reserved
  <2>2. KnowsPosts(x, posts, granted) /\ \A m : WorksOn(x, m) => WorksOn(run[r], m)
    BY <2>1 DEF GrantedInv, KnowsPosts, SameWork, WorksOn
  <2>. QED
    BY <1>3, <2>1, <2>2, GrantedRun DEF CheckCertificate, CheckReceipt, CheckSwitch, CreateContainer
<1>4. ASSUME NEW r \in Runs, Post(r) PROVE GrantedInv'
  <2>1. PICK m, n : m = run[r].item.media /\ n = run[r].goal
    OBVIOUS
  <2>2. run[r].pc = "post" /\ n \in Network /\ UNCHANGED <<claims, granted>>
    BY <1>0, <1>4, <2>1, PostMoves DEF Post
  <2>3. m \in Media /\ run[r].creative \in Creative /\ n \notin run[r].item.ids /\ WorksOn(run[r], m)
    BY <1>0, <2>1, <2>2 DEF RunsTyped, RunFits, InHand, Reserved, Record, WorksOn, Network
  <2>4. PICK x : /\ Becomes(r, x)
                 /\ x = IdleRun \/ (SameWork(x, run[r]) /\ x.pc = "save" /\ x.goal = n)
    BY <1>0, <1>4, <2>1, PostMoves
  <2>5. /\ \A k \in Media, l \in Network :
             posts'[k][l] = IF k = m /\ l = n THEN posts[k][l] + 1 ELSE posts[k][l]
        /\ \A k \in Media, l \in Network : posts[k][l] \in Nat
    BY <1>0, <1>4, <2>1, <2>2, <2>3 DEF Post, StoreTyped
  <2>6. m \notin granted => posts[m][n] = 0
    BY <2>1, <2>2, <2>3 DEF GrantedInv, KnowsPosts, WorksOn
  <2>7. \A k \in Media \ granted : WorksOn(x, k) => WorksOn(run[r], k)
    BY <2>1, <2>2, <2>4, IdleAlone DEF WorksOn, SameWork, Reserved
  <2>8. Alone(granted)'
    <3>1. Becomes(r, x) /\ Alone(granted)
      BY <2>4 DEF GrantedInv
    <3>2. \A k \in Media \ granted : \A q, s \in Runs : WorksOn(run'[q], k) /\ WorksOn(run'[s], k) => q = s
      BY <1>0, <2>7, <3>1, AloneStep
    <3>. QED
      BY <2>2, <3>2 DEF Alone
  <2>9. claims[m] # None
    BY <1>0, <2>1, <2>3, PublisherAssumption DEF ClaimInv, RunsHold, HoldsClaim, WorksOn
  <2>10. \A k \in Media : claims'[k] = None => \A l \in Network : posts'[k][l] = 0
    BY <2>2, <2>5, <2>9 DEF GrantedInv
  <2>11. \A k \in Media \ granted : \A l \in Network : posts'[k][l] <= 1
    BY <2>5, <2>6 DEF GrantedInv
  <2>12. KnowsPosts(x, posts', granted)
    <3>1. CASE x = IdleRun
      BY <3>1, IdleAlone
    <3>2. CASE SameWork(x, run[r]) /\ x.pc = "save" /\ x.goal = n
      <4>. SUFFICES ASSUME m \notin granted, NEW l \in Network \ run[r].item.ids, l # n PROVE posts'[m][l] = 0
        BY <2>1, <3>2 DEF KnowsPosts, SameWork
      <4>1. posts[m][l] = 0
        BY <2>1, <2>2, <2>3 DEF GrantedInv, KnowsPosts, WorksOn
      <4>. QED
        BY <2>3, <2>5, <4>1
    <3>. QED
      BY <2>4, <3>1, <3>2
  <2>13. ASSUME NEW q \in Runs \ {r} PROVE KnowsPosts(run[q], posts', granted)
    <3>. SUFFICES ASSUME run[q].pc \in Reserved, run[q].item.media \notin granted,
                         NEW l \in Network \ run[q].item.ids
                  PROVE  posts'[run[q].item.media][l] = 0 \/ (run[q].pc = "save" /\ run[q].goal = l)
      BY DEF KnowsPosts
    <3>1. run[q].item.media \in Media /\ WorksOn(run[q], run[q].item.media)
      BY <1>0 DEF RunsTyped, RunFits, InHand, Record, WorksOn
    <3>2. run[q].item.media # m
      BY <2>3, <3>1 DEF GrantedInv, Alone
    <3>. QED
      BY <2>5, <3>1, <3>2 DEF GrantedInv, KnowsPosts
  <2>14. \A q \in Runs : KnowsPosts(run'[q], posts', granted)
    BY <1>0, <2>4, <2>12, <2>13, OthersSame
  <2>. QED
    BY <2>2, <2>8, <2>10, <2>11, <2>14 DEF GrantedInv
<1>5. ASSUME NEW r \in Runs, PostFail(r) \/ Cut(r) PROVE GrantedInv'
  BY <1>0, <1>5, StopMoves, IdleAlone, GrantedRun DEF PostFail, Cut
<1>6. ASSUME NEW r \in Runs, Save(r) PROVE GrantedInv'
  <2>1. PICK x : /\ Becomes(r, x)
                 /\ x = IdleRun \/ (x.item = Posted(r) /\ x.creative = run[r].creative /\ x.pc = "check")
    BY <1>0, <1>6, SaveMoves
  <2>2. run[r].pc = "save" /\ UNCHANGED <<claims, posts, granted>>
    BY <1>6 DEF Save, At
  <2>3. Posted(r).media = run[r].item.media /\ Posted(r).ids = run[r].item.ids \union {run[r].goal}
    BY <1>0, <2>2, PostedType
  <2>4. KnowsPosts(x, posts, granted) /\ \A m : WorksOn(x, m) => WorksOn(run[r], m)
    BY <2>1, <2>2, <2>3, IdleAlone DEF GrantedInv, KnowsPosts, WorksOn, Reserved
  <2>. QED
    BY <2>1, <2>2, <2>4, GrantedRun
<1>7. ASSUME (\E e \in Editors : Edit(e)) \/ Environment PROVE GrantedInv'
  BY <1>7, OutsideSame DEF GrantedInv, Alone
<1>. QED
  BY <1>1, <1>2, <1>3, <1>4, <1>5, <1>6, <1>7 DEF Next, Publish

-----------------------------------------------------------------------------
(* Each network once: what the record prevents *)

\* The record of the creative a picture is reserved for tells of a post, or the run that
\* made it is about to save it; a run's record knows no more than the run.
Tells(m, n) ==
  \/ claims[m] \in Creative /\ rec[claims[m]].media = m /\ n \in rec[claims[m]].ids
  \/ \E r \in Runs : WorksOn(run[r], m) /\ run[r].pc = "save" /\ run[r].goal = n
Behind(x, recs, S) ==
  x.pc \in Reserved /\ x.item.media \notin S /\ recs[x.creative].media = x.item.media =>
    recs[x.creative].ids \subseteq x.item.ids

\* What waits was not posted, so that a picture the factory replaces was not either.
WaitingUnposted ==
  /\ \A c \in Creative : rec[c].status = "approval" => rec[c].ids = {}
  /\ \A r \in Runs : run[r].pc \in InHand => run[r].item.status # "approval"
  /\ \A e \in Editors : edit[e].pc = "write" =>
       IF edit[e].via = "factory" THEN edit[e].seen.ids = {} ELSE edit[e].media = edit[e].seen.media
TellsAll ==
  \A m \in Media \ doubt : \A n \in Network : posts[m][n] > 0 => posts[m][n] = 1 /\ Tells(m, n)
DoubtInv ==
  /\ Alone(doubt) /\ TellsAll
  /\ \A r \in Runs : Behind(run[r], rec, doubt)

LEMMA InitWaiting == Init => WaitingUnposted
<1>. SUFFICES ASSUME Init PROVE WaitingUnposted
  OBVIOUS
<1>1. \A c \in Creative : rec[c].ids = {}
  BY InitRecords
<1>. QED
  BY <1>1 DEF Init, WaitingUnposted, IdleRun, IdleEdit, InHand, Reserved

LEMMA WaitingRun ==
  ASSUME RunsTyped, WaitingUnposted, NEW r \in Runs, NEW x, Becomes(r, x), UNCHANGED <<rec, edit>>,
         x.pc \in InHand => x.item.status # "approval"
  PROVE  WaitingUnposted'
<1>1. \A q \in Runs : run'[q].pc \in InHand => run'[q].item.status # "approval"
  BY OthersSame DEF WaitingUnposted
<1>. QED
  BY <1>1 DEF WaitingUnposted

LEMMA IdleNotInHand == IdleRun.pc \notin InHand
  BY DEF IdleRun, InHand, Reserved

LEMMA PostedNotWaiting ==
  ASSUME Typed, WaitingUnposted, NEW r \in Runs, run[r].pc = "save"
  PROVE  Posted(r).status # "approval"
<1>1. run[r].item.status # "approval" /\ RunsTyped
  BY DEF WaitingUnposted, InHand, Reserved, Typed
<1>. QED
  BY <1>1, PostedType

LEMMA NextWaiting == Typed /\ WaitingUnposted /\ [Next]_vars => WaitingUnposted'
<1>. SUFFICES ASSUME Typed, WaitingUnposted, Next PROVE WaitingUnposted'
  <2>1. UNCHANGED vars /\ WaitingUnposted => WaitingUnposted'
    BY DEF WaitingUnposted, vars
  <2>. QED
    BY <2>1
<1>0. RunsTyped /\ EditsTyped /\ StoreTyped
  BY DEF Typed
<1>1. ASSUME NEW r \in Runs, Begin(r) \/ List(r) \/ Certify(r) \/ Verify(r) PROVE WaitingUnposted'
  <2>1. PICK x : /\ Becomes(r, x)
                 /\ \/ x.pc = "list" /\ Begin(r)
                    \/ x.creative \in Creative /\ x.item = rec[x.creative] /\ x.item.status = "approved"
                    \/ /\ x.item = run[r].item /\ x.creative = run[r].creative
                       /\ run[r].pc \in InHand \ Reserved
    BY <1>0, <1>1, EarlyMoves
  <2>2. x.pc \in InHand => x.item.status # "approval"
    BY <2>1 DEF WaitingUnposted, InHand, Reserved
  <2>. QED
    BY <1>0, <1>1, <2>1, <2>2, WaitingRun DEF Begin, List, Certify, Verify
<1>2. ASSUME NEW r \in Runs, Claim(r) PROVE WaitingUnposted'
  <2>1. PICK x : Becomes(r, x) /\ (x = IdleRun \/ (SameWork(x, run[r]) /\ x.pc = "check"))
    BY <1>0, <1>2, ClaimMoves
  <2>2. run[r].pc \in InHand
    BY <1>0, <1>2, ClaimMoves DEF InHand
  <2>3. x.pc \in InHand => x.item.status # "approval"
    BY <2>1, <2>2, IdleNotInHand DEF WaitingUnposted, SameWork
  <2>. QED
    BY <1>0, <1>2, <2>1, <2>3, WaitingRun DEF Claim
<1>3. ASSUME NEW r \in Runs,
             CheckCertificate(r) \/ CheckReceipt(r) \/ CheckSwitch(r) \/ CreateContainer(r)
      PROVE  WaitingUnposted'
  <2>1. PICK x : Becomes(r, x) /\ SameWork(x, run[r]) /\ run[r].pc \in InHand
    BY <1>0, <1>3, CheckMoves DEF InHand, Reserved
  <2>2. x.item.status # "approval"
    BY <2>1 DEF WaitingUnposted, SameWork
  <2>. QED
    BY <1>0, <1>3, <2>1, <2>2, WaitingRun DEF CheckCertificate, CheckReceipt, CheckSwitch, CreateContainer
<1>4. ASSUME NEW r \in Runs, Post(r) PROVE WaitingUnposted'
  <2>1. PICK x : Becomes(r, x) /\ (x = IdleRun \/ SameWork(x, run[r]))
    BY <1>0, <1>4, PostMoves
  <2>2. run[r].pc \in InHand
    BY <1>0, <1>4, PostMoves DEF InHand, Reserved
  <2>3. x.pc \in InHand => x.item.status # "approval"
    BY <2>1, <2>2, IdleNotInHand DEF WaitingUnposted, SameWork
  <2>. QED
    BY <1>0, <1>4, <2>1, <2>3, WaitingRun DEF Post
<1>5. ASSUME NEW r \in Runs, PostFail(r) \/ Cut(r) PROVE WaitingUnposted'
  BY <1>0, <1>5, StopMoves, IdleNotInHand, WaitingRun DEF PostFail, Cut
<1>6. ASSUME NEW r \in Runs, Save(r) PROVE WaitingUnposted'
  <2>1. PICK x : Becomes(r, x) /\ (x = IdleRun \/ x.item = Posted(r))
    BY <1>0, <1>6, SaveMoves
  <2>2. /\ run[r].pc = "save" /\ rec' = [rec EXCEPT ![run[r].creative] = Posted(r)] /\ UNCHANGED edit
    BY <1>6 DEF Save, At
  <2>3. Posted(r).status # "approval"
    BY <2>2, PostedNotWaiting
  <2>4. \A c \in Creative : rec'[c].status = "approval" => rec'[c].ids = {}
    BY <1>0, <2>2, <2>3 DEF WaitingUnposted, StoreTyped
  <2>5. \A q \in Runs : run'[q].pc \in InHand => run'[q].item.status # "approval"
    BY <1>0, <2>1, <2>3, OthersSame, IdleNotInHand DEF WaitingUnposted
  <2>. QED
    BY <2>2, <2>4, <2>5 DEF WaitingUnposted
<1>7. ASSUME NEW e \in Editors, NEW c \in Creative, NEW via \in Via, NEW m \in Media,
             BeginEdit(e, c, via, m)
      PROVE  WaitingUnposted'
  <2>1. /\ edit' = [edit EXCEPT ![e] = [pc |-> "write", via |-> via, creative |-> c, seen |-> rec[c], media |-> m]]
        /\ UNCHANGED <<rec, run>>
        /\ via = "factory" => rec[c].status = "approval"
        /\ via = "factory" \/ m = rec[c].media
    BY <1>7 DEF BeginEdit, Waits
  <2>2. via = "factory" => rec[c].ids = {}
    BY <2>1 DEF WaitingUnposted
  <2>3. edit'[e] = [pc |-> "write", via |-> via, creative |-> c, seen |-> rec[c], media |-> m]
        /\ \A f \in Editors \ {e} : edit'[f] = edit[f]
    BY <1>0, <2>1 DEF EditsTyped
  <2>4. \A f \in Editors : edit'[f].pc = "write" =>
          IF edit'[f].via = "factory" THEN edit'[f].seen.ids = {} ELSE edit'[f].media = edit'[f].seen.media
    BY <2>1, <2>2, <2>3 DEF WaitingUnposted
  <2>. QED
    BY <2>1, <2>4 DEF WaitingUnposted
<1>8. ASSUME NEW e \in Editors, EndEdit(e) \/ CutEdit(e) PROVE WaitingUnposted'
  <2>1. /\ edit' = [edit EXCEPT ![e] = IdleEdit] /\ UNCHANGED run
        /\ edit[e].pc = "write" /\ EditFits(e)
        /\ rec' = [rec EXCEPT ![edit[e].creative] = Edited(e)] \/ rec' = rec
    BY <1>0, <1>8 DEF EndEdit, CutEdit, EditsTyped
  <2>2. Edited(e).status = "approval" => Edited(e).ids = {}
    <3>1. CASE edit[e].via = "factory"
      BY <3>1 DEF Edited, Fresh
    <3>2. CASE edit[e].via # "factory"
      BY <2>1, <3>2 DEF Edited, EditFits, Via, Record
    <3>. QED
      BY <3>1, <3>2
  <2>3. \A c \in Creative : rec'[c].status = "approval" => rec'[c].ids = {}
    BY <1>0, <2>1, <2>2 DEF WaitingUnposted, StoreTyped
  <2>4. \A f \in Editors : edit'[f].pc = "write" => f # e /\ edit'[f] = edit[f]
    BY <1>0, <2>1 DEF EditsTyped, IdleEdit
  <2>. QED
    BY <2>1, <2>3, <2>4 DEF WaitingUnposted
<1>9. ASSUME Environment PROVE WaitingUnposted'
  <2>1. \A c \in Creative : rec'[c].status = rec[c].status /\ rec'[c].ids = rec[c].ids
    BY <1>0, <1>9 DEF Environment, Attach, ChangeCertificate, Recall, TurnSwitch, Change, StoreTyped, Record
  <2>2. UNCHANGED <<run, edit>>
    BY <1>9 DEF Environment, Attach, ChangeCertificate, Recall, TurnSwitch, Change
  <2>. QED
    BY <2>1, <2>2 DEF WaitingUnposted
<1>. QED
  BY <1>1, <1>2, <1>3, <1>4, <1>5, <1>6, <1>7, <1>8, <1>9 DEF Next, Publish, Edit

-----------------------------------------------------------------------------
LEMMA InitDoubt == Init => DoubtInv
<1>. SUFFICES ASSUME Init PROVE DoubtInv
  OBVIOUS
<1>1. \A m \in Media, n \in Network : posts[m][n] = 0
  BY DEF Init
<1>2. \A r \in Runs : run[r].pc \notin Reserved
  BY DEF Init, IdleRun, Reserved
<1>. QED
  BY <1>1, <1>2 DEF DoubtInv, Alone, TellsAll, WorksOn, Behind

\* Steps of a run that is not about to save, and write nothing.
LEMMA DoubtRun ==
  ASSUME RunsTyped, DoubtInv, NEW r \in Runs, NEW x, Becomes(r, x), UNCHANGED <<rec, claims, posts, doubt>>,
         run[r].pc # "save", Behind(x, rec, doubt), \A m \in Media \ doubt : WorksOn(x, m) => WorksOn(run[r], m)
  PROVE  DoubtInv'
<1>1. Alone(doubt)'
  BY AloneStep DEF DoubtInv, Alone
<1>2. ASSUME NEW m \in Media, NEW n \in Network, Tells(m, n) PROVE Tells(m, n)'
  BY <1>2, OthersSame DEF Tells
<1>3. TellsAll'
  BY <1>2 DEF DoubtInv, TellsAll
<1>4. \A q \in Runs : Behind(run'[q], rec, doubt)
  BY OthersSame DEF DoubtInv
<1>. QED
  BY <1>1, <1>3, <1>4 DEF DoubtInv

LEMMA IdleBehind == \A recs, S : Behind(IdleRun, recs, S)
  BY DEF Behind, IdleRun, Reserved

LEMMA ClaimDoubt ==
  ASSUME Typed, ClaimInv, GrantedInv, DoubtInv, NEW r \in Runs, Claim(r)
  PROVE  DoubtInv'
<1>0. RunsTyped /\ StoreTyped
  BY DEF Typed
<1>1. PICK m, c : m = run[r].item.media /\ c = run[r].creative
  OBVIOUS
<1>2. /\ m \in Media /\ c \in Creative /\ claims[m] \in {None, c} /\ run[r].pc = "claim"
      /\ claims' = [claims EXCEPT ![m] = c] /\ UNCHANGED <<rec, posts>>
      /\ doubt' = IF UnderWay(m) \/ Stale(c, run[r].item) THEN doubt \union {m} ELSE doubt
  BY <1>0, <1>1 DEF Claim, At, Grants, RunsTyped, RunFits, InHand, Record
<1>3. PICK x : Becomes(r, x) /\ (x = IdleRun \/ (SameWork(x, run[r]) /\ x.pc = "check"))
  BY <1>0, ClaimMoves
<1>4. /\ doubt \subseteq doubt'
      /\ m \notin doubt' => /\ \A q \in Runs : ~WorksOn(run[q], m)
                            /\ rec[c].ids = run[r].item.ids
  BY <1>2 DEF UnderWay, Stale, WorksOn
<1>5. \A k \in Media : WorksOn(x, k) => k = m
  BY <1>1, <1>3, IdleAlone DEF WorksOn, SameWork
<1>6. Alone(doubt)'
  <2>. SUFFICES ASSUME NEW k \in Media \ doubt', NEW q \in Runs, NEW s \in Runs,
                       WorksOn(run'[q], k), WorksOn(run'[s], k)
                PROVE  q = s
    BY DEF Alone
  <2>1. CASE q # r /\ s # r
    BY <1>0, <1>3, <1>4, <2>1, OthersSame DEF DoubtInv, Alone
  <2>2. CASE q = r /\ s # r
    BY <1>0, <1>3, <1>4, <1>5, <2>2, OthersSame
  <2>3. CASE q # r /\ s = r
    BY <1>0, <1>3, <1>4, <1>5, <2>3, OthersSame
  <2>. QED
    BY <2>1, <2>2, <2>3
<1>7. TellsAll'
  <2>. SUFFICES ASSUME NEW k \in Media \ doubt', NEW n \in Network, posts[k][n] > 0
                PROVE  posts[k][n] = 1 /\ Tells(k, n)'
    BY <1>2 DEF TellsAll
  <2>1. posts[k][n] = 1 /\ Tells(k, n)
    BY <1>4 DEF DoubtInv, TellsAll
  <2>2. claims[k] # None
    BY <1>0 DEF GrantedInv, StoreTyped
  <2>3. claims'[k] = claims[k]
    BY <1>0, <1>2, <2>2 DEF StoreTyped
  <2>4. \A q \in Runs : run[q].pc = "save" => run'[q] = run[q]
    BY <1>0, <1>2, <1>3, OthersSame
  <2>. QED
    BY <1>2, <2>1, <2>3, <2>4 DEF Tells
<1>8. Behind(x, rec, doubt')
  <2>1. CASE x = IdleRun
    BY <2>1, IdleBehind
  <2>2. CASE SameWork(x, run[r])
    <3>1. x.item.media = m /\ x.creative = c /\ x.item.ids = run[r].item.ids
      BY <1>1, <2>2 DEF SameWork
    <3>. QED
      BY <1>4, <3>1 DEF Behind
  <2>. QED
    BY <1>3, <2>1, <2>2
<1>9. \A q \in Runs : Behind(run'[q], rec, doubt')
  BY <1>0, <1>3, <1>4, <1>8, OthersSame DEF DoubtInv, Behind
<1>. QED
  BY <1>2, <1>6, <1>7, <1>9 DEF DoubtInv

LEMMA PostDoubt ==
  ASSUME Typed, ClaimInv, DoubtInv, NEW r \in Runs, Post(r)
  PROVE  DoubtInv'
<1>0. RunsTyped /\ StoreTyped
  BY DEF Typed
<1>1. PICK m, n : m = run[r].item.media /\ n = run[r].goal
  OBVIOUS
<1>2. run[r].pc = "post" /\ n \in Network /\ UNCHANGED <<rec, claims>>
  BY <1>0, <1>1, PostMoves DEF Post
<1>3. m \in Media /\ run[r].creative \in Creative /\ n \notin run[r].item.ids /\ WorksOn(run[r], m)
  BY <1>0, <1>1, <1>2 DEF RunsTyped, RunFits, InHand, Reserved, Record, WorksOn, Network
<1>4. PICK x : /\ Becomes(r, x)
               /\ \/ x = IdleRun /\ doubt' = doubt \union {m}
                  \/ SameWork(x, run[r]) /\ x.pc = "save" /\ x.goal = n /\ doubt' = doubt
  BY <1>0, <1>1, PostMoves
<1>5. /\ \A k \in Media, l \in Network :
           posts'[k][l] = IF k = m /\ l = n THEN posts[k][l] + 1 ELSE posts[k][l]
      /\ \A k \in Media, l \in Network : posts[k][l] \in Nat
  BY <1>0, <1>1, <1>2, <1>3 DEF Post, StoreTyped
<1>6. doubt \subseteq doubt'
  BY <1>4
<1>7. ASSUME m \notin doubt PROVE posts[m][n] = 0
  <2>. SUFFICES ASSUME posts[m][n] > 0 PROVE FALSE
    BY <1>2, <1>3, <1>5
  <2>1. Tells(m, n)
    BY <1>2, <1>3, <1>7 DEF DoubtInv, TellsAll
  <2>2. claims[m] = run[r].creative
    BY <1>1, <1>3 DEF ClaimInv, RunsHold, HoldsClaim, WorksOn
  <2>3. rec[run[r].creative].media = m => rec[run[r].creative].ids \subseteq run[r].item.ids
    BY <1>1, <1>3, <1>7 DEF DoubtInv, Behind, WorksOn
  <2>4. \A q \in Runs : WorksOn(run[q], m) => q = r
    BY <1>3, <1>7 DEF DoubtInv, Alone
  <2>. QED
    BY <1>2, <1>3, <2>1, <2>2, <2>3, <2>4 DEF Tells
<1>8. \A k \in Media \ doubt' : WorksOn(x, k) => WorksOn(run[r], k)
  BY <1>1, <1>3, <1>4, IdleAlone DEF WorksOn, SameWork
<1>9. Alone(doubt)'
  BY <1>0, <1>4, <1>6, <1>8, AloneStep DEF DoubtInv, Alone
<1>10. TellsAll'
  <2>. SUFFICES ASSUME NEW k \in Media \ doubt', NEW l \in Network, posts'[k][l] > 0
                PROVE  posts'[k][l] = 1 /\ Tells(k, l)'
    BY DEF TellsAll
  <2>1. CASE k = m /\ l = n
    <3>1. posts'[k][l] = 1
      BY <1>5, <1>6, <1>7, <2>1
    <3>2. SameWork(x, run[r]) /\ x.pc = "save" /\ x.goal = n
      BY <1>4, <2>1
    <3>3. WorksOn(run'[r], m) /\ run'[r].pc = "save" /\ run'[r].goal = n
      BY <1>0, <1>1, <1>4, <3>2, OthersSame DEF WorksOn, SameWork, Reserved
    <3>. QED
      BY <2>1, <3>1, <3>3 DEF Tells
  <2>2. CASE ~(k = m /\ l = n)
    <3>1. posts'[k][l] = posts[k][l]
      BY <1>5, <2>2
    <3>2. posts[k][l] = 1 /\ Tells(k, l)
      BY <1>6, <3>1 DEF DoubtInv, TellsAll
    <3>3. \A q \in Runs : run[q].pc = "save" => run'[q] = run[q]
      BY <1>0, <1>2, <1>4, OthersSame
    <3>. QED
      BY <1>2, <3>1, <3>2, <3>3 DEF Tells
  <2>. QED
    BY <2>1, <2>2
<1>11. Behind(x, rec, doubt')
  <2>1. CASE x = IdleRun
    BY <2>1, IdleBehind
  <2>2. CASE SameWork(x, run[r]) /\ doubt' = doubt
    BY <1>3, <2>2 DEF DoubtInv, Behind, SameWork, WorksOn
  <2>. QED
    BY <1>4, <2>1, <2>2
<1>12. \A q \in Runs : Behind(run'[q], rec, doubt')
  BY <1>0, <1>4, <1>6, <1>11, OthersSame DEF DoubtInv, Behind
<1>. QED
  BY <1>2, <1>9, <1>10, <1>12 DEF DoubtInv

LEMMA CutDoubt ==
  ASSUME Typed, DoubtInv, NEW r \in Runs, Cut(r)
  PROVE  DoubtInv'
<1>0. RunsTyped /\ Becomes(r, IdleRun)
  BY StopMoves DEF Typed
<1>1. /\ UNCHANGED <<rec, claims, posts>>
      /\ doubt' = IF run[r].pc = "save" THEN doubt \union {run[r].item.media} ELSE doubt
  BY DEF Cut, At
<1>2. doubt \subseteq doubt'
  BY <1>1
<1>3. Alone(doubt)'
  <2>1. PICK T : T = doubt'
    OBVIOUS
  <2>2. doubt \subseteq T /\ Alone(doubt)
    BY <1>2, <2>1 DEF DoubtInv
  <2>3. \A k \in Media \ T : WorksOn(IdleRun, k) => WorksOn(run[r], k)
    BY IdleAlone
  <2>4. \A k \in Media \ T : \A q, s \in Runs : WorksOn(run'[q], k) /\ WorksOn(run'[s], k) => q = s
    BY <1>0, <2>2, <2>3, AloneStep
  <2>. QED
    BY <2>1, <2>4 DEF Alone
<1>4. ASSUME NEW m \in Media \ doubt', NEW n \in Network, Tells(m, n) PROVE Tells(m, n)'
  <2>1. \A q \in Runs : WorksOn(run[q], m) /\ run[q].pc = "save" => run'[q] = run[q]
    BY <1>0, <1>1, OthersSame DEF WorksOn
  <2>. QED
    BY <1>1, <1>4, <2>1 DEF Tells
<1>5. ASSUME NEW m \in Media \ doubt', NEW n \in Network, posts'[m][n] > 0
      PROVE  posts'[m][n] = 1 /\ Tells(m, n)'
  <2>1. posts[m][n] > 0 /\ m \in Media \ doubt
    BY <1>1, <1>2, <1>5
  <2>2. posts[m][n] = 1 /\ Tells(m, n)
    BY <2>1 DEF DoubtInv, TellsAll
  <2>. QED
    BY <1>1, <1>4, <2>2
<1>6. \A q \in Runs : Behind(run'[q], rec, doubt')
  BY <1>0, <1>2, OthersSame, IdleBehind DEF DoubtInv, Behind
<1>7. TellsAll'
  BY <1>5 DEF TellsAll
<1>. QED
  BY <1>1, <1>3, <1>6, <1>7 DEF DoubtInv

LEMMA SaveDoubt ==
  ASSUME Typed, ClaimInv, DoubtInv, NEW r \in Runs, Save(r)
  PROVE  DoubtInv'
<1>0. RunsTyped /\ StoreTyped
  BY DEF Typed
<1>1. PICK m, c : m = run[r].item.media /\ c = run[r].creative
  OBVIOUS
<1>2. /\ run[r].pc = "save" /\ UNCHANGED <<claims, posts>>
      /\ rec' = [rec EXCEPT ![c] = Posted(r)]
      /\ doubt' = IF Stale(c, run[r].item) THEN doubt \union {m, rec[c].media} ELSE doubt
  BY <1>1 DEF Save, At
<1>3. m \in Media /\ c \in Creative /\ WorksOn(run[r], m)
  BY <1>0, <1>1, <1>2 DEF RunsTyped, RunFits, InHand, Reserved, Record, WorksOn
<1>4. Posted(r).media = m /\ Posted(r).ids = run[r].item.ids \union {run[r].goal}
  BY <1>0, <1>1, <1>2, PostedType
<1>5. PICK x : /\ Becomes(r, x)
               /\ x = IdleRun \/ (x.item = Posted(r) /\ x.creative = c)
  BY <1>0, <1>1, SaveMoves
<1>6. rec'[c] = Posted(r) /\ \A d \in Creative \ {c} : rec'[d] = rec[d]
  BY <1>0, <1>2, <1>3 DEF StoreTyped
<1>7. doubt \subseteq doubt' /\ (rec[c].media # m => rec[c].media \in doubt')
  BY <1>1, <1>2 DEF Stale
<1>8. \A k \in Media : WorksOn(x, k) => WorksOn(run[r], k)
  BY <1>3, <1>4, <1>5, IdleAlone DEF WorksOn
<1>9. Alone(doubt)'
  <2>1. PICK T : T = doubt'
    OBVIOUS
  <2>2. doubt \subseteq T /\ Alone(doubt)
    BY <1>7, <2>1 DEF DoubtInv
  <2>3. \A k \in Media \ T : WorksOn(x, k) => WorksOn(run[r], k)
    BY <1>8
  <2>4. \A k \in Media \ T : \A q, s \in Runs : WorksOn(run'[q], k) /\ WorksOn(run'[s], k) => q = s
    BY <1>0, <1>5, <2>2, <2>3, AloneStep
  <2>. QED
    BY <2>1, <2>4 DEF Alone
<1>10. ASSUME NEW k \in Media \ doubt', NEW n \in Network, Tells(k, n) PROVE Tells(k, n)'
  <2>1. CASE claims[k] \in Creative /\ rec[claims[k]].media = k /\ n \in rec[claims[k]].ids
    <3>1. CASE claims[k] = c
      <4>1. k = m
        BY <1>7, <2>1, <3>1
      <4>2. rec[c].ids \subseteq run[r].item.ids
        BY <1>1, <1>2, <1>7, <2>1, <3>1, <4>1 DEF DoubtInv, Behind, Reserved
      <4>. QED
        BY <1>2, <1>4, <1>6, <2>1, <3>1, <4>1, <4>2 DEF Tells
    <3>2. CASE claims[k] # c
      BY <1>2, <1>6, <2>1, <3>2 DEF Tells
    <3>. QED
      BY <3>1, <3>2
  <2>2. ASSUME NEW q \in Runs, WorksOn(run[q], k), run[q].pc = "save", run[q].goal = n PROVE Tells(k, n)'
    <3>1. CASE q = r
      <4>1. k = m /\ claims[m] = c
        BY <1>1, <1>3, <2>2, <3>1 DEF ClaimInv, RunsHold, HoldsClaim, WorksOn
      <4>. QED
        BY <1>2, <1>3, <1>4, <1>6, <2>2, <3>1, <4>1 DEF Tells
    <3>2. CASE q # r
      BY <1>0, <1>5, <2>2, <3>2, OthersSame DEF Tells
    <3>. QED
      BY <3>1, <3>2
  <2>. QED
    BY <1>10, <2>1, <2>2 DEF Tells
<1>11. TellsAll'
  BY <1>2, <1>7, <1>10 DEF DoubtInv, TellsAll
<1>12. Behind(x, rec', doubt')
  BY <1>4, <1>5, <1>6, IdleBehind DEF Behind
<1>13. ASSUME NEW q \in Runs \ {r} PROVE Behind(run[q], rec', doubt')
  <2>. SUFFICES ASSUME run[q].pc \in Reserved, run[q].item.media \notin doubt',
                       rec'[run[q].creative].media = run[q].item.media
                PROVE  rec'[run[q].creative].ids \subseteq run[q].item.ids
    BY DEF Behind
  <2>1. run[q].creative \in Creative /\ run[q].item.media \in Media
    BY <1>0 DEF RunsTyped, RunFits, InHand, Record
  <2>2. run[q].item.media # m
    BY <1>3, <1>7 DEF DoubtInv, Alone, WorksOn
  <2>3. run[q].creative # c
    BY <1>4, <1>6, <2>2
  <2>. QED
    BY <1>6, <1>7, <2>1, <2>3 DEF DoubtInv, Behind
<1>14. \A q \in Runs : Behind(run'[q], rec', doubt')
  BY <1>0, <1>5, <1>12, <1>13, OthersSame
<1>. QED
  BY <1>9, <1>11, <1>14 DEF DoubtInv

LEMMA EditDoubt ==
  ASSUME Typed, WaitingUnposted, DoubtInv, NEW e \in Editors, EndEdit(e)
  PROVE  DoubtInv'
<1>0. RunsTyped /\ StoreTyped
  BY DEF Typed
<1>1. PICK c, seen : c = edit[e].creative /\ seen = edit[e].seen
  OBVIOUS
<1>2. /\ edit[e].pc = "write" /\ EditFits(e) /\ UNCHANGED <<run, claims, posts>>
      /\ rec' = [rec EXCEPT ![c] = Edited(e)]
      /\ doubt' = IF Stale(c, seen) THEN doubt \union {edit[e].media, rec[c].media} ELSE doubt
  BY <1>1 DEF EndEdit, Typed, EditsTyped
<1>3. c \in Creative /\ seen \in Record
  BY <1>1, <1>2 DEF EditFits
<1>4. rec'[c] = Edited(e) /\ \A d \in Creative \ {c} : rec'[d] = rec[d]
  BY <1>0, <1>2, <1>3 DEF StoreTyped
<1>5. doubt \subseteq doubt'
  BY <1>2
<1>6. \/ Edited(e).ids = {} /\ seen.ids = {}
      \/ Edited(e).ids = seen.ids /\ Edited(e).media = seen.media /\ edit[e].media = seen.media
  <2>1. CASE edit[e].via = "factory"
    BY <1>1, <1>2, <2>1 DEF Edited, Fresh, WaitingUnposted
  <2>2. CASE edit[e].via # "factory"
    BY <1>1, <1>2, <1>3, <2>2 DEF Edited, EditFits, Via, Record, WaitingUnposted
  <2>. QED
    BY <2>1, <2>2
<1>7. \/ rec[c].ids = seen.ids /\ rec[c].media = seen.media
      \/ edit[e].media \in doubt' /\ rec[c].media \in doubt'
  BY <1>2 DEF Stale
<1>8. ASSUME NEW k \in Media \ doubt', NEW n \in Network, Tells(k, n) PROVE Tells(k, n)'
  BY <1>2, <1>4, <1>6, <1>7, <1>8 DEF Tells
<1>9. TellsAll'
  BY <1>2, <1>5, <1>8 DEF DoubtInv, TellsAll
<1>10. ASSUME NEW q \in Runs PROVE Behind(run[q], rec', doubt')
  <2>. SUFFICES ASSUME run[q].pc \in Reserved, run[q].item.media \notin doubt',
                       rec'[run[q].creative].media = run[q].item.media
                PROVE  rec'[run[q].creative].ids \subseteq run[q].item.ids
    BY DEF Behind
  <2>1. run[q].creative \in Creative
    BY <1>0 DEF RunsTyped, RunFits, InHand
  <2>2. Behind(run[q], rec, doubt)
    BY DEF DoubtInv
  <2>3. CASE run[q].creative = c
    BY <1>4, <1>5, <1>6, <1>7, <2>2, <2>3 DEF Behind
  <2>4. CASE run[q].creative # c
    BY <1>4, <1>5, <2>1, <2>2, <2>4 DEF Behind
  <2>. QED
    BY <2>3, <2>4
<1>11. Alone(doubt)'
  BY <1>2, <1>5 DEF DoubtInv, Alone
<1>. QED
  BY <1>2, <1>9, <1>10, <1>11 DEF DoubtInv

LEMMA NextDoubt ==
  Typed /\ ClaimInv /\ GrantedInv /\ WaitingUnposted /\ DoubtInv /\ [Next]_vars => DoubtInv'
<1>. SUFFICES ASSUME Typed, ClaimInv, GrantedInv, WaitingUnposted, DoubtInv, Next PROVE DoubtInv'
  <2>1. UNCHANGED vars /\ DoubtInv => DoubtInv'
    BY DEF DoubtInv, Alone, TellsAll, Tells, vars
  <2>. QED
    BY <2>1
<1>0. RunsTyped /\ StoreTyped
  BY DEF Typed
<1>1. ASSUME NEW r \in Runs, Begin(r) \/ List(r) \/ Certify(r) \/ Verify(r) PROVE DoubtInv'
  <2>1. PICK x : Becomes(r, x) /\ x.pc \in {"list", "certify", "verify", "claim"}
    BY <1>0, <1>1, EarlyMoves
  <2>2. Behind(x, rec, doubt) /\ \A m : ~WorksOn(x, m)
    BY <2>1 DEF Behind, WorksOn, Reserved
  <2>3. run[r].pc # "save"
    BY <1>1 DEF Begin, List, Certify, Verify, At
  <2>. QED
    BY <1>0, <1>1, <2>1, <2>2, <2>3, DoubtRun DEF Begin, List, Certify, Verify
<1>2. ASSUME NEW r \in Runs,
             CheckCertificate(r) \/ CheckReceipt(r) \/ CheckSwitch(r) \/ CreateContainer(r)
      PROVE  DoubtInv'
  <2>1. PICK x : Becomes(r, x) /\ SameWork(x, run[r]) /\ run[r].pc \in Reserved \ {"save"}
    BY <1>0, <1>2, CheckMoves DEF Reserved
  <2>2. Behind(x, rec, doubt) /\ \A m : WorksOn(x, m) => WorksOn(run[r], m)
    BY <2>1 DEF DoubtInv, Behind, SameWork, WorksOn
  <2>. QED
    BY <1>0, <1>2, <2>1, <2>2, DoubtRun DEF CheckCertificate, CheckReceipt, CheckSwitch, CreateContainer
<1>3. ASSUME NEW r \in Runs, PostFail(r) PROVE DoubtInv'
  <2>1. run[r].pc # "save" /\ UNCHANGED <<rec, claims, posts, doubt>>
    BY <1>3 DEF PostFail, At
  <2>. QED
    BY <1>0, <1>3, <2>1, StopMoves, IdleAlone, IdleBehind, DoubtRun
<1>4. ASSUME NEW r \in Runs, Claim(r) \/ Post(r) \/ Save(r) \/ Cut(r) PROVE DoubtInv'
  BY <1>4, ClaimDoubt, PostDoubt, SaveDoubt, CutDoubt
<1>5. ASSUME NEW e \in Editors, EndEdit(e) PROVE DoubtInv'
  BY <1>5, EditDoubt
<1>6. ASSUME UNCHANGED <<rec, run, claims, posts, doubt>> PROVE DoubtInv'
  BY <1>6 DEF DoubtInv, Alone, TellsAll, Tells
<1>7. ASSUME NEW c \in Creative, Attach(c) PROVE DoubtInv'
  <2>1. \A d \in Creative : rec'[d].media = rec[d].media /\ rec'[d].ids = rec[d].ids
    BY <1>0, <1>7 DEF Attach, StoreTyped, Record
  <2>2. UNCHANGED <<run, claims, posts, doubt>>
    BY <1>7 DEF Attach
  <2>3. \A m, n : Tells(m, n) => Tells(m, n)'
    BY <2>1, <2>2 DEF Tells
  <2>4. \A q \in Runs : Behind(run[q], rec', doubt)
    BY <1>0, <2>1 DEF DoubtInv, Behind, RunsTyped, RunFits, InHand
  <2>. QED
    BY <2>2, <2>3, <2>4 DEF DoubtInv, Alone, TellsAll
<1>8. ASSUME (\E e \in Editors : CutEdit(e) \/ \E c \in Creative, via \in Via, m \in Media : BeginEdit(e, c, via, m))
             \/ ChangeCertificate \/ Recall \/ TurnSwitch
      PROVE  DoubtInv'
  BY <1>6, <1>8 DEF CutEdit, BeginEdit, ChangeCertificate, Recall, TurnSwitch, Change
<1>. QED
  BY <1>1, <1>2, <1>3, <1>4, <1>5, <1>7, <1>8 DEF Next, Publish, Edit, Environment

\* Each network gets a picture once at most, unless the service reserved the picture again
\* and its record did not tell of the first post.
THEOREM NetworkOnce == Spec => []EachNetworkOnce
<1>1. Typed /\ GrantedInv /\ DoubtInv => EachNetworkOnce
  <2>. SUFFICES ASSUME Typed, GrantedInv, DoubtInv, NEW m \in Media, NEW n \in Network, posts[m][n] > 1
                PROVE  m \in granted /\ m \in doubt
    BY DEF EachNetworkOnce
  <2>1. posts[m][n] \in Nat
    BY DEF Typed, StoreTyped
  <2>. QED
    BY <2>1 DEF GrantedInv, DoubtInv, TellsAll
<1>2. Typed /\ [Next]_vars => Typed'
  BY NextTyped
<1>3. Typed /\ ClaimInv /\ [Next]_vars => ClaimInv'
  BY NextClaim
<1>4. Typed /\ ClaimInv /\ GrantedInv /\ [Next]_vars => GrantedInv'
  BY NextGranted
<1>5. Typed /\ WaitingUnposted /\ [Next]_vars => WaitingUnposted'
  BY NextWaiting
<1>6. Typed /\ ClaimInv /\ GrantedInv /\ WaitingUnposted /\ DoubtInv /\ [Next]_vars => DoubtInv'
  BY NextDoubt
<1>. QED
  BY InitTyped, InitClaim, InitGranted, InitWaiting, InitDoubt, <1>1, <1>2, <1>3, <1>4, <1>5, <1>6, PTL DEF Spec

-----------------------------------------------------------------------------
Statuses == {"approval", "decided", "archived"}
Briefs == {"brief", "archived"}

\* The places in a list of statuses that wait; there is one at most.
Places(s) == {i \in DOMAIN s : s[i] = "approval"}
OneWaits(s) == \A i, k \in Places(s) : i = k

\* A job whose product nobody else worked on knows what waits, and that there is no brief.
Knows(x, pcs, brs, cr) ==
  /\ x = [at |-> x.at, kind |-> x.kind, product |-> x.product, ready |-> x.ready, others |-> x.others,
          todo |-> x.todo, seen |-> x.seen, date |-> x.date]
  /\ x.at = "brief" => x.date \in 1..MaxDay
  /\ x.product \in Slug \ cr =>
       /\ x.at \in {"make", "write"} => Places(pcs[x.product]) \subseteq {x.ready}
       /\ x.at = "brief" /\ x.ready = 0 => Len(brs[x.product][x.date]) = 0

Has(x, p) == x.at \in {"make", "write", "brief"} /\ x.product = p

Stocked ==
  /\ pieces \in [Slug -> Seq(Statuses)]
  /\ briefs \in [Slug -> [1..MaxDay -> Seq(Briefs)]]
  /\ day \in 1..MaxDay

Single ==
  \A p \in Slug \ crossed :
    /\ OneWaits(pieces[p])
    /\ \A d \in 1..MaxDay : Len(briefs[p][d]) <= 1

Jobs ==
  /\ job = [j \in Job |-> job[j]]
  /\ \A j \in Job : Knows(job[j], pieces, briefs, crossed)

\* A product outside crossed is in the hands of one job.
Apart == \A p \in Slug \ crossed : \A j, k \in Job : Has(job[j], p) /\ Has(job[k], p) => j = k

FactoryInv == Stocked /\ Single /\ Jobs /\ Apart

-----------------------------------------------------------------------------
\* A list written anew place by place has the length it had.
LEMMA Rewritten ==
  ASSUME NEW S, NEW T, NEW s \in Seq(S), NEW f, f = [i \in DOMAIN s |-> f[i]], \A i \in DOMAIN s : f[i] \in T
  PROVE  f \in Seq(T) /\ Len(f) = Len(s) /\ DOMAIN f = DOMAIN s
<1>1. Len(s) \in Nat /\ DOMAIN s = 1..Len(s)
  OBVIOUS
<1>2. f \in [1..Len(s) -> T]
  BY <1>1
<1> QED
  BY <1>1, <1>2

LEMMA WaitsFew == ASSUME NEW s, OneWaits(s) PROVE Cardinality(Places(s)) <= 1
<1>1. CASE Places(s) = {}
  BY <1>1, FS_EmptySet
<1>2. CASE Places(s) # {}
  <2>1. PICK i : Places(s) = {i}
    BY <1>2 DEF OneWaits
  <2> QED
    BY <2>1, FS_Singleton
<1> QED
  BY <1>1, <1>2

\* What waits is the first that waits, which is what a job keeps of its list.
LEMMA FirstWaits ==
  ASSUME NEW s \in Seq(Statuses), OneWaits(s)
  PROVE  Places(s) \subseteq {First(Places(s))}
<1> SUFFICES ASSUME NEW i \in Places(s) PROVE i = First(Places(s))
  OBVIOUS
<1>1. Places(s) = {i} /\ i \in Nat
  BY DEF OneWaits, Places
<1>2. PICK W : W = Places(s)
  OBVIOUS
<1>3. \E k \in W : \A l \in W : k <= l
  BY <1>1, <1>2
<1>4. First(W) \in W
  BY <1>2, <1>3 DEF First
<1> QED
  BY <1>1, <1>2, <1>4

LEMMA KnowsStays ==
  ASSUME NEW x, NEW pcs, NEW brs, NEW cr, NEW cr2, cr \subseteq cr2, Knows(x, pcs, brs, cr)
  PROVE  Knows(x, pcs, brs, cr2)
  BY DEF Knows

\* A job that comes to x, whatever it writes, where x is its own.
LEMMA JobTo ==
  ASSUME FactoryInv, NEW j \in Job, NEW x, job' = [job EXCEPT ![j] = x],
         Stocked', Single', crossed \subseteq crossed', Knows(x, pieces', briefs', crossed'),
         \A k \in Job \ {j} : Knows(job[k], pieces', briefs', crossed'),
         \A p \in Slug \ crossed' : Has(x, p) => \A k \in Job \ {j} : ~Has(job[k], p)
  PROVE  FactoryInv'
<1>1. job = [k \in Job |-> job[k]]
  BY DEF FactoryInv, Jobs
<1>2. job'[j] = x /\ \A k \in Job \ {j} : job'[k] = job[k]
  BY <1>1
<1>3. Jobs'
  <2>1. job' = [k \in Job |-> job'[k]]
    BY <1>1
  <2>2. \A k \in Job : Knows(job'[k], pieces', briefs', crossed')
    BY <1>2
  <2> QED
    BY <2>1, <2>2 DEF Jobs
<1>4. Apart'
  <2> SUFFICES ASSUME NEW p \in Slug \ crossed', NEW i \in Job, NEW k \in Job,
                      Has(job'[i], p), Has(job'[k], p)
               PROVE  i = k
    BY DEF Apart
  <2>1. p \in Slug \ crossed
    OBVIOUS
  <2>2. CASE i # j /\ k # j
    BY <1>2, <2>1, <2>2 DEF FactoryInv, Apart
  <2>3. CASE i = j
    BY <1>2, <2>3
  <2>4. CASE k = j
    BY <1>2, <2>4
  <2> QED
    BY <2>2, <2>3, <2>4
<1> QED
  BY <1>3, <1>4 DEF FactoryInv

\* Steps that write nothing.
LEMMA JobOnly ==
  ASSUME FactoryInv, NEW j \in Job, NEW x, job' = [job EXCEPT ![j] = x], UNCHANGED <<bucket, day>>,
         crossed \subseteq crossed', Knows(x, pieces, briefs, crossed'),
         \A p \in Slug \ crossed' : Has(x, p) => \A k \in Job \ {j} : ~Has(job[k], p)
  PROVE  FactoryInv'
<1>1. UNCHANGED <<pieces, briefs, day>>
  BY DEF bucket
<1>2. Stocked' /\ Single'
  BY <1>1 DEF FactoryInv, Stocked, Single
<1>3. \A k \in Job \ {j} : Knows(job[k], pieces', briefs', crossed')
  BY <1>1, KnowsStays DEF FactoryInv, Jobs
<1>4. Knows(x, pieces', briefs', crossed')
  BY <1>1
<1> QED
  BY <1>2, <1>3, <1>4, JobTo

\* Steps after which the job has nothing in hand.
LEMMA JobFree ==
  ASSUME FactoryInv, NEW j \in Job, NEW x, job' = [job EXCEPT ![j] = x], UNCHANGED <<bucket, day, crossed>>,
         x = [at |-> x.at, kind |-> x.kind, product |-> x.product, ready |-> x.ready, others |-> x.others,
              todo |-> x.todo, seen |-> x.seen, date |-> x.date],
         x.at \notin {"make", "write", "brief"}
  PROVE  FactoryInv'
<1>1. Knows(x, pieces, briefs, crossed)
  BY DEF Knows
<1>2. \A p : ~Has(x, p)
  BY DEF Has
<1> QED
  BY <1>1, <1>2, JobOnly

LEMMA IdleShape ==
  /\ Idle = [at |-> Idle.at, kind |-> Idle.kind, product |-> Idle.product, ready |-> Idle.ready,
             others |-> Idle.others, todo |-> Idle.todo, seen |-> Idle.seen, date |-> Idle.date]
  /\ Idle.at = "idle"
  BY DEF Idle

LEMMA JobShape ==
  ASSUME FactoryInv, NEW j \in Job
  PROVE  /\ Knows(job[j], pieces, briefs, crossed)
         /\ job[j] = [at |-> job[j].at, kind |-> job[j].kind, product |-> job[j].product,
                      ready |-> job[j].ready, others |-> job[j].others, todo |-> job[j].todo,
                      seen |-> job[j].seen, date |-> job[j].date]
  BY DEF FactoryInv, Jobs, Knows

LEMMA JobMoved ==
  ASSUME FactoryInv, NEW j \in Job, NEW at, NEW x, x = [job[j] EXCEPT !.at = at]
  PROVE  /\ x = [at |-> x.at, kind |-> x.kind, product |-> x.product, ready |-> x.ready, others |-> x.others,
                 todo |-> x.todo, seen |-> x.seen, date |-> x.date]
         /\ x.at = at /\ x.product = job[j].product /\ x.ready = job[j].ready /\ x.date = job[j].date
<1>1. PICK r : r = job[j]
  OBVIOUS
<1>2. r = [at |-> r.at, kind |-> r.kind, product |-> r.product, ready |-> r.ready, others |-> r.others,
           todo |-> r.todo, seen |-> r.seen, date |-> r.date]
  BY <1>1, JobShape
<1>3. x = [r EXCEPT !.at = at]
  BY <1>1
<1>4. x = [at |-> at, kind |-> r.kind, product |-> r.product, ready |-> r.ready, others |-> r.others,
           todo |-> r.todo, seen |-> r.seen, date |-> r.date]
  BY <1>2, <1>3
<1> QED
  BY <1>1, <1>4

\* A step that only moves the job on to a place where it holds nothing.
LEMMA GoesFree ==
  ASSUME FactoryInv, NEW j \in Job, NEW at, Goes(j, at), at \notin {"make", "write", "brief"},
         UNCHANGED <<bucket, day, crossed>>
  PROVE  FactoryInv'
<1>1. PICK x : x = [job[j] EXCEPT !.at = at]
  OBVIOUS
<1>2. job' = [job EXCEPT ![j] = x]
  BY <1>1 DEF Goes
<1>3. /\ x = [at |-> x.at, kind |-> x.kind, product |-> x.product, ready |-> x.ready, others |-> x.others,
              todo |-> x.todo, seen |-> x.seen, date |-> x.date]
      /\ x.at = at
  BY <1>1, JobMoved
<1> QED
  BY <1>2, <1>3, JobFree

LEMMA EndsFree ==
  ASSUME FactoryInv, NEW j \in Job, Ends(j), UNCHANGED <<bucket, day, crossed>>
  PROVE  FactoryInv'
<1>1. job' = [job EXCEPT ![j] = Idle]
  BY DEF Ends
<1> QED
  BY <1>1, IdleShape, JobFree

-----------------------------------------------------------------------------
LEMMA FactoryStarts == FactoryInit => FactoryInv
<1> SUFFICES ASSUME FactoryInit PROVE FactoryInv
  OBVIOUS
<1> USE DEF FactoryInit
<1>1. <<>> \in Seq(Statuses) /\ <<>> \in Seq(Briefs) /\ Len(<<>>) = 0
  OBVIOUS
<1>2. Stocked
  BY <1>1, FactoryAssumption DEF Stocked
<1>3. Single
  BY DEF Single, OneWaits, Places
<1>4. Jobs /\ Apart
  BY DEF Jobs, Apart, Knows, Has, Idle
<1> QED
  BY <1>2, <1>3, <1>4 DEF FactoryInv

LEMMA BeginsFree ==
  ASSUME FactoryInv, NEW j \in Job, NEW at, NEW kind, NEW p, Start(j, at, kind, p), at \in {"list", "first"}
  PROVE  FactoryInv'
<1>1. PICK x : x = [Idle EXCEPT !.at = at, !.kind = kind, !.product = p]
  OBVIOUS
<1>2. job' = [job EXCEPT ![j] = x] /\ UNCHANGED <<bucket, day, crossed>>
  BY <1>1 DEF Start
<1>3. x = [at |-> at, kind |-> kind, product |-> p, ready |-> 0, others |-> {}, todo |-> {}, seen |-> {}, date |-> 0]
  BY <1>1 DEF Idle
<1>4. x = [at |-> x.at, kind |-> x.kind, product |-> x.product, ready |-> x.ready, others |-> x.others,
           todo |-> x.todo, seen |-> x.seen, date |-> x.date]
  BY <1>3
<1>5. x.at \notin {"make", "write", "brief"}
  BY <1>3
<1> QED
  BY <1>2, <1>4, <1>5, JobFree

\* The product is crossed when another job has it in hand.
LEMMA CrossingApart ==
  ASSUME FactoryInv, NEW j \in Job, NEW p, Crossing(j, p)
  PROVE  /\ crossed \subseteq crossed'
         /\ p \notin crossed' => \A k \in Job \ {j} : ~Has(job[k], p)
  BY DEF Crossing, Holds, Has

LEMMA ListExistingKeeps == ASSUME NEW j \in Job PROVE FactoryInv /\ ListExisting(j) => FactoryInv'
<1> SUFFICES ASSUME FactoryInv, ListExisting(j) PROVE FactoryInv'
  OBVIOUS
<1>1. PICK p : p = Target(j)
  OBVIOUS
<1>2. UNCHANGED <<bucket, day>>
  BY DEF ListExisting
<1>3. CASE Skips(j, p) /\ Goes(j, "after") /\ UNCHANGED crossed
  BY <1>2, <1>3, GoesFree
<1>4. CASE /\ job' = [job EXCEPT ![j] = [@ EXCEPT !.product = p,
                         !.at = IF job[j].kind = "upload" THEN "write" ELSE "make",
                         !.ready = First(Waiting(p)), !.others = Waiting(p) \ {First(Waiting(p))}]]
           /\ Crossing(j, p)
  <2>1. PICK x : x = [job[j] EXCEPT !.product = p,
                        !.at = IF job[j].kind = "upload" THEN "write" ELSE "make",
                        !.ready = First(Waiting(p)), !.others = Waiting(p) \ {First(Waiting(p))}]
    OBVIOUS
  <2>2. job' = [job EXCEPT ![j] = x]
    BY <1>4, <2>1 DEF FactoryInv, Jobs
  <2>3. /\ x = [at |-> x.at, kind |-> x.kind, product |-> x.product, ready |-> x.ready, others |-> x.others,
                todo |-> x.todo, seen |-> x.seen, date |-> x.date]
        /\ x.product = p /\ x.at \in {"make", "write"} /\ x.ready = First(Waiting(p))
    <3>1. PICK r : r = job[j]
      OBVIOUS
    <3>2. PICK f, o : f = First(Waiting(p)) /\ o = Waiting(p) \ {First(Waiting(p))}
      OBVIOUS
    <3>3. PICK at \in {"make", "write"} : at = IF job[j].kind = "upload" THEN "write" ELSE "make"
      OBVIOUS
    <3>4. r = [at |-> r.at, kind |-> r.kind, product |-> r.product, ready |-> r.ready, others |-> r.others,
               todo |-> r.todo, seen |-> r.seen, date |-> r.date]
      BY <3>1, JobShape
    <3>5. x = [r EXCEPT !.product = p, !.at = at, !.ready = f, !.others = o]
      BY <2>1, <3>1, <3>2, <3>3
    <3>6. x = [at |-> at, kind |-> r.kind, product |-> p, ready |-> f, others |-> o,
               todo |-> r.todo, seen |-> r.seen, date |-> r.date]
      BY <3>4, <3>5
    <3> QED
      BY <3>2, <3>6
  <2>4. /\ crossed \subseteq crossed'
        /\ p \notin crossed' => \A k \in Job \ {j} : ~Has(job[k], p)
    BY <1>4, CrossingApart
  <2>5. ASSUME p \in Slug \ crossed' PROVE Places(pieces[p]) \subseteq {x.ready}
    <3>1. pieces[p] \in Seq(Statuses) /\ OneWaits(pieces[p])
      BY <2>4, <2>5 DEF FactoryInv, Stocked, Single
    <3>2. Waiting(p) = Places(pieces[p])
      BY DEF Waiting, Places
    <3> QED
      BY <2>3, <3>1, <3>2, FirstWaits
  <2>6. Knows(x, pieces, briefs, crossed')
    BY <2>3, <2>5 DEF Knows
  <2>7. \A q \in Slug \ crossed' : Has(x, q) => \A k \in Job \ {j} : ~Has(job[k], q)
    BY <2>3, <2>4 DEF Has
  <2> QED
    BY <1>2, <2>2, <2>4, <2>6, <2>7, JobOnly
<1> QED
  BY <1>1, <1>3, <1>4 DEF ListExisting

LEMMA MakeKeeps == ASSUME NEW j \in Job PROVE FactoryInv /\ Make(j) => FactoryInv'
<1> SUFFICES ASSUME FactoryInv, Make(j) PROVE FactoryInv'
  OBVIOUS
<1>1. UNCHANGED <<bucket, day, crossed>> /\ job[j].at = "make"
  BY DEF Make
<1>2. CASE Ends(j)
  BY <1>1, <1>2, EndsFree
<1>3. CASE Goes(j, "write")
  <2>1. PICK x : x = [job[j] EXCEPT !.at = "write"]
    OBVIOUS
  <2>2. job' = [job EXCEPT ![j] = x]
    BY <1>3, <2>1 DEF Goes
  <2>3. /\ x = [at |-> x.at, kind |-> x.kind, product |-> x.product, ready |-> x.ready, others |-> x.others,
                todo |-> x.todo, seen |-> x.seen, date |-> x.date]
        /\ x.at = "write" /\ x.product = job[j].product /\ x.ready = job[j].ready
    BY <2>1, JobMoved
  <2>4. Knows(x, pieces, briefs, crossed')
    BY <1>1, <2>3, JobShape DEF Knows
  <2>5. \A p \in Slug \ crossed' : Has(x, p) => \A k \in Job \ {j} : ~Has(job[k], p)
    BY <1>1, <2>3 DEF Has, FactoryInv, Apart
  <2> QED
    BY <1>1, <2>2, <2>4, <2>5, JobOnly
<1> QED
  BY <1>2, <1>3 DEF Make


-----------------------------------------------------------------------------
\* What a job writes to the product it has in hand is known to the others only
\* when they had it too.
LEMMA PiecesWritten ==
  ASSUME FactoryInv, NEW j \in Job, NEW p, p = job[j].product, job[j].at = "write", NEW q,
         p \in Slug => q \in Seq(Statuses), p \in Slug \ crossed => OneWaits(q),
         pieces' = [pieces EXCEPT ![p] = q], UNCHANGED <<briefs, day, crossed>>
  PROVE  /\ Stocked' /\ Single'
         /\ \A k \in Job \ {j} : Knows(job[k], pieces', briefs', crossed')
<1>0. pieces \in [Slug -> Seq(Statuses)]
  BY DEF FactoryInv, Stocked
<1>1. \A r \in Slug : pieces'[r] = IF r = p THEN q ELSE pieces[r]
  BY <1>0
<1>2. Stocked'
  <2>1. pieces' \in [Slug -> Seq(Statuses)]
    BY <1>0
  <2> QED
    BY <2>1 DEF FactoryInv, Stocked
<1>3. Single'
  BY <1>1 DEF FactoryInv, Single
<1>4. ASSUME NEW k \in Job \ {j} PROVE Knows(job[k], pieces', briefs', crossed')
  <2>1. Knows(job[k], pieces, briefs, crossed)
    BY JobShape
  <2>2. ASSUME job[k].product \in Slug \ crossed, job[k].at \in {"make", "write"}
        PROVE  Places(pieces'[job[k].product]) \subseteq {job[k].ready}
    <3>1. job[k].product # p
      BY <2>2 DEF FactoryInv, Apart, Has
    <3> QED
      BY <1>1, <2>1, <2>2, <3>1 DEF Knows
  <2> QED
    BY <2>1, <2>2 DEF Knows
<1> QED
  BY <1>2, <1>3, <1>4

LEMMA FreeTo ==
  ASSUME FactoryInv, NEW j \in Job, Ends(j) \/ Goes(j, "after") \/ Goes(j, "briefs"), Stocked', Single',
         crossed' = crossed, \A k \in Job \ {j} : Knows(job[k], pieces', briefs', crossed')
  PROVE  FactoryInv'
<1>1. PICK x : job' = [job EXCEPT ![j] = x] /\ \/ x = Idle
                                               \/ x = [job[j] EXCEPT !.at = "after"]
                                               \/ x = [job[j] EXCEPT !.at = "briefs"]
  BY DEF Ends, Goes
<1>2. /\ x = [at |-> x.at, kind |-> x.kind, product |-> x.product, ready |-> x.ready, others |-> x.others,
              todo |-> x.todo, seen |-> x.seen, date |-> x.date]
      /\ x.at \in {"idle", "after", "briefs"}
  <2>1. CASE x = Idle
    BY <2>1, IdleShape
  <2>2. CASE x = [job[j] EXCEPT !.at = "after"]
    BY <2>2, JobMoved
  <2>3. CASE x = [job[j] EXCEPT !.at = "briefs"]
    BY <2>3, JobMoved
  <2> QED
    BY <1>1, <2>1, <2>2, <2>3
<1>3. Knows(x, pieces', briefs', crossed') /\ \A p : ~Has(x, p)
  BY <1>2 DEF Knows, Has
<1> QED
  BY <1>1, <1>3, JobTo

LEMMA WriteKeeps == ASSUME NEW j \in Job PROVE FactoryInv /\ Write(j) => FactoryInv'
<1> SUFFICES ASSUME FactoryInv, Write(j) PROVE FactoryInv'
  OBVIOUS
<1>1. PICK p, stored :
        /\ p = job[j].product
        /\ stored = IF job[j].ready # 0
                    THEN [pieces EXCEPT ![p] = [i \in DOMAIN @ |->
                            IF i = job[j].ready THEN "approval"
                            ELSE IF job[j].kind = "upload" /\ i \in job[j].others THEN "archived"
                            ELSE @[i]]]
                    ELSE [pieces EXCEPT ![p] = Append(@, "approval")]
  OBVIOUS
<1>2. /\ job[j].at = "write" /\ pieces' \in {stored, pieces} /\ UNCHANGED <<briefs, day, crossed>>
      /\ Ends(j) \/ Goes(j, "after")
  BY <1>1 DEF Write, WriteWith
<1>3. CASE pieces' = pieces
  <2>1. UNCHANGED <<bucket, day, crossed>>
    BY <1>2, <1>3 DEF bucket
  <2> QED
    BY <1>2, <2>1, EndsFree, GoesFree
<1>4. CASE pieces' = stored
  <2>0. pieces \in [Slug -> Seq(Statuses)]
    BY DEF FactoryInv, Stocked
  <2>1. p \in Slug \ crossed => Places(pieces[p]) \subseteq {job[j].ready}
    BY <1>1, <1>2, JobShape DEF Knows
  <2>2. CASE job[j].ready # 0
    <3>1. PICK q : q = [i \in DOMAIN pieces[p] |->
                            IF i = job[j].ready THEN "approval"
                            ELSE IF job[j].kind = "upload" /\ i \in job[j].others THEN "archived"
                            ELSE pieces[p][i]]
      OBVIOUS
    <3>2. pieces' = [pieces EXCEPT ![p] = q]
      BY <1>1, <1>4, <2>2, <3>1
    <3>3. ASSUME p \in Slug PROVE q \in Seq(Statuses)
      <4>1. PICK s \in Seq(Statuses) : s = pieces[p]
        BY <2>0, <3>3
      <4>2. \A i \in DOMAIN s : s[i] \in Statuses
        OBVIOUS
      <4>3. \A i \in DOMAIN s : q[i] \in Statuses
        BY <3>1, <4>1, <4>2 DEF Statuses
      <4>4. q = [i \in DOMAIN s |-> q[i]]
        BY <3>1, <4>1
      <4> QED
        BY <4>3, <4>4, Rewritten
    <3>4. ASSUME p \in Slug \ crossed PROVE OneWaits(q)
      BY <2>1, <3>1, <3>4 DEF OneWaits, Places
    <3>5. /\ Stocked' /\ Single'
          /\ \A k \in Job \ {j} : Knows(job[k], pieces', briefs', crossed')
      BY <1>1, <1>2, <3>2, <3>3, <3>4, PiecesWritten
    <3> QED
      BY <1>2, <3>5, FreeTo
  <2>3. CASE job[j].ready = 0
    <3>1. PICK q : q = Append(pieces[p], "approval")
      OBVIOUS
    <3>2. pieces' = [pieces EXCEPT ![p] = q]
      BY <1>1, <1>4, <2>3, <3>1
    <3>3. ASSUME p \in Slug PROVE q \in Seq(Statuses)
      BY <2>0, <3>1, <3>3 DEF Statuses
    <3>4. ASSUME p \in Slug \ crossed PROVE OneWaits(q)
      <4>1. PICK s \in Seq(Statuses) : s = pieces[p]
        BY <2>0, <3>4
      <4>2. /\ Len(s) \in Nat /\ DOMAIN s = 1..Len(s) /\ DOMAIN q = 1..(Len(s) + 1)
            /\ \A i \in 1..Len(s) : q[i] = s[i]
        BY <3>1, <4>1 DEF Statuses
      <4>3. \A i \in 1..Len(s) : s[i] # "approval"
        BY <2>1, <2>3, <3>4, <4>1, <4>2 DEF Places
      <4>4. \A i \in DOMAIN q : q[i] = "approval" => i = Len(s) + 1
        BY <4>2, <4>3
      <4> QED
        BY <4>4 DEF OneWaits, Places
    <3>5. /\ Stocked' /\ Single'
          /\ \A k \in Job \ {j} : Knows(job[k], pieces', briefs', crossed')
      BY <1>1, <1>2, <3>2, <3>3, <3>4, PiecesWritten
    <3> QED
      BY <1>2, <3>5, FreeTo
  <2> QED
    BY <2>2, <2>3
<1> QED
  BY <1>2, <1>3, <1>4

LEMMA ListAfterKeeps == ASSUME NEW j \in Job PROVE FactoryInv /\ ListAfter(j) => FactoryInv'
<1> SUFFICES ASSUME FactoryInv, ListAfter(j) PROVE FactoryInv'
  OBVIOUS
<1>1. UNCHANGED <<bucket, day, crossed>>
  BY DEF ListAfter
<1>2. PICK old : job' = [job EXCEPT ![j].at = "archive", ![j].others = old] \/ Ends(j)
  BY DEF ListAfter
<1>3. CASE Ends(j)
  BY <1>1, <1>3, EndsFree
<1>4. CASE job' = [job EXCEPT ![j].at = "archive", ![j].others = old]
  <2>1. PICK r, x : r = job[j] /\ x = [[r EXCEPT !.at = "archive"] EXCEPT !.others = old]
    OBVIOUS
  <2>2. r = [at |-> r.at, kind |-> r.kind, product |-> r.product, ready |-> r.ready, others |-> r.others,
             todo |-> r.todo, seen |-> r.seen, date |-> r.date]
    BY <2>1, JobShape
  <2>3. x = [at |-> "archive", kind |-> r.kind, product |-> r.product, ready |-> r.ready, others |-> old,
             todo |-> r.todo, seen |-> r.seen, date |-> r.date]
    BY <2>1, <2>2
  <2>4. job' = [job EXCEPT ![j] = x]
    <3>1. job = [k \in Job |-> job[k]]
      BY DEF FactoryInv, Jobs
    <3> QED
      BY <1>4, <2>1, <3>1
  <2>5. /\ x = [at |-> x.at, kind |-> x.kind, product |-> x.product, ready |-> x.ready, others |-> x.others,
                todo |-> x.todo, seen |-> x.seen, date |-> x.date]
        /\ x.at = "archive"
    BY <2>3
  <2> QED
    BY <1>1, <2>4, <2>5, JobFree
<1> QED
  BY <1>2, <1>3, <1>4

\* Briefs that are written anew, none more than there were.
LEMMA BriefsRewritten ==
  ASSUME FactoryInv, briefs' \in [Slug -> [1..MaxDay -> Seq(Briefs)]], UNCHANGED <<pieces, day, crossed>>,
         \A p \in Slug : \A d \in 1..MaxDay : Len(briefs'[p][d]) = Len(briefs[p][d])
  PROVE  /\ Stocked' /\ Single'
         /\ \A k \in Job : Knows(job[k], pieces', briefs', crossed')
<1>1. Stocked' /\ Single'
  BY DEF FactoryInv, Stocked, Single
<1>2. ASSUME NEW k \in Job PROVE Knows(job[k], pieces', briefs', crossed')
  BY JobShape DEF Knows
<1> QED
  BY <1>1, <1>2

LEMMA ArchiveBriefsKeeps == ASSUME NEW j \in Job PROVE FactoryInv /\ ArchiveBriefs(j) => FactoryInv'
<1> SUFFICES ASSUME FactoryInv, ArchiveBriefs(j) PROVE FactoryInv'
  OBVIOUS
<1>1. PICK stored : stored = [p \in Slug |-> [d \in 1..MaxDay |->
                      [i \in DOMAIN briefs[p][d] |->
                         IF <<p, d, i>> \in job[j].others THEN "archived" ELSE briefs[p][d][i]]]]
  OBVIOUS
<1>2. briefs' \in {stored, briefs} /\ Ends(j) /\ UNCHANGED <<pieces, day, crossed>>
  BY <1>1 DEF ArchiveBriefs
<1>3. CASE briefs' = briefs
  <2>1. UNCHANGED <<bucket, day, crossed>>
    BY <1>2, <1>3 DEF bucket
  <2> QED
    BY <1>2, <2>1, EndsFree
<1>4. CASE briefs' = stored
  <2>1. ASSUME NEW p \in Slug, NEW d \in 1..MaxDay
        PROVE  stored[p][d] \in Seq(Briefs) /\ Len(stored[p][d]) = Len(briefs[p][d])
    <3>1. PICK s, f : s \in Seq(Briefs) /\ s = briefs[p][d] /\ f = stored[p][d]
      BY DEF FactoryInv, Stocked
    <3>2. f = [i \in DOMAIN s |-> IF <<p, d, i>> \in job[j].others THEN "archived" ELSE s[i]]
      BY <1>1, <3>1
    <3>3. \A i \in DOMAIN s : s[i] \in Briefs
      BY <3>1
    <3>4. \A i \in DOMAIN s : f[i] \in Briefs
      BY <3>2, <3>3 DEF Briefs
    <3>5. f = [i \in DOMAIN s |-> f[i]]
      BY <3>2
    <3>6. f \in Seq(Briefs) /\ Len(f) = Len(s)
      BY <3>4, <3>5, Rewritten
    <3> QED
      BY <3>1, <3>6
  <2>2. briefs' \in [Slug -> [1..MaxDay -> Seq(Briefs)]]
    BY <1>1, <1>4, <2>1
  <2>3. \A p \in Slug : \A d \in 1..MaxDay : Len(briefs'[p][d]) = Len(briefs[p][d])
    BY <1>4, <2>1
  <2>4. /\ Stocked' /\ Single'
        /\ \A k \in Job : Knows(job[k], pieces', briefs', crossed')
    BY <1>2, <2>2, <2>3, BriefsRewritten
  <2> QED
    BY <1>2, <2>4, FreeTo
<1> QED
  BY <1>2, <1>3, <1>4

LEMMA ListBriefsKeeps == ASSUME NEW j \in Job PROVE FactoryInv /\ ListBriefs(j) => FactoryInv'
<1> SUFFICES ASSUME FactoryInv, ListBriefs(j) PROVE FactoryInv'
  OBVIOUS
<1>1. PICK s : job' = [job EXCEPT ![j].at = "briefs", ![j].todo = Slug, ![j].seen = s]
  BY DEF ListBriefs
<1>2. UNCHANGED <<bucket, day, crossed>>
  BY DEF ListBriefs
<1>3. PICK r, x : r = job[j] /\ x = [[[r EXCEPT !.at = "briefs"] EXCEPT !.todo = Slug] EXCEPT !.seen = s]
  OBVIOUS
<1>4. r = [at |-> r.at, kind |-> r.kind, product |-> r.product, ready |-> r.ready, others |-> r.others,
           todo |-> r.todo, seen |-> r.seen, date |-> r.date]
  BY <1>3, JobShape
<1>5. x = [at |-> "briefs", kind |-> r.kind, product |-> r.product, ready |-> r.ready, others |-> r.others,
           todo |-> Slug, seen |-> s, date |-> r.date]
  BY <1>3, <1>4
<1>6. job' = [job EXCEPT ![j] = x]
  <2>1. job = [k \in Job |-> job[k]]
    BY DEF FactoryInv, Jobs
  <2> QED
    BY <1>1, <1>3, <2>1
<1>7. /\ x = [at |-> x.at, kind |-> x.kind, product |-> x.product, ready |-> x.ready, others |-> x.others,
              todo |-> x.todo, seen |-> x.seen, date |-> x.date]
      /\ x.at = "briefs"
  BY <1>5
<1> QED
  BY <1>2, <1>6, <1>7, JobFree

LEMMA FindBriefKeeps ==
  ASSUME NEW j \in Job, NEW p \in Slug PROVE FactoryInv /\ FindBrief(j, p) => FactoryInv'
<1> SUFFICES ASSUME FactoryInv, FindBrief(j, p) PROVE FactoryInv'
  OBVIOUS
<1>1. UNCHANGED <<bucket, day>> /\ Crossing(j, p)
  BY DEF FindBrief
<1>2. PICK found : found = IF briefs[p][day] = <<>> THEN 0 ELSE 1
  OBVIOUS
<1>3. PICK r, x, rest : /\ r = job[j] /\ rest = r.todo \ {p}
                        /\ x = [r EXCEPT !.at = "brief", !.product = p, !.todo = rest, !.ready = found, !.date = day]
  OBVIOUS
<1>4. r = [at |-> r.at, kind |-> r.kind, product |-> r.product, ready |-> r.ready, others |-> r.others,
           todo |-> r.todo, seen |-> r.seen, date |-> r.date]
  BY <1>3, JobShape
<1>5. x = [at |-> "brief", kind |-> r.kind, product |-> p, ready |-> found, others |-> r.others,
           todo |-> rest, seen |-> r.seen, date |-> day]
  BY <1>3, <1>4
<1>6. job' = [job EXCEPT ![j] = x]
  BY <1>2, <1>3 DEF FindBrief
<1>7. /\ x = [at |-> x.at, kind |-> x.kind, product |-> x.product, ready |-> x.ready, others |-> x.others,
              todo |-> x.todo, seen |-> x.seen, date |-> x.date]
      /\ x.at = "brief" /\ x.product = p /\ x.ready = found /\ x.date = day
  BY <1>5
<1>8. found = 0 => Len(briefs[p][day]) = 0
  <2>1. briefs[p][day] \in Seq(Briefs)
    BY DEF FactoryInv, Stocked
  <2> QED
    BY <1>2, <2>1
<1>9. day \in 1..MaxDay
  BY DEF FactoryInv, Stocked
<1>10. Knows(x, pieces, briefs, crossed')
  BY <1>7, <1>8, <1>9 DEF Knows
<1>11. /\ crossed \subseteq crossed'
       /\ p \notin crossed' => \A k \in Job \ {j} : ~Has(job[k], p)
  BY <1>1, CrossingApart
<1>12. \A q \in Slug \ crossed' : Has(x, q) => \A k \in Job \ {j} : ~Has(job[k], q)
  BY <1>7, <1>11 DEF Has
<1> QED
  BY <1>1, <1>6, <1>10, <1>11, <1>12, JobOnly

LEMMA WriteBriefKeeps == ASSUME NEW j \in Job PROVE FactoryInv /\ WriteBrief(j) => FactoryInv'
<1> SUFFICES ASSUME FactoryInv, WriteBrief(j) PROVE FactoryInv'
  OBVIOUS
<1>1. PICK p, d : p = job[j].product /\ d = job[j].date
  OBVIOUS
<1>2. PICK q : q = IF job[j].ready = 0 THEN Append(briefs[p][d], "brief") ELSE [briefs[p][d] EXCEPT ![1] = "brief"]
  OBVIOUS
<1>3. PICK stored : stored = [briefs EXCEPT ![p][d] = q]
  OBVIOUS
<1>4. /\ job[j].at = "brief" /\ briefs' \in {stored, briefs} /\ UNCHANGED <<pieces, day, crossed>>
      /\ Ends(j) \/ Goes(j, "briefs")
  BY <1>1, <1>2, <1>3 DEF WriteBrief
<1>5. CASE briefs' = briefs
  <2>1. UNCHANGED <<bucket, day, crossed>>
    BY <1>4, <1>5 DEF bucket
  <2> QED
    BY <1>4, <2>1, EndsFree, GoesFree
<1>6. CASE briefs' = stored
  <2>1. d \in 1..MaxDay /\ briefs \in [Slug -> [1..MaxDay -> Seq(Briefs)]]
    BY <1>1, <1>4, JobShape DEF Knows, FactoryInv, Stocked
  <2>2. ASSUME p \in Slug PROVE q \in Seq(Briefs)
    <3>1. PICK s \in Seq(Briefs) : s = briefs[p][d]
      BY <2>1, <2>2
    <3>2. q = Append(s, "brief") \/ q = [s EXCEPT ![1] = "brief"]
      BY <1>2, <3>1
    <3> QED
      BY <3>2 DEF Briefs
  <2>3. ASSUME p \in Slug \ crossed PROVE Len(q) <= 1
    <3>1. PICK s \in Seq(Briefs) : s = briefs[p][d]
      BY <2>1, <2>3
    <3>2. Len(s) <= 1
      BY <2>1, <2>3, <3>1 DEF FactoryInv, Single
    <3>3. CASE job[j].ready = 0
      <4>1. Len(s) = 0
        BY <1>1, <1>4, <2>3, <3>1, <3>3, JobShape DEF Knows
      <4> QED
        BY <1>2, <3>1, <3>3, <4>1
    <3>4. CASE job[j].ready # 0
      BY <1>2, <3>1, <3>2, <3>4
    <3> QED
      BY <3>3, <3>4
  <2>4. briefs' \in [Slug -> [1..MaxDay -> Seq(Briefs)]]
    BY <1>3, <1>6, <2>1, <2>2
  <2>5. \A r \in Slug : \A e \in 1..MaxDay : r # p => briefs'[r][e] = briefs[r][e]
    BY <1>3, <1>6, <2>1
  <2>6. p \in Slug => \A e \in 1..MaxDay : briefs'[p][e] = IF e = d THEN q ELSE briefs[p][e]
    BY <1>3, <1>6, <2>1
  <2>7. Stocked'
    BY <1>4, <2>4 DEF FactoryInv, Stocked
  <2>8. Single'
    <3> SUFFICES ASSUME NEW r \in Slug \ crossed PROVE \A e \in 1..MaxDay : Len(briefs'[r][e]) <= 1
      BY <1>4 DEF FactoryInv, Single
    <3> QED
      BY <2>3, <2>5, <2>6 DEF FactoryInv, Single
  <2>9. ASSUME NEW k \in Job \ {j} PROVE Knows(job[k], pieces', briefs', crossed')
    <3>1. Knows(job[k], pieces, briefs, crossed)
      BY JobShape
    <3>2. ASSUME job[k].product \in Slug \ crossed, job[k].at = "brief", job[k].ready = 0
          PROVE  Len(briefs'[job[k].product][job[k].date]) = 0
      <4>1. job[k].product # p
        BY <1>1, <1>4, <3>2 DEF FactoryInv, Apart, Has
      <4> QED
        BY <2>5, <3>1, <3>2, <4>1 DEF Knows
    <3> QED
      BY <1>4, <3>1, <3>2 DEF Knows
  <2> QED
    BY <1>4, <2>7, <2>8, <2>9, FreeTo
<1> QED
  BY <1>4, <1>5, <1>6

LEMMA TickEndsKeeps == ASSUME NEW j \in Job PROVE FactoryInv /\ TickEnds(j) => FactoryInv'
<1> SUFFICES ASSUME FactoryInv, TickEnds(j) PROVE FactoryInv'
  OBVIOUS
<1>1. PICK x : x = [Idle EXCEPT !.at = "list", !.kind = "tick"]
  OBVIOUS
<1>2. job' = [job EXCEPT ![j] = x] /\ UNCHANGED <<bucket, day, crossed>>
  BY <1>1 DEF TickEnds
<1>3. x = [at |-> "list", kind |-> "tick", product |-> "none", ready |-> 0, others |-> {}, todo |-> {}, seen |-> {},
           date |-> 0]
  BY <1>1 DEF Idle
<1>4. /\ x = [at |-> x.at, kind |-> x.kind, product |-> x.product, ready |-> x.ready, others |-> x.others,
              todo |-> x.todo, seen |-> x.seen, date |-> x.date]
      /\ x.at \notin {"make", "write", "brief"}
  BY <1>3
<1> QED
  BY <1>2, <1>4, JobFree

\* What a restart leaves of a job is the job itself, a lost call of it, or nothing.
LEMMA RestartKeeps == FactoryInv /\ Restart => FactoryInv'
<1> SUFFICES ASSUME FactoryInv, Restart PROVE FactoryInv'
  OBVIOUS
<1>1. UNCHANGED <<pieces, briefs, day, crossed>>
  BY DEF Restart, bucket
<1>2. /\ job' = [j \in Job |-> job'[j]]
      /\ \A j \in Job : \/ job'[j] = job[j]
                        \/ job'[j] = Idle
                        \/ job'[j] = [job[j] EXCEPT !.kind = "lost"]
  BY DEF Restart
<1>3. ASSUME NEW j \in Job
      PROVE  /\ Knows(job'[j], pieces, briefs, crossed)
             /\ \A p : Has(job'[j], p) => Has(job[j], p)
  <2>1. CASE job'[j] = job[j]
    BY <2>1, JobShape
  <2>2. CASE job'[j] = Idle
    BY <2>2 DEF Idle, Knows, Has
  <2>3. CASE job'[j] = [job[j] EXCEPT !.kind = "lost"]
    <3>1. PICK r, x : r = job[j] /\ x = [r EXCEPT !.kind = "lost"]
      OBVIOUS
    <3>2. r = [at |-> r.at, kind |-> r.kind, product |-> r.product, ready |-> r.ready, others |-> r.others,
               todo |-> r.todo, seen |-> r.seen, date |-> r.date]
      BY <3>1, JobShape
    <3>3. x = [at |-> r.at, kind |-> "lost", product |-> r.product, ready |-> r.ready, others |-> r.others,
               todo |-> r.todo, seen |-> r.seen, date |-> r.date]
      BY <3>1, <3>2
    <3>4. /\ x = [at |-> x.at, kind |-> x.kind, product |-> x.product, ready |-> x.ready, others |-> x.others,
                  todo |-> x.todo, seen |-> x.seen, date |-> x.date]
          /\ x.at = r.at /\ x.product = r.product /\ x.ready = r.ready /\ x.date = r.date
      BY <3>3
    <3>5. Knows(r, pieces, briefs, crossed)
      BY <3>1, JobShape
    <3>6. Knows(x, pieces, briefs, crossed)
      BY <3>4, <3>5 DEF Knows
    <3>7. \A p : Has(x, p) => Has(r, p)
      BY <3>4 DEF Has
    <3> QED
      BY <2>3, <3>1, <3>6, <3>7
  <2> QED
    BY <1>2, <2>1, <2>2, <2>3
<1>4. Stocked' /\ Single'
  BY <1>1 DEF FactoryInv, Stocked, Single
<1>5. Jobs'
  BY <1>1, <1>2, <1>3 DEF Jobs
<1>6. Apart'
  BY <1>1, <1>3 DEF FactoryInv, Apart
<1> QED
  BY <1>4, <1>5, <1>6 DEF FactoryInv

LEMMA DecideKeeps ==
  ASSUME NEW p \in Slug, NEW i PROVE FactoryInv /\ Decide(p, i) => FactoryInv'
<1> SUFFICES ASSUME FactoryInv, Decide(p, i) PROVE FactoryInv'
  OBVIOUS
<1>1. /\ pieces' = [pieces EXCEPT ![p][i] = "decided"] /\ i \in DOMAIN pieces[p]
      /\ UNCHANGED <<briefs, job, day, crossed>>
  BY DEF Decide, Waiting
<1>2. pieces \in [Slug -> Seq(Statuses)]
  BY DEF FactoryInv, Stocked
<1>3. PICK s, t : s \in Seq(Statuses) /\ s = pieces[p] /\ t = [s EXCEPT ![i] = "decided"]
  BY <1>2
<1>4. t \in Seq(Statuses)
  <2>1. \A k \in DOMAIN s : t[k] \in Statuses
    <3>1. \A k \in DOMAIN s : s[k] \in Statuses
      BY <1>3
    <3> QED
      BY <1>3, <3>1 DEF Statuses
  <2>2. t = [k \in DOMAIN s |-> t[k]]
    BY <1>3
  <2> QED
    BY <2>1, <2>2, Rewritten
<1>5. Places(t) \subseteq Places(s)
  BY <1>3 DEF Places
<1>6. pieces' = [pieces EXCEPT ![p] = t]
  BY <1>1, <1>2, <1>3
<1>7. pieces' \in [Slug -> Seq(Statuses)]
  BY <1>2, <1>4, <1>6
<1>8. \A q \in Slug : Places(pieces'[q]) \subseteq Places(pieces[q])
  BY <1>2, <1>3, <1>5, <1>6
<1>9. Stocked'
  BY <1>1, <1>7 DEF FactoryInv, Stocked
<1>10. Single'
  BY <1>1, <1>8 DEF FactoryInv, Single, OneWaits
<1>11. ASSUME NEW j \in Job PROVE Knows(job[j], pieces', briefs', crossed')
  <2>1. Knows(job[j], pieces, briefs, crossed)
    BY JobShape
  <2>2. ASSUME job[j].product \in Slug \ crossed, job[j].at \in {"make", "write"}
        PROVE  Places(pieces'[job[j].product]) \subseteq {job[j].ready}
    BY <1>8, <2>1, <2>2 DEF Knows
  <2> QED
    BY <1>1, <2>1, <2>2 DEF Knows
<1>12. Jobs' /\ Apart'
  BY <1>1, <1>11 DEF FactoryInv, Jobs, Apart
<1> QED
  BY <1>9, <1>10, <1>12 DEF FactoryInv

LEMMA FactoryStep == FactoryInv /\ [FactoryNext]_factoryVars => FactoryInv'
<1> SUFFICES ASSUME FactoryInv, [FactoryNext]_factoryVars PROVE FactoryInv'
  OBVIOUS
<1>1. CASE UNCHANGED factoryVars
  BY <1>1 DEF factoryVars, bucket, FactoryInv, Stocked, Single, Jobs, Apart
<1>2. ASSUME NEW j \in Job, JobStep(j) PROVE FactoryInv'
  BY <1>2, ListExistingKeeps, MakeKeeps, WriteKeeps, ListAfterKeeps, ArchiveBriefsKeeps, ListBriefsKeeps,
     FindBriefKeeps, WriteBriefKeeps, TickEndsKeeps DEF JobStep
<1>3. ASSUME NEW j \in Job, Tick(j) \/ Ask(j) PROVE FactoryInv'
  <2>1. PICK at, kind, p : at \in {"list", "first"} /\ Start(j, at, kind, p)
    BY <1>3 DEF Tick, Ask
  <2> QED
    BY <2>1, BeginsFree
<1>4. CASE Restart
  BY <1>4, RestartKeeps
<1>5. CASE Midnight
  <2>1. day' \in 1..MaxDay
    BY <1>5, FactoryAssumption DEF Midnight, FactoryInv, Stocked
  <2> QED
    BY <1>5, <2>1 DEF Midnight, bucket, FactoryInv, Stocked, Single, Jobs, Apart
<1>6. ASSUME NEW p \in Slug, NEW i, Decide(p, i) PROVE FactoryInv'
  BY <1>6, DecideKeeps
<1>7. CASE FactoryNext
  BY <1>2, <1>3, <1>4, <1>5, <1>6, <1>7 DEF FactoryNext
<1> QED
  BY <1>1, <1>7

(***************************************************************************)
(* A product has one creative awaiting approval at most, and one brief of  *)
(* a day, unless two jobs held it between their list and their write       *)
(* (runT2CreativeFactory, the upload and generateDailyBriefs), for any     *)
(* products, jobs and number of failures and restarts.                     *)
(***************************************************************************)
THEOREM FactoryMadeOnce == FactorySpec => []MadeOnce
<1>1. FactoryInit => FactoryInv
  BY FactoryStarts
<1>2. FactoryInv /\ [FactoryNext]_factoryVars => FactoryInv'
  BY FactoryStep
<1>3. FactoryInv => MadeOnce
  <2> SUFFICES ASSUME FactoryInv, NEW p \in Slug \ crossed
               PROVE  /\ Cardinality(Waiting(p)) <= 1
                      /\ \A d \in 1..MaxDay : Len(briefs[p][d]) <= 1
    BY DEF MadeOnce
  <2>1. Waiting(p) = Places(pieces[p])
    BY DEF Waiting, Places
  <2> QED
    BY <2>1, WaitsFew DEF FactoryInv, Single
<1> QED
  BY <1>1, <1>2, <1>3, PTL DEF FactorySpec
=============================================================================
