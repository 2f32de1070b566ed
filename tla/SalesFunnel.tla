---------------------------- MODULE SalesFunnel ----------------------------
(***************************************************************************)
(* The sales funnel of one lead (backend/commercial.ts).  Handlers of the  *)
(* panel and of the sales adapter read the lead, compute a new one and     *)
(* write it back whole, then look up by source key the finance and event   *)
(* records they leave and add or update them.  A handler runs from one     *)
(* await to the next; others run in between, and it may be cut off there.  *)
(* The owner may edit the lead: its status, and its evidence, which is     *)
(* free text; and enter event and finance records of the lead by hand.     *)
(* The records a handler leaves are not edited.                            *)
(***************************************************************************)
EXTENDS Naturals, Sequences, FiniteSets

CONSTANTS Handlers,     \* handlers that run at the same time
          Calls,        \* the calls clients make, again and again
          ExternalIds,  \* ids sent as externalId; other ids are an occurredAt
          Typed,        \* the evidence lists the owner types in, by name
          Keep,         \* evidence entries a lead keeps (20)
          MaxCalls,     \* bound: calls begun
          Faulty        \* whether handlers are cut off

Cycle == {"checkout-completed", "payment-confirmed", "customer-created",
          "fulfillment-started", "follow-up-not-required"}
Action == {"contact", "offer", "follow-up", "checkout"}
Status == {"new", "qualified", "nurture", "contacted", "conversation", "offer",
           "follow-up", "checkout", "payment", "customer", "fulfillment",
           "archived"}
Op == {"lifecycle", "inbound", "qualify", "execute", "promote", "archive",
       "update"}

\* Entries of an evidence list; the ones nothing looks for are Plain.
LeadId       == <<"lead-id", "">>
Plain        == <<"plain", "">>
Discovered   == <<"discovered", "">>     \* discovery-id:, discovered-at:
Conversation == <<"conversation", "">>   \* conversation-observed:true
Qualified    == <<"qualification", "">>  \* qualification-score:, -signal:
Executed     == <<"executed", "">>       \* external-id:
Did(action)  == <<"action", action>>     \* sales-action:
Marker(e)    == <<"marker", e>>          \* <event>:true
ExtId(id)    == <<"external", id>>       \* lifecycle-external-id:
Entry == {LeadId, Plain, Discovered, Conversation, Qualified, Executed}
           \union {Did(a) : a \in Action} \union {Marker(e) : e \in Cycle}
           \union {ExtId(id) : id \in ExternalIds}

ASSUME FunnelAssumption ==
  /\ Keep \in Nat /\ Keep >= 5
  /\ MaxCalls \in Nat
  /\ Faulty \in BOOLEAN
  /\ IsFiniteSet(Handlers)
  /\ \A c \in Calls :
       /\ c.op \in Op
       /\ c = [op |-> c.op, what |-> c.what, id |-> c.id]
       /\ c.op = "lifecycle" => c.what \in Cycle
       /\ c.op = "inbound" => c.what = "none"
       /\ c.op = "execute" => c.what \in Action
       /\ c.op = "qualify" => c.what \in {"qualified", "nurture"}
       /\ c.op = "update" => /\ c.what \in Status \union {"none"}
                             /\ c.id \in DOMAIN Typed \union {"none"}
  /\ \A name \in DOMAIN Typed : Typed[name] \in Seq(Entry)

VARIABLES
  lead,        \* the lead record: its status and its evidence
  finance,     \* number of finance records with each payment's source key
  events,      \* what the event records with each call's source key show
  manual,      \* what the event records the owner entered by hand show
  paidByHand,  \* whether the owner entered a payment of the lead by hand
  req,         \* what each handler is doing
  begun,       \* calls begun
  heard,       \* history: calls ever begun
  recorded,    \* history: calls carried out to their last write and answered
  repeated,    \* history: calls answered as a duplicate
  overlapped,  \* history: calls begun while the same call was under way
  cut,         \* history: calls of which a handler was cut off
  sent,        \* history: times each action was carried out by the adapter
  unrecorded,  \* history: those whose handler was cut off afterwards
  invented     \* history: evidence the owner typed in of what had not happened

vars == <<lead, finance, events, manual, paidByHand, req, begun, heard, recorded,
          repeated, overlapped, cut, sent, unrecorded, invented>>
byHand == <<manual, paidByHand>>
history == <<heard, recorded, repeated, overlapped, cut, sent, unrecorded, invented>>

-----------------------------------------------------------------------------
(* Evidence *)

Items(list) == {list[i] : i \in DOMAIN list}

\* Mutant: all entries are kept.
LatestWhole(list) == list
Latest(list) ==
  IF Len(list) <= Keep THEN list
  ELSE SubSeq(list, Len(list) - Keep + 1, Len(list))

Identified(c) == c.id \in ExternalIds

\* The entries a call adds to the evidence of the lead.
Entries(c) ==
  CASE c.op = "lifecycle" ->
         <<LeadId, Marker(c.what)>>
           \o (IF Identified(c) THEN <<ExtId(c.id)>> ELSE <<>>) \o <<Plain>>
    [] c.op = "inbound" -> <<LeadId, Plain, Conversation, Plain>>
    [] c.op = "qualify" -> <<Qualified, Plain, Qualified, Plain>>
    [] c.op = "execute" -> <<LeadId, Did(c.what), Plain, Executed, Plain>>
    [] c.op = "archive" -> <<Plain, Plain, Plain, Plain, Plain>>
    [] OTHER -> <<>>

Promoted == <<Discovered, Plain, Discovered, Plain>>

\* The owner's edit sets the evidence when it names a list.  (commercialAdminCreate under
\* the lead's source key writes over the lead likewise, its status and its evidence.)
Types(c) == c.op = "update" /\ c.id \in DOMAIN Typed
First(list) == IF Len(list) <= Keep THEN list ELSE SubSeq(list, 1, Keep)
TypedIn(c) == IF Types(c) THEN First(Typed[c.id]) ELSE <<>>

Evidence(c, seen) ==
  CASE c.op = "promote" -> Promoted
    [] Types(c) -> TypedIn(c)
    [] OTHER -> Latest(seen.evidence \o Entries(c))

-----------------------------------------------------------------------------
(* Calls *)

StatusOf == [e \in Cycle \ {"follow-up-not-required"} |->
               CASE e = "checkout-completed" -> "checkout"
                 [] e = "payment-confirmed"  -> "payment"
                 [] e = "customer-created"   -> "customer"
                 [] OTHER                    -> "fulfillment"]

NextStatus(c, status) ==
  CASE c.op = "lifecycle" ->
         IF c.what \in DOMAIN StatusOf THEN StatusOf[c.what] ELSE status
    [] c.op = "inbound" -> "conversation"
    [] c.op = "execute" -> IF c.what = "contact" THEN "contacted" ELSE c.what
    [] c.op = "promote" -> "new"
    [] c.op = "archive" -> "archived"
    [] c.op = "update" -> IF c.what = "none" THEN status ELSE c.what
    [] OTHER -> c.what

\* Statuses that let an action other than research be decided.
QualifiedStatus == Status \ {"new", "nurture", "archived"}

IsPayment(c) == c.op = "lifecycle" /\ c.what = "payment-confirmed"
LeavesEvent(c) == c.op \notin {"archive", "update"}

\* Calls whose event has a source key of its own each time.
FreshKey(c) == c.op \in {"qualify", "execute"}

\* What the event record of the call c shows, the lead having been read as seen.
EventItems(c, seen) ==
  CASE c.op = "lifecycle" ->
         {LeadId, Marker(c.what)}
           \union (IF Identified(c) THEN {ExtId(c.id)} ELSE {}) \union {Plain}
    [] c.op = "promote" -> {LeadId, Discovered, Plain}
    [] OTHER -> Items(Evidence(c, seen))

Pc == {"idle", "decide", "reread", "send", "update", "finance", "pay",
       "event", "log"}
NoCall == [op |-> "none", what |-> "none", id |-> "none"]
NoLead == [status |-> "none", evidence |-> <<>>]
Idle == [pc |-> "idle", call |-> NoCall, seen |-> NoLead, found |-> 0]

\* Mutant: an event is a duplicate whatever its external id.
DuplicateByMarker(c) ==
  c.op = "lifecycle" /\ Marker(c.what) \in Items(lead.evidence)
Duplicate(c) ==
  /\ c.op = "lifecycle"
  /\ Marker(c.what) \in Items(lead.evidence)
  /\ Identified(c) => ExtId(c.id) \in Items(lead.evidence)

-----------------------------------------------------------------------------
(* Steps of a handler *)

Init ==
  /\ lead = [status |-> "new", evidence |-> Promoted]
  /\ finance = [c \in Calls |-> 0]
  /\ events = [c \in Calls |-> <<>>]
  /\ manual = {} /\ paidByHand = FALSE
  /\ req = [h \in Handlers |-> Idle]
  /\ begun = 0
  /\ heard = {} /\ recorded = {} /\ repeated = {} /\ overlapped = {}
  /\ cut = {}
  /\ sent = [c \in Calls |-> 0]
  /\ unrecorded = [c \in Calls |-> 0]
  /\ invented = {}

\* What the evidence of a lead claims; the entries nothing looks for claim nothing.
Heard(op, what) == \E c \in heard : c.op = op /\ c.what \in what
Sent(action) == \E c \in Calls : c.op = "execute" /\ c.what = action /\ sent[c] > 0
Happened(item) ==
  /\ \A a \in Action : item = Did(a) => Sent(a)
  /\ \A e \in Cycle : item = Marker(e) => Heard("lifecycle", {e})
  /\ \A id \in ExternalIds : item = ExtId(id) => \E c \in heard : c.op = "lifecycle" /\ c.id = id
  /\ item = Conversation => Heard("inbound", {"none"})
  /\ item = Qualified => Heard("qualify", {"qualified", "nurture"})

MadeUp(list) == {item \in Items(list) : ~Happened(item)}

At(h, pc) == req[h].pc = pc
Goto(h, pc) == req' = [req EXCEPT ![h].pc = pc]
Finish(h) == /\ req' = [req EXCEPT ![h] = Idle]
             /\ recorded' = recorded \union {req[h].call}

\* The call arrives and reads the lead; it ends here if it is a duplicate, or
\* the clean-up finds the lead archived.
Begin(h, c) ==
  /\ At(h, "idle") /\ begun < MaxCalls
  /\ c.op = "archive" => lead.status # "archived"
  /\ begun' = begun + 1
  /\ heard' = heard \union {c}
  /\ IF Duplicate(c)
     THEN /\ repeated' = repeated \union {c}
          /\ UNCHANGED <<req, overlapped>>
     ELSE /\ req' = [req EXCEPT ![h] =
                       [pc |-> IF c.op = "execute" THEN "decide" ELSE "update",
                        call |-> c, seen |-> lead, found |-> 0]]
          /\ overlapped' = IF \E g \in Handlers : req[g].call = c
                           THEN overlapped \union {c} ELSE overlapped
          /\ UNCHANGED repeated
  /\ UNCHANGED <<lead, finance, events, byHand, recorded, cut, sent, unrecorded,
                 invented>>

\* The decision is recorded in a bucket that no handler reads; the policy's own
\* gates may refuse the action.
Decide(h) ==
  /\ At(h, "decide")
  /\ \/ req[h].seen.status \in QualifiedStatus /\ Goto(h, "reread")
     \/ req' = [req EXCEPT ![h] = Idle]
  /\ UNCHANGED <<lead, finance, events, byHand, begun, history>>

Reread(h) ==
  /\ At(h, "reread")
  /\ req' = [req EXCEPT ![h].pc = "send", ![h].seen = lead]
  /\ UNCHANGED <<lead, finance, events, byHand, begun, history>>

\* The adapter carries out the action and answers with its external id.
Send(h) ==
  /\ At(h, "send")
  /\ Goto(h, "update")
  /\ sent' = [sent EXCEPT ![req[h].call] = @ + 1]
  /\ UNCHANGED <<lead, finance, events, byHand, begun, heard, recorded, repeated,
                 overlapped, cut, unrecorded, invented>>

\* Mutant: a failed request to the adapter is not noticed.
SendFailUnnoticed(h) ==
  /\ Faulty /\ At(h, "send")
  /\ Goto(h, "update")
  /\ UNCHANGED <<lead, finance, events, byHand, begun, history>>

\* The adapter does not carry it out.
SendFail(h) ==
  /\ Faulty /\ At(h, "send")
  /\ req' = [req EXCEPT ![h] = Idle]
  /\ UNCHANGED <<lead, finance, events, byHand, begun, history>>

\* It does, but its answer is late, an error or without an external id.
SendLost(h) ==
  /\ Faulty /\ At(h, "send")
  /\ req' = [req EXCEPT ![h] = Idle]
  /\ sent' = [sent EXCEPT ![req[h].call] = @ + 1]
  /\ unrecorded' = [unrecorded EXCEPT ![req[h].call] = @ + 1]
  /\ cut' = cut \union {req[h].call}
  /\ UNCHANGED <<lead, finance, events, byHand, begun, heard, recorded, repeated,
                 overlapped, invented>>

\* The lead is written back, computed from the lead as it was read.
Update(h) ==
  LET c == req[h].call  seen == req[h].seen IN
  /\ At(h, "update")
  /\ lead' = [status |-> NextStatus(c, seen.status),
              evidence |-> Evidence(c, seen)]
  /\ IF LeavesEvent(c)
     THEN /\ Goto(h, IF IsPayment(c) THEN "finance" ELSE "event")
          /\ UNCHANGED recorded
     ELSE Finish(h)
  /\ invented' = invented \union MadeUp(TypedIn(c))
  /\ UNCHANGED <<finance, events, byHand, begun, heard, repeated, overlapped, cut,
                 sent, unrecorded>>

\* upsertBySourceKey: look up the payment's record, then add or update it.
LookUpPayment(h) ==
  /\ At(h, "finance")
  /\ req' = [req EXCEPT ![h].pc = "pay", ![h].found = finance[req[h].call]]
  /\ UNCHANGED <<lead, finance, events, byHand, begun, history>>

\* Mutant: records are added without looking for one.
WithPaymentAlways(count, found) == count + 1
WithPayment(count, found) == IF found = 0 THEN count + 1 ELSE count

Pay(h) ==
  LET c == req[h].call IN
  /\ At(h, "pay")
  /\ finance' = [finance EXCEPT ![c] = WithPayment(@, req[h].found)]
  /\ Goto(h, "event")
  /\ UNCHANGED <<lead, events, byHand, begun, history>>

\* The same for the event record; the last write of the call.
LookUpEvent(h) ==
  LET c == req[h].call IN
  /\ At(h, "event")
  /\ \E n \in IF FreshKey(c) \/ events[c] = <<>> THEN {0} ELSE DOMAIN events[c] :
       req' = [req EXCEPT ![h].pc = "log", ![h].found = n]
  /\ UNCHANGED <<lead, finance, events, byHand, begun, history>>

Log(h) ==
  LET c == req[h].call  shown == EventItems(c, req[h].seen) IN
  /\ At(h, "log")
  /\ events' = [events EXCEPT ![c] =
                  IF req[h].found = 0 THEN Append(@, shown)
                  ELSE [@ EXCEPT ![req[h].found] = shown]]
  /\ Finish(h)
  /\ UNCHANGED <<lead, finance, byHand, begun, heard, repeated, overlapped, cut,
                 sent, unrecorded, invented>>

\* An error of the store or the end of the process.
AfterSend == {"update", "event", "log"}
Cut(h) ==
  LET c == req[h].call IN
  /\ Faulty /\ ~At(h, "idle")
  /\ req' = [req EXCEPT ![h] = Idle]
  /\ cut' = cut \union {c}
  /\ unrecorded' = IF c.op = "execute" /\ req[h].pc \in AfterSend
                   THEN [unrecorded EXCEPT ![c] = @ + 1] ELSE unrecorded
  /\ UNCHANGED <<lead, finance, events, byHand, begun, heard, recorded, repeated,
                 overlapped, sent, invented>>

Step(h) ==
  \/ \E c \in Calls : Begin(h, c)
  \/ Decide(h) \/ Reread(h) \/ Send(h) \/ SendFail(h) \/ SendLost(h)
  \/ Update(h) \/ LookUpPayment(h) \/ Pay(h) \/ LookUpEvent(h) \/ Log(h)
  \/ Cut(h)

\* commercialAdminCreate: the owner enters an event record or a payment under a source
\* key no handler looks for.
EnterEvent(name) ==
  /\ begun < MaxCalls /\ begun' = begun + 1
  /\ manual' = manual \union {Items(First(Typed[name]))}
  /\ invented' = invented \union MadeUp(First(Typed[name]))
  /\ UNCHANGED <<lead, finance, events, paidByHand, req, heard, recorded, repeated,
                 overlapped, cut, sent, unrecorded>>

EnterPayment ==
  /\ begun < MaxCalls /\ begun' = begun + 1
  /\ paidByHand' = TRUE
  /\ UNCHANGED <<lead, finance, events, manual, req, history>>

Enter == EnterPayment \/ \E name \in DOMAIN Typed : EnterEvent(name)

Next == Enter \/ \E h \in Handlers : Step(h)
Spec == Init /\ [][Next]_vars

-----------------------------------------------------------------------------
(* commercialSalesProof *)

LeadShows(item) == item \in Items(lead.evidence)

\* Mutant: only the lead is asked.
EventShowsNone(item) == FALSE
EventShows(item) ==
  \/ \E c \in Calls : \E i \in DOMAIN events[c] : {LeadId, item} \subseteq events[c][i]
  \/ \E shown \in manual : {LeadId, item} \subseteq shown

Paid == paidByHand \/ \E c \in Calls : IsPayment(c) /\ finance[c] > 0

Observed(item) == LeadShows(item) \/ EventShows(item)

\* The ten parts of the proof of a sale.
Proof(part) ==
  CASE part = "leadDiscovered"        -> LeadShows(Discovered)
    [] part = "contactSent"           -> LeadShows(Did("contact")) /\ LeadShows(Executed)
    [] part = "conversationObserved"  -> Observed(Conversation)
    [] part = "qualificationRecorded" -> LeadShows(Qualified)
    [] part = "offerSent"             -> LeadShows(Did("offer")) /\ LeadShows(Executed)
    [] part = "followUpSatisfied"     -> \/ LeadShows(Did("follow-up"))
                                         \/ Observed(Marker("follow-up-not-required"))
    [] part = "checkoutCompleted"     -> Observed(Marker("checkout-completed"))
    [] part = "paymentConfirmed"      -> Paid
    [] part = "customerCreated"       -> Observed(Marker("customer-created"))
    [] part = "fulfillmentStarted"    -> Observed(Marker("fulfillment-started"))

-----------------------------------------------------------------------------
(* Properties *)

LeadRecord == [status : Status \union {"none"}, evidence : Seq(Entry)]
Request == [pc : Pc, call : Calls \union {NoCall}, seen : LeadRecord, found : Nat]

\* Types; and no lead keeps more evidence than it may (slice(-20)).
TypeOK ==
  /\ lead \in LeadRecord /\ Len(lead.evidence) <= Keep
  /\ finance \in [Calls -> Nat]
  /\ events \in [Calls -> Seq(SUBSET Entry)]
  /\ req \in [Handlers -> Request]
  /\ manual \subseteq SUBSET Entry /\ paidByHand \in BOOLEAN
  /\ begun \in 0..MaxCalls
  /\ {heard, recorded, repeated, overlapped, cut} \subseteq SUBSET Calls
  /\ {sent, unrecorded} \subseteq [Calls -> Nat] /\ invented \subseteq Entry

\* What the proof of a sale says of what the call c tells.
Shown(c) ==
  /\ IsPayment(c) => Proof("paymentConfirmed")
  /\ c.op = "inbound" => Proof("conversationObserved")
  /\ c.op = "lifecycle" /\ ~IsPayment(c) => Observed(Marker(c.what))

\* Once an event of the cycle or a message of the customer is carried out and
\* answered, commercialSalesProof finds it for ever: whatever handlers write
\* over the lead or push out of its evidence, and wherever others are cut off.
RecordedStaysProved == \A c \in recorded : Shown(c)

\* A payment has one finance record however often it is delivered, unless two
\* deliveries of it were under way together (the look-up by source key is the
\* only thing that keeps upsertBySourceKey from adding twice).
PaidOnce == \A c \in Calls : finance[c] > 1 => c \in overlapped

UnderWay(c) == \E h \in Handlers : req[h].call = c
Kept(c) == events[c] # <<>> /\ (IsPayment(c) => finance[c] > 0)

\* An event of the cycle that carries an external id and was answered, as a
\* duplicate or not, has its event and finance records, unless a handler of it
\* is still under way or was cut off: only then does the lead carry the markers
\* that make a delivery a duplicate while the records are missing (or when the
\* owner typed the id in before it was ever received).
AnsweredAccounted ==
  \A c \in recorded \union repeated :
    c.op = "lifecycle" /\ Identified(c) =>
      Kept(c) \/ UnderWay(c) \/ c \in cut \/ ExtId(c.id) \in invented

Pending(c) == {h \in Handlers : req[h].call = c /\ req[h].pc \in AfterSend}

\* Every action the adapter carried out has an event record of its own, or its
\* handler still has to write it, or was cut off before; and no record claims
\* an action that was not carried out.
ActionsAccounted ==
  \A c \in Calls : c.op = "execute" =>
    sent[c] = Len(events[c]) + Cardinality(Pending(c)) + unrecorded[c]

\* The parts one event of the cycle proves by its marker.
MarkerOf == [checkoutCompleted |-> "checkout-completed", customerCreated |-> "customer-created",
             fulfillmentStarted |-> "fulfillment-started"]

\* The proof of a sale claims nothing that did not happen, but for what the owner
\* typed in before it had happened: that very entry for the parts read off the lead
\* and the event records; a payment only by a finance record entered by hand.
ProvedOnlyIfDone ==
  /\ Proof("contactSent") => Sent("contact") \/ Did("contact") \in invented
  /\ Proof("offerSent") => Sent("offer") \/ Did("offer") \in invented
  /\ Proof("followUpSatisfied") =>
       \/ Sent("follow-up") \/ Heard("lifecycle", {"follow-up-not-required"})
       \/ {Did("follow-up"), Marker("follow-up-not-required")} \cap invented # {}
  /\ Proof("conversationObserved") => Heard("inbound", {"none"}) \/ Conversation \in invented
  /\ Proof("qualificationRecorded") =>
       Heard("qualify", {"qualified", "nurture"}) \/ Qualified \in invented
  /\ Proof("paymentConfirmed") => Heard("lifecycle", {"payment-confirmed"}) \/ paidByHand
  /\ \A part \in DOMAIN MarkerOf :
       Proof(part) => Heard("lifecycle", {MarkerOf[part]}) \/ Marker(MarkerOf[part]) \in invented

=============================================================================
