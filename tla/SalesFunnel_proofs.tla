-------------------------- MODULE SalesFunnel_proofs --------------------------
(***************************************************************************)
(* Proofs about SalesFunnel, for any handlers, calls and window of         *)
(* evidence: type correctness, what was carried out stays proved, a        *)
(* payment whose deliveries do not overlap is recorded once, and an        *)
(* answered event of the cycle has its records.                            *)
(***************************************************************************)
EXTENDS SalesFunnel, FiniteSetTheorems, TLAPS

LEMMA KeepType == Keep \in Nat /\ Keep >= 5
  BY FunnelAssumption

LEMMA CallType ==
  ASSUME NEW c \in Calls
  PROVE  /\ c.op \in Op
         /\ c.op = "lifecycle" => c.what \in Cycle
         /\ c.op = "execute" => c.what \in Action
         /\ c.op = "qualify" => c.what \in {"qualified", "nurture"}
         /\ c.op = "update" => c.what \in Status \union {"none"}
  BY FunnelAssumption

LEMMA NoCallApart == NoCall \notin Calls
  BY CallType DEF NoCall, Op

-----------------------------------------------------------------------------
(* Evidence *)

LEMMA ConcatType ==
  ASSUME NEW S, NEW s \in Seq(S), NEW t \in Seq(S)
  PROVE  s \o t \in Seq(S) /\ Len(s \o t) = Len(s) + Len(t)
  OBVIOUS

LEMMA EntriesType ==
  ASSUME NEW c \in Calls
  PROVE  Entries(c) \in Seq(Entry) /\ Len(Entries(c)) <= 5
<1>1. c.op = "lifecycle" => c.what \in Cycle
  BY CallType
<1>2. c.op = "execute" => c.what \in Action
  BY CallType
<1>3. {LeadId, Plain, Discovered, Conversation, Qualified, Executed} \subseteq Entry
  BY DEF Entry
<1>4. c.op = "lifecycle" => Marker(c.what) \in Entry
  BY <1>1 DEF Entry
<1>5. c.op = "execute" => Did(c.what) \in Entry
  BY <1>2 DEF Entry
<1>6. Identified(c) => ExtId(c.id) \in Entry
  BY DEF Entry, Identified
<1>. HIDE DEF Entry
<1>7. CASE c.op = "lifecycle"
  <2>. DEFINE first == <<LeadId, Marker(c.what)>>
              second == IF Identified(c) THEN <<ExtId(c.id)>> ELSE <<>>
  <2>1. first \in Seq(Entry) /\ Len(first) = 2
    BY <1>1, <1>3, <1>4, <1>7
  <2>2. second \in Seq(Entry) /\ Len(second) <= 1
    BY <1>6
  <2>3. <<Plain>> \in Seq(Entry) /\ Len(<<Plain>>) = 1
    BY <1>3
  <2>4. Entries(c) = first \o second \o <<Plain>>
    BY <1>7 DEF Entries
  <2>. HIDE DEF first, second
  <2>5. /\ first \o second \in Seq(Entry)
        /\ Len(first \o second) = Len(first) + Len(second)
    BY <2>1, <2>2, ConcatType
  <2>. QED
    BY <2>1, <2>2, <2>3, <2>4, <2>5, ConcatType
<1>8. CASE c.op = "inbound"
  <2>1. Entries(c) = <<LeadId, Plain, Conversation, Plain>>
    BY <1>8 DEF Entries
  <2>. QED
    BY <2>1, <1>3
<1>9. CASE c.op = "qualify"
  <2>1. Entries(c) = <<Qualified, Plain, Qualified, Plain>>
    BY <1>9 DEF Entries
  <2>. QED
    BY <2>1, <1>3
<1>10. CASE c.op = "execute"
  <2>1. Entries(c) = <<LeadId, Did(c.what), Plain, Executed, Plain>>
    BY <1>10 DEF Entries
  <2>. QED
    BY <2>1, <1>3, <1>5, <1>10
<1>11. CASE c.op = "archive"
  <2>1. Entries(c) = <<Plain, Plain, Plain, Plain, Plain>>
    BY <1>11 DEF Entries
  <2>. QED
    BY <2>1, <1>3
<1>12. CASE c.op \notin {"lifecycle", "inbound", "qualify", "execute", "archive"}
  <2>1. Entries(c) = <<>>
    BY <1>12 DEF Entries
  <2>. QED
    BY <2>1
<1>. QED
  BY <1>7, <1>8, <1>9, <1>10, <1>11, <1>12

LEMMA PromotedType == Promoted \in Seq(Entry) /\ Len(Promoted) <= Keep
<1>1. Discovered \in Entry /\ Plain \in Entry
  BY DEF Entry
<1>. QED
  BY <1>1, KeepType DEF Promoted

LEMMA LatestType ==
  ASSUME NEW S, NEW s \in Seq(S)
  PROVE  Latest(s) \in Seq(S) /\ Len(Latest(s)) <= Keep
  BY KeepType DEF Latest

LEMMA LatestItems ==
  ASSUME NEW S, NEW s \in Seq(S), NEW t \in Seq(S)
  PROVE  Items(Latest(s \o t)) \subseteq Items(s) \union Items(t)
<1>1. Items(Latest(s \o t)) \subseteq Items(s \o t)
  <2>. DEFINE u == s \o t
  <2>1. u \in Seq(S)
    OBVIOUS
  <2>. HIDE DEF u
  <2>2. Items(Latest(u)) \subseteq Items(u)
    <3>1. CASE Len(u) <= Keep
      BY <3>1 DEF Latest
    <3>2. CASE Len(u) > Keep
      <4>. DEFINE n == Len(u) - Keep
      <4>1. Latest(u) = SubSeq(u, n + 1, Len(u)) /\ n \in Nat
        BY <2>1, <3>2, KeepType DEF Latest
      <4>2. SUFFICES ASSUME NEW i \in DOMAIN Latest(u)
                     PROVE  \E j \in DOMAIN u : Latest(u)[i] = u[j]
        BY DEF Items
      <4>. HIDE DEF n
      <4>3. i \in 1..Len(u) - n /\ Latest(u)[i] = u[n + i]
        BY <2>1, <4>1
      <4>. QED
        BY <2>1, <4>1, <4>3
    <3>. QED
      BY <2>1, <3>1, <3>2, KeepType
  <2>. QED
    BY <2>2 DEF u
<1>2. Items(s \o t) \subseteq Items(s) \union Items(t)
  BY DEF Items
<1>. QED
  BY <1>1, <1>2

\* What is appended is still there.
LEMMA LatestKeeps ==
  ASSUME NEW S, NEW s \in Seq(S), NEW t \in Seq(S), Len(t) <= Keep
  PROVE  Items(t) \subseteq Items(Latest(s \o t))
<1>. DEFINE u == s \o t
<1>1. SUFFICES ASSUME NEW i \in 1..Len(t)
               PROVE  \E j \in DOMAIN Latest(u) : Latest(u)[j] = t[i]
  BY DEF Items
<1>2. u \in Seq(S) /\ Len(u) = Len(s) + Len(t) /\ u[Len(s) + i] = t[i]
  OBVIOUS
<1>. HIDE DEF u
<1>3. CASE Len(u) <= Keep
  <2>1. Latest(u) = u
    BY <1>3 DEF Latest
  <2>. QED
    BY <1>2, <2>1
<1>4. CASE Len(u) > Keep
  <2>. DEFINE n == Len(u) - Keep
  <2>1. Latest(u) = SubSeq(u, n + 1, Len(u)) /\ n \in Nat
    BY <1>2, <1>4, KeepType DEF Latest
  <2>2. n <= Len(s) /\ n < Len(u)
    BY <1>2, KeepType
  <2>. HIDE DEF n
  <2>3. Len(s) + i - n \in 1..Len(u) - n
    BY <1>2, <2>1, <2>2
  <2>4. Latest(u)[Len(s) + i - n] = u[Len(s) + i]
    BY <1>2, <2>1, <2>3
  <2>5. Len(s) + i - n \in DOMAIN Latest(u)
    BY <1>2, <2>1, <2>3
  <2>. QED
    BY <1>2, <2>4, <2>5
<1>. QED
  BY <1>2, <1>3, <1>4, KeepType

LEMMA FirstType ==
  ASSUME NEW name \in DOMAIN Typed
  PROVE  /\ First(Typed[name]) \in Seq(Entry) /\ Len(First(Typed[name])) <= Keep
         /\ Items(First(Typed[name])) \subseteq Entry
<1>1. Typed[name] \in Seq(Entry)
  BY FunnelAssumption
<1>2. First(Typed[name]) \in Seq(Entry) /\ Len(First(Typed[name])) <= Keep
  BY <1>1, KeepType DEF First
<1>. QED
  BY <1>2 DEF Items

LEMMA TypedType ==
  ASSUME NEW c \in Calls
  PROVE  TypedIn(c) \in Seq(Entry) /\ Len(TypedIn(c)) <= Keep
<1>1. CASE Types(c)
  BY <1>1, FirstType DEF TypedIn, Types
<1>2. CASE ~Types(c)
  <2>1. TypedIn(c) = <<>>
    BY <1>2 DEF TypedIn
  <2>. QED
    BY <2>1, KeepType
<1>. QED
  BY <1>1, <1>2

\* What the evidence becomes, call by call.
LEMMA EvidenceCases ==
  ASSUME NEW c, NEW seen
  PROVE  /\ c.op = "promote" => Evidence(c, seen) = Promoted
         /\ Types(c) => Evidence(c, seen) = TypedIn(c)
         /\ c.op # "promote" /\ ~Types(c) =>
              Evidence(c, seen) = Latest(seen.evidence \o Entries(c))
  BY DEF Evidence, Types

LEMMA EvidenceType ==
  ASSUME NEW c \in Calls, NEW seen \in LeadRecord
  PROVE  Evidence(c, seen) \in Seq(Entry) /\ Len(Evidence(c, seen)) <= Keep
<1>1. seen.evidence \o Entries(c) \in Seq(Entry)
  BY EntriesType DEF LeadRecord
<1>. QED
  BY <1>1, LatestType, PromotedType, TypedType, EvidenceCases

LEMMA EventItemsType ==
  ASSUME NEW c \in Calls, NEW seen \in LeadRecord
  PROVE  EventItems(c, seen) \in SUBSET Entry
<1>1. Items(Evidence(c, seen)) \subseteq Entry
  BY EvidenceType DEF Items
<1>2. {LeadId, Discovered, Plain} \subseteq Entry
  BY DEF Entry
<1>3. c.op = "lifecycle" => Marker(c.what) \in Entry
  BY CallType DEF Entry
<1>4. Identified(c) => ExtId(c.id) \in Entry
  BY DEF Entry, Identified
<1>. HIDE DEF Entry
<1>. QED
  BY <1>1, <1>2, <1>3, <1>4 DEF EventItems

LEMMA NextStatusType ==
  ASSUME NEW c \in Calls, NEW s \in Status \union {"none"}
  PROVE  NextStatus(c, s) \in Status \union {"none"}
  BY CallType DEF NextStatus, StatusOf, Cycle, Action, Status, Op


-----------------------------------------------------------------------------
(* The inductive invariant *)

\* What a handler does fits its call, and a payment is recorded before its
\* event is.
RequestFits(h) ==
  LET c == req[h].call  pc == req[h].pc IN
  /\ pc = "idle" <=> c = NoCall
  /\ pc \in {"decide", "reread", "send"} => c.op = "execute"
  /\ pc \in {"finance", "pay"} => IsPayment(c)
  /\ pc = "pay" => req[h].found <= finance[c]
  /\ pc \in {"event", "log"} => LeavesEvent(c) /\ (IsPayment(c) => finance[c] > 0)
  /\ pc = "log" => req[h].found \in 0..Len(events[c])

\* What the proof of a sale looks for in event records.
EventProves(c, items) ==
  /\ c.op = "lifecycle" => {LeadId, Marker(c.what)} \subseteq items
  /\ c.op = "inbound" => {LeadId, Conversation} \subseteq items
EventsProve ==
  \A c \in Calls : \A i \in DOMAIN events[c] : EventProves(c, events[c][i])

RecordedKept == \A c \in recorded : LeavesEvent(c) => Kept(c)

IInv ==
  /\ TypeOK
  /\ \A h \in Handlers : RequestFits(h)
  /\ EventsProve
  /\ RecordedKept

LEMMA EventItemsProve ==
  ASSUME NEW c \in Calls, NEW seen \in LeadRecord
  PROVE  EventProves(c, EventItems(c, seen))
<1>1. CASE c.op = "lifecycle"
  BY <1>1 DEF EventProves, EventItems
<1>2. CASE c.op = "inbound"
  <2>1. {LeadId, Conversation} \subseteq Items(Entries(c))
    <3>1. Entries(c) = <<LeadId, Plain, Conversation, Plain>>
      BY <1>2 DEF Entries
    <3>2. 1 \in DOMAIN Entries(c) /\ 3 \in DOMAIN Entries(c)
      BY <3>1
    <3>3. Entries(c)[1] = LeadId /\ Entries(c)[3] = Conversation
      BY <3>1
    <3>. QED
      BY <3>2, <3>3 DEF Items
  <2>2. Evidence(c, seen) = Latest(seen.evidence \o Entries(c))
    BY <1>2, EvidenceCases DEF Types
  <2>3. Items(Entries(c)) \subseteq Items(Evidence(c, seen))
    BY <2>2, LatestKeeps, EntriesType, KeepType DEF LeadRecord
  <2>4. EventItems(c, seen) = Items(Evidence(c, seen))
    BY <1>2 DEF EventItems
  <2>. QED
    BY <1>2, <2>1, <2>3, <2>4 DEF EventProves
<1>. QED
  BY <1>1, <1>2 DEF EventProves

LEMMA IdleFits == Idle \in Request /\ Idle.pc = "idle" /\ Idle.call = NoCall
<1>1. NoLead \in LeadRecord
  BY DEF NoLead, LeadRecord
<1>. QED
  BY <1>1 DEF Idle, Request, Pc

LEMMA InitIInv == Init => IInv
<1>. SUFFICES ASSUME Init PROVE IInv
  OBVIOUS
<1>1. lead \in LeadRecord /\ Len(lead.evidence) <= Keep
  BY PromotedType DEF Init, LeadRecord, Status
<1>2. events \in [Calls -> Seq(SUBSET Entry)]
  BY DEF Init
<1>3. TypeOK
  <2>1. /\ req \in [Handlers -> Request] /\ finance \in [Calls -> Nat]
        /\ sent \in [Calls -> Nat] /\ unrecorded \in [Calls -> Nat]
    BY IdleFits DEF Init
  <2>2. MaxCalls \in Nat
    BY FunnelAssumption
  <2>3. begun \in 0..MaxCalls /\ manual = {} /\ invented = {}
    BY <2>2 DEF Init
  <2>4. paidByHand \in BOOLEAN
    BY Zenon DEF Init
  <2>5. /\ heard = {} /\ recorded = {} /\ repeated = {} /\ overlapped = {} /\ cut = {}
    BY DEF Init
  <2>. QED
    BY <1>1, <1>2, <2>1, <2>3, <2>4, <2>5 DEF TypeOK
<1>4. \A h \in Handlers : RequestFits(h)
  BY IdleFits DEF Init, RequestFits
<1>. QED
  BY <1>3, <1>4 DEF Init, IInv, EventsProve, RecordedKept

\* A step of the handler h is well-typed if what it writes is.
LEMMA StepType ==
  ASSUME TypeOK, NEW h \in Handlers, req[h].call \in Calls, NEW pc \in Pc
  PROVE  /\ [req EXCEPT ![h].pc = pc] \in [Handlers -> Request]
         /\ [req EXCEPT ![h] = Idle] \in [Handlers -> Request]
  BY IdleFits DEF TypeOK, Request

\* A handler at work has a call.
LEMMA AtWork ==
  ASSUME IInv, NEW h \in Handlers, req[h].pc # "idle"
  PROVE  /\ req[h].call \in Calls
         /\ req[h].seen \in LeadRecord
         /\ req[h].found \in Nat
         /\ req[h].call # NoCall
<1>1. req[h] \in Request /\ RequestFits(h)
  BY DEF IInv, TypeOK
<1>. QED
  BY <1>1 DEF RequestFits, Request

\* What the other handlers do fits as before when no record is taken away.
LEMMA OthersFit ==
  ASSUME IInv, NEW h \in Handlers, NEW r, req' = [req EXCEPT ![h] = r],
         RequestFits(h)',
         \A c \in Calls : finance'[c] \in Nat /\ finance'[c] >= finance[c],
         \A c \in Calls : Len(events'[c]) \in Nat /\ Len(events'[c]) >= Len(events[c])
  PROVE  \A g \in Handlers : RequestFits(g)'
<1>. SUFFICES ASSUME NEW g \in Handlers, g # h PROVE RequestFits(g)'
  OBVIOUS
<1>1. RequestFits(g) /\ req[g] \in Request /\ req'[g] = req[g]
  BY DEF IInv, TypeOK
<1>2. req[g].pc # "idle" => req[g].call \in Calls /\ req[g].found \in Nat
  BY AtWork
<1>3. finance \in [Calls -> Nat] /\ \A c \in Calls : Len(events[c]) \in Nat
  BY DEF IInv, TypeOK
<1>. QED
  BY <1>1, <1>2, <1>3 DEF RequestFits

\* A step that leaves the records alone only has to be well-typed and to fit.
LEMMA QuietStep ==
  ASSUME IInv, NEW h \in Handlers, NEW r \in Request, req' = [req EXCEPT ![h] = r],
         RequestFits(h)', UNCHANGED <<finance, events>>,
         RecordedKept', lead' \in LeadRecord, Len(lead'.evidence) <= Keep,
         begun' \in 0..MaxCalls, heard' \subseteq Calls, recorded' \subseteq Calls,
         repeated' \subseteq Calls, overlapped' \subseteq Calls, cut' \subseteq Calls,
         sent' \in [Calls -> Nat], unrecorded' \in [Calls -> Nat],
         invented' \subseteq Entry, UNCHANGED byHand
  PROVE  IInv'
<1>1. TypeOK'
  BY DEF IInv, TypeOK, byHand
<1>2. \A c \in Calls : finance'[c] \in Nat /\ finance'[c] >= finance[c]
  BY DEF IInv, TypeOK
<1>3. \A c \in Calls :
        Len(events'[c]) \in Nat /\ Len(events'[c]) >= Len(events[c])
  BY DEF IInv, TypeOK
<1>4. \A g \in Handlers : RequestFits(g)'
  BY <1>2, <1>3, OthersFit
<1>. QED
  BY <1>1, <1>4 DEF IInv, EventsProve

LEMMA BeginIInv ==
  ASSUME IInv, NEW h \in Handlers, NEW c \in Calls, Begin(h, c)
  PROVE  IInv'
<1>1. /\ lead \in LeadRecord /\ Len(lead.evidence) <= Keep
      /\ req \in [Handlers -> Request] /\ begun \in 0..MaxCalls
      /\ RequestFits(h) /\ RecordedKept
  BY DEF IInv, TypeOK
<1>2. begun' \in 0..MaxCalls
  BY <1>1, FunnelAssumption DEF Begin
<1>3. RecordedKept'
  BY <1>1 DEF RecordedKept, Kept, Begin
<1>4. CASE Duplicate(c)
  <2>1. req' = [req EXCEPT ![h] = req[h]]
    BY <1>1, <1>4 DEF Begin
  <2>2. RequestFits(h)'
    BY <1>1, <1>4 DEF Begin, RequestFits
  <2>. QED
    BY <1>1, <1>2, <1>3, <1>4, <2>1, <2>2, QuietStep DEF Begin, IInv, TypeOK
<1>5. CASE ~Duplicate(c)
  <2>. DEFINE r == [pc |-> IF c.op = "execute" THEN "decide" ELSE "update",
                    call |-> c, seen |-> lead, found |-> 0]
  <2>1. req' = [req EXCEPT ![h] = r]
    BY <1>5 DEF Begin
  <2>2. r \in Request
    BY <1>1 DEF Request, Pc
  <2>3. RequestFits(h)'
    BY <1>1, <2>1, NoCallApart DEF RequestFits
  <2>. HIDE DEF r
  <2>. QED
    BY <1>1, <1>2, <1>3, <1>5, <2>1, <2>2, <2>3, QuietStep DEF Begin, IInv, TypeOK
<1>. QED
  BY <1>4, <1>5

\* A handler that goes on, or ends without having recorded anything.
LEMMA GoOn ==
  ASSUME IInv, NEW h \in Handlers, req[h].pc # "idle",
         NEW pc \in Pc \ {"idle", "log"}, NEW seen \in LeadRecord,
         NEW found \in Nat,
         pc \in {"decide", "reread", "send"} => req[h].call.op = "execute",
         pc \in {"finance", "pay"} => IsPayment(req[h].call),
         pc = "pay" => found <= finance[req[h].call],
         pc = "event" => /\ LeavesEvent(req[h].call)
                         /\ IsPayment(req[h].call) => finance[req[h].call] > 0,
         NEW r, r = [req[h] EXCEPT !.pc = pc, !.seen = seen, !.found = found],
         req' = [req EXCEPT ![h] = r], UNCHANGED <<finance, events>>
  PROVE  r \in Request /\ RequestFits(h)'
<1>1. req[h] \in Request /\ RequestFits(h) /\ req \in [Handlers -> Request]
  BY DEF IInv, TypeOK
<1>2. req[h].call \in Calls /\ req[h].call # NoCall
  BY AtWork
<1>3. req'[h] = r
  BY <1>1
<1>4. r \in Request
  BY <1>1 DEF Request
<1>5. r.pc = pc /\ r.call = req[h].call /\ r.found = found
  BY <1>1 DEF Request
<1>. QED
  BY <1>2, <1>3, <1>4, <1>5 DEF RequestFits

LEMMA GoIdle ==
  ASSUME IInv, NEW h \in Handlers, req' = [req EXCEPT ![h] = Idle]
  PROVE  RequestFits(h)'
<1>1. req'[h] = Idle
  BY DEF IInv, TypeOK
<1>. QED
  BY <1>1, IdleFits DEF RequestFits

LEMMA DecideIInv ==
  ASSUME IInv, NEW h \in Handlers, Decide(h)
  PROVE  IInv'
<1>1. RecordedKept'
  BY DEF Decide, IInv, RecordedKept, Kept, history
<1>2. req[h] \in Request /\ req[h].pc = "decide" /\ RequestFits(h)
  BY DEF IInv, TypeOK, Decide, At
<1>3. CASE Goto(h, "reread")
  <2>. DEFINE r == [req[h] EXCEPT !.pc = "reread", !.seen = req[h].seen,
                                  !.found = req[h].found]
  <2>1. req' = [req EXCEPT ![h] = r]
    BY <1>2, <1>3 DEF Goto, Request
  <2>2. r \in Request /\ RequestFits(h)'
    BY <1>2, <2>1, AtWork, GoOn DEF Decide, RequestFits, Pc
  <2>. HIDE DEF r
  <2>. QED
    BY <1>1, <2>1, <2>2, QuietStep DEF Decide, IInv, TypeOK, history
<1>4. CASE req' = [req EXCEPT ![h] = Idle]
  BY <1>1, <1>4, GoIdle, IdleFits, QuietStep DEF Decide, IInv, TypeOK, history
<1>. QED
  BY <1>3, <1>4 DEF Decide

LEMMA RereadIInv ==
  ASSUME IInv, NEW h \in Handlers, Reread(h)
  PROVE  IInv'
<1>1. RecordedKept'
  BY DEF Reread, IInv, RecordedKept, Kept, history
<1>2. req[h] \in Request /\ req[h].pc = "reread" /\ RequestFits(h)
  BY DEF IInv, TypeOK, Reread, At
<1>. DEFINE r == [req[h] EXCEPT !.pc = "send", !.seen = lead,
                                !.found = req[h].found]
<1>3. req' = [req EXCEPT ![h] = r]
  BY <1>2 DEF Reread, Request
<1>4. lead \in LeadRecord
  BY DEF IInv, TypeOK
<1>5. req[h].call.op = "execute" /\ req[h].found \in Nat /\ "send" \in Pc
  BY <1>2 DEF RequestFits, Request, Pc
<1>6. UNCHANGED <<finance, events>>
  BY DEF Reread
<1>7. r \in Request /\ RequestFits(h)'
  BY <1>2, <1>3, <1>4, <1>5, <1>6, GoOn
<1>. HIDE DEF r
<1>. QED
  BY <1>1, <1>3, <1>7, QuietStep DEF Reread, IInv, TypeOK, history

LEMMA SendIInv ==
  ASSUME IInv, NEW h \in Handlers, Send(h)
  PROVE  IInv'
<1>1. RecordedKept'
  BY DEF Send, IInv, RecordedKept, Kept
<1>2. req[h] \in Request /\ req[h].pc = "send" /\ RequestFits(h)
  BY DEF IInv, TypeOK, Send, At
<1>. DEFINE r == [req[h] EXCEPT !.pc = "update", !.seen = req[h].seen,
                                !.found = req[h].found]
<1>3. req' = [req EXCEPT ![h] = r]
  BY <1>2 DEF Send, Goto, Request
<1>4. r \in Request /\ RequestFits(h)'
  BY <1>2, <1>3, AtWork, GoOn DEF Send, RequestFits, Pc
<1>5. sent' \in [Calls -> Nat]
  BY <1>2, AtWork DEF Send, IInv, TypeOK
<1>. HIDE DEF r
<1>. QED
  BY <1>1, <1>3, <1>4, <1>5, QuietStep DEF Send, IInv, TypeOK

LEMMA SendFailIInv ==
  ASSUME IInv, NEW h \in Handlers, SendFail(h)
  PROVE  IInv'
<1>1. RecordedKept'
  BY DEF SendFail, IInv, RecordedKept, Kept, history
<1>. QED
  BY <1>1, GoIdle, IdleFits, QuietStep DEF SendFail, IInv, TypeOK, history

LEMMA SendLostIInv ==
  ASSUME IInv, NEW h \in Handlers, SendLost(h)
  PROVE  IInv'
<1>1. RecordedKept'
  BY DEF SendLost, IInv, RecordedKept, Kept
<1>2. req[h].call \in Calls
  BY AtWork DEF SendLost, At
<1>3. /\ sent' \in [Calls -> Nat] /\ unrecorded' \in [Calls -> Nat]
      /\ cut' \subseteq Calls
  BY <1>2 DEF SendLost, IInv, TypeOK
<1>. QED
  BY <1>1, <1>3, GoIdle, IdleFits, QuietStep DEF SendLost, IInv, TypeOK

LEMMA CutIInv ==
  ASSUME IInv, NEW h \in Handlers, Cut(h)
  PROVE  IInv'
<1>1. RecordedKept'
  BY DEF Cut, IInv, RecordedKept, Kept
<1>2. req[h].call \in Calls
  BY AtWork DEF Cut, At
<1>3. unrecorded' \in [Calls -> Nat] /\ cut' \subseteq Calls
  BY <1>2 DEF Cut, IInv, TypeOK
<1>. QED
  BY <1>1, <1>3, GoIdle, IdleFits, QuietStep DEF Cut, IInv, TypeOK

LEMMA UpdateIInv ==
  ASSUME IInv, NEW h \in Handlers, Update(h)
  PROVE  IInv'
<1>. DEFINE c == req[h].call
            seen == req[h].seen
<1>1. req[h] \in Request /\ req[h].pc = "update" /\ RequestFits(h)
  BY DEF IInv, TypeOK, Update, At
<1>2. c \in Calls /\ seen \in LeadRecord /\ req[h].found \in Nat
  BY <1>1, AtWork
<1>3. lead' \in LeadRecord /\ Len(lead'.evidence) <= Keep
  <2>1. lead' = [status |-> NextStatus(c, seen.status),
                 evidence |-> Evidence(c, seen)]
    BY DEF Update
  <2>2. seen.status \in Status \union {"none"}
    BY <1>2 DEF LeadRecord
  <2>. QED
    BY <1>2, <2>1, <2>2, NextStatusType, EvidenceType DEF LeadRecord
<1>4. invented' \subseteq Entry
  <2>1. Items(TypedIn(c)) \subseteq Entry
    BY <1>2, TypedType DEF Items
  <2>2. invented \subseteq Entry
    BY DEF IInv, TypeOK
  <2>. QED
    BY <2>1, <2>2 DEF Update, MadeUp
<1>5. CASE LeavesEvent(c)
  <2>. DEFINE pc == IF IsPayment(c) THEN "finance" ELSE "event"
              r == [req[h] EXCEPT !.pc = pc, !.seen = req[h].seen,
                                  !.found = req[h].found]
  <2>1. req' = [req EXCEPT ![h] = r] /\ recorded' = recorded
    BY <1>1, <1>5 DEF Update, Goto, Request
  <2>2. /\ pc \in Pc \ {"idle", "log"} /\ UNCHANGED <<finance, events>>
        /\ pc = "event" => LeavesEvent(c) /\ ~IsPayment(c)
    BY <1>5 DEF Update, Pc
  <2>3. r \in Request /\ RequestFits(h)'
    BY <1>1, <1>2, <2>1, <2>2, GoOn
  <2>4. RecordedKept'
    BY <2>1, <2>2 DEF IInv, RecordedKept, Kept
  <2>. HIDE DEF r, pc
  <2>. QED
    BY <1>3, <1>4, <2>1, <2>2, <2>3, <2>4, QuietStep DEF Update, IInv, TypeOK
<1>6. CASE ~LeavesEvent(c)
  <2>1. req' = [req EXCEPT ![h] = Idle] /\ recorded' = recorded \union {c}
    BY <1>6 DEF Update, Finish
  <2>2. RecordedKept'
    BY <1>6, <2>1 DEF Update, IInv, RecordedKept, Kept
  <2>3. recorded' \subseteq Calls
    BY <1>2, <2>1 DEF IInv, TypeOK
  <2>. QED
    BY <1>3, <1>4, <2>1, <2>2, <2>3, GoIdle, IdleFits, QuietStep
    DEF Update, IInv, TypeOK
<1>. QED
  BY <1>5, <1>6

LEMMA LookUpPaymentIInv ==
  ASSUME IInv, NEW h \in Handlers, LookUpPayment(h)
  PROVE  IInv'
<1>1. RecordedKept'
  BY DEF LookUpPayment, IInv, RecordedKept, Kept, history
<1>2. req[h] \in Request /\ req[h].pc = "finance" /\ RequestFits(h)
  BY DEF IInv, TypeOK, LookUpPayment, At
<1>3. /\ finance[req[h].call] \in Nat /\ req[h].seen \in LeadRecord
      /\ finance[req[h].call] <= finance[req[h].call]
  BY <1>2, AtWork DEF IInv, TypeOK
<1>. DEFINE r == [req[h] EXCEPT !.pc = "pay", !.seen = req[h].seen,
                                !.found = finance[req[h].call]]
<1>4. req' = [req EXCEPT ![h] = r]
  BY <1>2 DEF LookUpPayment, Request
<1>5. IsPayment(req[h].call) /\ "pay" \in Pc /\ UNCHANGED <<finance, events>>
  BY <1>2 DEF RequestFits, Pc, LookUpPayment
<1>6. r \in Request /\ RequestFits(h)'
  BY <1>2, <1>3, <1>4, <1>5, GoOn
<1>. HIDE DEF r
<1>. QED
  BY <1>1, <1>4, <1>6, QuietStep DEF LookUpPayment, IInv, TypeOK, history

LEMMA PayIInv ==
  ASSUME IInv, NEW h \in Handlers, Pay(h)
  PROVE  IInv'
<1>. DEFINE c == req[h].call
<1>1. /\ req[h] \in Request /\ req[h].pc = "pay" /\ RequestFits(h)
      /\ req \in [Handlers -> Request]
  BY DEF IInv, TypeOK, Pay, At
<1>2. c \in Calls /\ c # NoCall /\ req[h].found \in Nat
  BY <1>1, AtWork
<1>3. finance \in [Calls -> Nat] /\ events \in [Calls -> Seq(SUBSET Entry)]
  BY DEF IInv, TypeOK
<1>4. /\ finance' \in [Calls -> Nat]
      /\ \A d \in Calls : finance'[d] >= finance[d]
  BY <1>2, <1>3 DEF Pay, WithPayment
<1>5. UNCHANGED <<lead, events, byHand, begun, history>>
  BY DEF Pay
<1>. DEFINE r == [req[h] EXCEPT !.pc = "event"]
<1>6. req' = [req EXCEPT ![h] = r] /\ r \in Request /\ req'[h] = r
  BY <1>1 DEF Pay, Goto, Request, Pc
<1>7. r.pc = "event" /\ r.call = c
  BY <1>1 DEF Request
<1>. HIDE DEF r
<1>8. finance'[c] > 0
  <2>1. req[h].found <= finance[c]
    BY <1>1 DEF RequestFits
  <2>2. finance'[c] = WithPayment(finance[c], req[h].found)
    BY <1>2, <1>3 DEF Pay
  <2>. QED
    BY <1>2, <1>3, <2>1, <2>2 DEF WithPayment
<1>9. TypeOK'
  BY <1>4, <1>5, <1>6 DEF IInv, TypeOK, history, byHand
<1>10. RequestFits(h)'
  <2>1. LeavesEvent(c)
    BY <1>1 DEF RequestFits, IsPayment, LeavesEvent
  <2>. QED
    BY <1>2, <1>6, <1>7, <1>8, <2>1 DEF RequestFits
<1>11. \A g \in Handlers : RequestFits(g)'
  <2>1. \A d \in Calls : Len(events'[d]) \in Nat /\ Len(events'[d]) >= Len(events[d])
    BY <1>3, <1>5
  <2>. QED
    BY <1>4, <1>6, <1>10, <2>1, OthersFit
<1>12. RecordedKept'
  <2>. SUFFICES ASSUME NEW d \in recorded, LeavesEvent(d) PROVE Kept(d)'
    BY <1>5 DEF RecordedKept, history
  <2>1. Kept(d) /\ d \in Calls
    BY DEF IInv, RecordedKept, TypeOK
  <2>. QED
    BY <2>1, <1>3, <1>4, <1>5 DEF Kept
<1>13. EventsProve'
  BY <1>5 DEF IInv, EventsProve
<1>. QED
  BY <1>9, <1>11, <1>12, <1>13 DEF IInv

LEMMA LookUpEventIInv ==
  ASSUME IInv, NEW h \in Handlers, LookUpEvent(h)
  PROVE  IInv'
<1>. DEFINE c == req[h].call
<1>1. RecordedKept'
  BY DEF LookUpEvent, IInv, RecordedKept, Kept, history
<1>2. /\ req[h] \in Request /\ req[h].pc = "event" /\ RequestFits(h)
      /\ req \in [Handlers -> Request]
  BY DEF IInv, TypeOK, LookUpEvent, At
<1>3. c \in Calls /\ c # NoCall /\ events \in [Calls -> Seq(SUBSET Entry)]
  BY <1>2, AtWork DEF IInv, TypeOK
<1>4. PICK n \in 0..Len(events[c]) :
        req' = [req EXCEPT ![h].pc = "log", ![h].found = n]
  <2>1. \A n \in DOMAIN events[c] : n \in 0..Len(events[c])
    BY <1>3
  <2>2. 0 \in 0..Len(events[c])
    BY <1>3
  <2>. QED
    BY <2>1, <2>2 DEF LookUpEvent
<1>. DEFINE r == [req[h] EXCEPT !.pc = "log", !.found = n]
<1>5. req' = [req EXCEPT ![h] = r] /\ r \in Request /\ req'[h] = r
  <2>1. n \in Nat
    BY <1>3
  <2>2. r \in Request
    BY <1>2, <2>1 DEF Request, Pc
  <2>. QED
    BY <1>2, <1>4, <2>2 DEF Request
<1>6. r.pc = "log" /\ r.call = c /\ r.found = n
  BY <1>2 DEF Request
<1>. HIDE DEF r
<1>7. RequestFits(h)'
  <2>1. UNCHANGED <<finance, events>>
    BY DEF LookUpEvent
  <2>. QED
    BY <1>2, <1>3, <1>4, <1>5, <1>6, <2>1 DEF RequestFits
<1>. QED
  BY <1>1, <1>5, <1>7, QuietStep DEF LookUpEvent, IInv, TypeOK, history

LEMMA LogIInv ==
  ASSUME IInv, NEW h \in Handlers, Log(h)
  PROVE  IInv'
<1>. DEFINE c == req[h].call
            shown == EventItems(c, req[h].seen)
            n == req[h].found
<1>1. /\ req[h] \in Request /\ req[h].pc = "log" /\ RequestFits(h)
      /\ req \in [Handlers -> Request]
  BY DEF IInv, TypeOK, Log, At
<1>2. c \in Calls /\ n \in 0..Len(events[c]) /\ req[h].seen \in LeadRecord
  BY <1>1, AtWork DEF RequestFits
<1>3. finance \in [Calls -> Nat] /\ events \in [Calls -> Seq(SUBSET Entry)]
  BY DEF IInv, TypeOK
<1>4. shown \in SUBSET Entry /\ EventProves(c, shown)
  BY <1>2, EventItemsType, EventItemsProve
<1>. DEFINE list == IF n = 0 THEN Append(events[c], shown)
                    ELSE [events[c] EXCEPT ![n] = shown]
<1>5. events' = [events EXCEPT ![c] = list] /\ events'[c] = list
  BY <1>2, <1>3 DEF Log
<1>6. /\ list \in Seq(SUBSET Entry) /\ Len(list) >= Len(events[c]) /\ Len(list) > 0
      /\ \A i \in DOMAIN list :
           list[i] = shown \/ (i \in DOMAIN events[c] /\ list[i] = events[c][i])
  <2>1. events[c] \in Seq(SUBSET Entry)
    BY <1>2, <1>3
  <2>. HIDE DEF shown, n, c
  <2>2. CASE n = 0
    BY <1>4, <2>1, <2>2
  <2>3. CASE n # 0
    BY <1>2, <1>4, <2>1, <2>3
  <2>. QED
    BY <2>2, <2>3
<1>. HIDE DEF list
<1>7. events' \in [Calls -> Seq(SUBSET Entry)]
  BY <1>3, <1>5, <1>6
<1>8. \A d \in Calls : Len(events'[d]) \in Nat /\ Len(events'[d]) >= Len(events[d])
  BY <1>2, <1>3, <1>5, <1>6
<1>9. /\ req' = [req EXCEPT ![h] = Idle] /\ recorded' = recorded \union {c}
      /\ UNCHANGED <<lead, finance, byHand, begun, heard, repeated, overlapped, cut,
                     sent, unrecorded, invented>>
  BY DEF Log, Finish
<1>10. TypeOK'
  BY <1>2, <1>7, <1>9, IdleFits DEF IInv, TypeOK, byHand
<1>11. \A g \in Handlers : RequestFits(g)'
  <2>1. \A d \in Calls : finance'[d] \in Nat /\ finance'[d] >= finance[d]
    BY <1>3, <1>9
  <2>. QED
    BY <1>8, <1>9, <2>1, GoIdle, OthersFit
<1>12. EventsProve'
  <2>. SUFFICES ASSUME NEW d \in Calls, NEW i \in DOMAIN events'[d]
                PROVE  EventProves(d, events'[d][i])
    BY DEF EventsProve, EventProves
  <2>1. CASE d = c
    BY <1>4, <1>5, <1>6, <2>1 DEF IInv, EventsProve
  <2>2. CASE d # c
    BY <1>3, <1>5, <2>2 DEF IInv, EventsProve
  <2>. QED
    BY <2>1, <2>2
<1>13. RecordedKept'
  <2>. SUFFICES ASSUME NEW d \in recorded', LeavesEvent(d) PROVE Kept(d)'
    BY DEF RecordedKept
  <2>1. d \in Calls
    BY <1>10 DEF TypeOK
  <2>2. CASE d = c
    <3>1. IsPayment(c) => finance[c] > 0
      BY <1>1 DEF RequestFits
    <3>. QED
      BY <1>5, <1>6, <1>9, <2>2, <3>1 DEF Kept
  <2>3. CASE d # c
    <3>1. Kept(d)
      BY <1>9, <2>3 DEF IInv, RecordedKept
    <3>. QED
      BY <1>3, <1>5, <1>9, <2>1, <2>3, <3>1 DEF Kept
  <2>. QED
    BY <2>2, <2>3
<1>. QED
  BY <1>10, <1>11, <1>12, <1>13 DEF IInv

LEMMA StutterIInv == IInv /\ UNCHANGED vars => IInv'
  BY DEF IInv, TypeOK, RequestFits, EventsProve, RecordedKept, Kept, vars, byHand

LEMMA EnterIInv == IInv /\ Enter => IInv'
<1>. SUFFICES ASSUME IInv, Enter PROVE IInv'
  OBVIOUS
<1>1. UNCHANGED <<lead, finance, events, req, heard, recorded, repeated, overlapped, cut,
                  sent, unrecorded>>
  BY DEF Enter, EnterEvent, EnterPayment, history
<1>2. begun' \in 0..MaxCalls
  BY FunnelAssumption DEF Enter, EnterEvent, EnterPayment, IInv, TypeOK
<1>3. /\ manual' \subseteq SUBSET Entry /\ paidByHand' \in BOOLEAN
      /\ invented' \subseteq Entry
  <2>1. /\ manual \subseteq SUBSET Entry /\ paidByHand \in BOOLEAN
        /\ invented \subseteq Entry
    BY DEF IInv, TypeOK
  <2>2. CASE EnterPayment
    BY <2>1, <2>2 DEF EnterPayment, history
  <2>3. ASSUME NEW name \in DOMAIN Typed, EnterEvent(name)
        PROVE  /\ manual' \subseteq SUBSET Entry /\ paidByHand' \in BOOLEAN
               /\ invented' \subseteq Entry
    BY <2>1, <2>3, FirstType DEF EnterEvent, MadeUp
  <2>. QED
    BY <2>2, <2>3 DEF Enter
<1>4. TypeOK'
  BY <1>1, <1>2, <1>3 DEF IInv, TypeOK
<1>. QED
  BY <1>1, <1>4 DEF IInv, RequestFits, EventsProve, RecordedKept, Kept

LEMMA NextIInv == IInv /\ [Next]_vars => IInv'
<1>. SUFFICES ASSUME IInv, NEW h \in Handlers, Step(h) PROVE IInv'
  BY StutterIInv, EnterIInv DEF Next
<1>. QED
  BY BeginIInv, DecideIInv, RereadIInv, SendIInv, SendFailIInv, SendLostIInv,
     UpdateIInv, LookUpPaymentIInv, PayIInv, LookUpEventIInv, LogIInv, CutIInv
  DEF Step

THEOREM Invariance == Spec => []IInv
  BY InitIInv, NextIInv, PTL DEF Spec

\* The types of the module hold, and no lead keeps more evidence than Keep,
\* whatever handlers run and wherever they are cut off.
THEOREM TypeCorrect == Spec => []TypeOK
<1>1. IInv => TypeOK
  BY DEF IInv
<1>. QED
  BY <1>1, Invariance, PTL

\* What was carried out and answered is found by the proof of a sale for ever:
\* its event record shows it, whatever the lead has lost.
THEOREM RecordedProved == Spec => []RecordedStaysProved
<1>1. IInv => RecordedStaysProved
  <2>. SUFFICES ASSUME IInv, NEW c \in recorded PROVE Shown(c)
    BY DEF RecordedStaysProved
  <2>1. /\ c \in Calls /\ events[c] \in Seq(SUBSET Entry)
        /\ LeavesEvent(c) => Kept(c)
    BY DEF IInv, TypeOK, RecordedKept
  <2>2. CASE IsPayment(c)
    <3>1. finance[c] > 0
      BY <2>1, <2>2 DEF Kept, LeavesEvent, IsPayment
    <3>2. Paid
      BY <2>1, <2>2, <3>1 DEF Paid
    <3>3. Proof("paymentConfirmed")
      BY <3>2 DEF Proof
    <3>. QED
      BY <2>2, <3>3 DEF Shown, IsPayment
  <2>3. ASSUME LeavesEvent(c) PROVE 1 \in DOMAIN events[c] /\ EventProves(c, events[c][1])
    <3>1. events[c] # <<>>
      BY <2>1, <2>3 DEF Kept
    <3>2. 1 \in DOMAIN events[c]
      BY <2>1, <3>1
    <3>. QED
      BY <2>1, <3>2 DEF IInv, EventsProve
  <2>4. CASE c.op = "inbound"
    BY <2>1, <2>3, <2>4
    DEF Shown, Proof, Observed, EventShows, EventProves, LeavesEvent, IsPayment
  <2>5. CASE c.op = "lifecycle" /\ ~IsPayment(c)
    BY <2>1, <2>3, <2>5
    DEF Shown, Observed, EventShows, EventProves, LeavesEvent
  <2>6. CASE c.op \notin {"lifecycle", "inbound"}
    BY <2>6 DEF Shown, IsPayment
  <2>. QED
    BY <2>2, <2>4, <2>5, <2>6
<1>. QED
  BY <1>1, Invariance, PTL

-----------------------------------------------------------------------------
(* Payments *)

\* Handlers of one call at the same time are known to overlap; a payment is
\* added only by a handler that found none, and none was added since.
PaidInv ==
  /\ PaidOnce
  /\ \A g, h \in Handlers :
       g # h /\ req[g].call = req[h].call /\ req[h].call \in Calls
         => req[h].call \in overlapped
  /\ \A h \in Handlers :
       req[h].pc = "pay" => \/ req[h].call \in overlapped
                            \/ req[h].found = finance[req[h].call]

\* Nobody else writes a payment while a handler that does not overlap pays.
LEMMA NextPaidInv == IInv /\ IInv' /\ PaidInv /\ [Next]_vars => PaidInv'
<1>. SUFFICES ASSUME IInv, IInv', PaidInv, \E h \in Handlers : Step(h) PROVE PaidInv'
  <2>1. UNCHANGED vars \/ Enter => UNCHANGED <<finance, req, overlapped>>
    BY DEF vars, Enter, EnterEvent, EnterPayment, history
  <2>2. UNCHANGED <<finance, req, overlapped>> /\ PaidInv => PaidInv'
    BY DEF PaidInv, PaidOnce
  <2>. QED
    BY <2>1, <2>2 DEF Next
<1>1. PICK h \in Handlers : Step(h)
  OBVIOUS
<1>2. /\ req \in [Handlers -> Request] /\ finance \in [Calls -> Nat]
      /\ overlapped \subseteq Calls /\ Idle.pc # "pay" /\ Idle.call \notin Calls
      /\ \A g \in Handlers : req[g].pc # "idle" => req[g].call \in Calls
      /\ \A g \in Handlers : req[g] \in Request
  BY AtWork, IdleFits, NoCallApart DEF IInv, TypeOK
<1>3. ASSUME NEW r, req' = [req EXCEPT ![h] = r], UNCHANGED <<finance, overlapped>>,
             r.call \in Calls => r.call = req[h].call,
             r.pc = "pay" => r.found = finance[r.call]
      PROVE  PaidInv'
  BY <1>2, <1>3 DEF PaidInv, PaidOnce
<1>4. ASSUME req' = [req EXCEPT ![h] = Idle], UNCHANGED <<finance, overlapped>>
      PROVE  PaidInv'
  BY <1>2, <1>3, <1>4
<1>5. ASSUME NEW pc \in Pc \ {"pay"}, Goto(h, pc), UNCHANGED <<finance, overlapped>>
      PROVE  PaidInv'
  <2>. DEFINE r == [req[h] EXCEPT !.pc = pc]
  <2>1. req' = [req EXCEPT ![h] = r] /\ r.call = req[h].call /\ r.pc = pc
    BY <1>2, <1>5 DEF Goto, Request
  <2>. HIDE DEF r
  <2>. QED
    BY <1>3, <1>5, <2>1
<1>6. ASSUME NEW c \in Calls, Begin(h, c) PROVE PaidInv'
  <2>1. CASE Duplicate(c)
    BY <1>6, <2>1 DEF Begin, PaidInv, PaidOnce
  <2>2. CASE ~Duplicate(c)
    <3>. DEFINE r == [pc |-> IF c.op = "execute" THEN "decide" ELSE "update",
                      call |-> c, seen |-> lead, found |-> 0]
    <3>1. req' = [req EXCEPT ![h] = r] /\ r.call = c /\ r.pc # "pay"
      BY <1>6, <2>2 DEF Begin
    <3>. HIDE DEF r
    <3>2. /\ overlapped \subseteq overlapped' /\ UNCHANGED finance
          /\ \A g \in Handlers : req[g].call = c => c \in overlapped'
      BY <1>6, <2>2 DEF Begin
    <3>. QED
      BY <1>2, <3>1, <3>2 DEF PaidInv, PaidOnce
  <2>. QED
    BY <2>1, <2>2
<1>7. CASE Decide(h)
  BY <1>4, <1>5, <1>7 DEF Decide, history, Pc
<1>8. CASE Reread(h)
  <2>. DEFINE r == [req[h] EXCEPT !.pc = "send", !.seen = lead]
  <2>1. req' = [req EXCEPT ![h] = r] /\ r.call = req[h].call /\ r.pc = "send"
    BY <1>2, <1>8 DEF Reread, Request
  <2>. HIDE DEF r
  <2>. QED
    BY <1>3, <1>8, <2>1 DEF Reread, history
<1>9. CASE Send(h)
  BY <1>5, <1>9 DEF Send, Pc
<1>10. CASE SendFail(h)
  BY <1>4, <1>10 DEF SendFail, history
<1>11. CASE SendLost(h)
  BY <1>4, <1>11 DEF SendLost
<1>12. CASE Update(h)
  <2>1. CASE LeavesEvent(req[h].call)
    BY <1>5, <1>12, <2>1 DEF Update, Pc
  <2>2. CASE ~LeavesEvent(req[h].call)
    BY <1>4, <1>12, <2>2 DEF Update, Finish
  <2>. QED
    BY <2>1, <2>2
<1>13. CASE LookUpPayment(h)
  <2>. DEFINE r == [req[h] EXCEPT !.pc = "pay", !.found = finance[req[h].call]]
  <2>1. /\ req' = [req EXCEPT ![h] = r] /\ r.call = req[h].call
        /\ r.found = finance[req[h].call]
    BY <1>2, <1>13 DEF LookUpPayment, Request
  <2>. HIDE DEF r
  <2>. QED
    BY <1>3, <1>13, <2>1 DEF LookUpPayment, history
<1>14. CASE Pay(h)
  <2>. DEFINE c == req[h].call
              r == [req[h] EXCEPT !.pc = "event"]
  <2>1. /\ req' = [req EXCEPT ![h] = r] /\ r.call = c /\ r.pc = "event"
        /\ c \in Calls /\ UNCHANGED overlapped /\ req[h].pc = "pay"
    BY <1>2, <1>14 DEF Pay, At, Goto, Request, history
  <2>2. finance' = [finance EXCEPT ![c] = WithPayment(@, req[h].found)]
    BY <1>14 DEF Pay
  <2>. HIDE DEF r
  <2>3. PaidOnce'
    <3>. SUFFICES ASSUME NEW d \in Calls, finance'[d] > 1 PROVE d \in overlapped
      BY <2>1 DEF PaidOnce
    <3>1. CASE d # c
      BY <1>2, <2>1, <2>2, <3>1 DEF PaidInv, PaidOnce
    <3>2. CASE d = c
      <4>1. finance'[c] = WithPayment(finance[c], req[h].found) /\ finance[c] \in Nat
        BY <1>2, <2>1, <2>2
      <4>2. CASE finance[c] > 1
        BY <3>2, <4>2, <2>1 DEF PaidInv, PaidOnce
      <4>3. CASE ~(finance[c] > 1)
        BY <2>1, <3>2, <4>1, <4>3 DEF PaidInv, WithPayment
      <4>. QED
        BY <4>2, <4>3
    <3>. QED
      BY <3>1, <3>2
  <2>4. ASSUME NEW g \in Handlers, req'[g].pc = "pay"
        PROVE  \/ req'[g].call \in overlapped'
               \/ req'[g].found = finance'[req'[g].call]
    <3>1. g # h /\ req'[g] = req[g] /\ req[g].call \in Calls
      BY <1>2, <2>1, <2>4
    <3>2. CASE req[g].call = c
      BY <2>1, <3>1, <3>2 DEF PaidInv
    <3>3. CASE req[g].call # c
      BY <1>2, <2>1, <2>2, <2>4, <3>1, <3>3 DEF PaidInv
    <3>. QED
      BY <3>2, <3>3
  <2>5. ASSUME NEW f \in Handlers, NEW g \in Handlers, f # g,
               req'[f].call = req'[g].call, req'[g].call \in Calls
        PROVE  req'[g].call \in overlapped'
    BY <1>2, <2>1, <2>5 DEF PaidInv
  <2>. QED
    BY <2>3, <2>4, <2>5 DEF PaidInv
<1>15. CASE LookUpEvent(h)
  <2>1. PICK n : req' = [req EXCEPT ![h].pc = "log", ![h].found = n]
    BY <1>15 DEF LookUpEvent
  <2>. DEFINE r == [req[h] EXCEPT !.pc = "log", !.found = n]
  <2>2. req' = [req EXCEPT ![h] = r] /\ r.call = req[h].call /\ r.pc = "log"
    BY <1>2, <2>1 DEF Request
  <2>. HIDE DEF r
  <2>. QED
    BY <1>3, <1>15, <2>2 DEF LookUpEvent, history
<1>16. CASE Log(h)
  BY <1>4, <1>16 DEF Log, Finish
<1>17. CASE Cut(h)
  BY <1>4, <1>17 DEF Cut
<1>. QED
  BY <1>1, <1>6, <1>7, <1>8, <1>9, <1>10, <1>11, <1>12, <1>13, <1>14, <1>15,
     <1>16, <1>17 DEF Step

\* A payment is recorded twice only if two deliveries of it were under way
\* together, for any handlers, calls and ways of being cut off.
THEOREM PaymentsOnce == Spec => []PaidOnce
<1>1. Init => PaidInv
  BY IdleFits, NoCallApart DEF Init, PaidInv, PaidOnce
<1>2. PaidInv => PaidOnce
  BY DEF PaidInv
<1>. QED
  BY <1>1, <1>2, NextPaidInv, Invariance, PTL DEF Spec

-----------------------------------------------------------------------------
(* Answers *)

\* An external id belongs to one event of the cycle.
IdsApart ==
  \A c, d \in Calls : c.op = "lifecycle" /\ d.op = "lifecycle" /\ Identified(c)
                        /\ c.id = d.id => c = d

Named(c) == c.op = "lifecycle" /\ Identified(c)
Accounted(c) == Kept(c) \/ UnderWay(c) \/ c \in cut \/ ExtId(c.id) \in invented

\* An external id is in the lead's evidence only for a reason.
Truthful(list) ==
  \A c \in Calls : Named(c) /\ ExtId(c.id) \in Items(list) => Accounted(c)

\* An event that was ever received is accounted for, so that an id the owner types in
\* afterwards makes nothing go missing.
AnswersInv ==
  /\ AnsweredAccounted
  /\ \A c \in heard : Named(c) => Accounted(c)
  /\ Truthful(lead.evidence)
  /\ \A h \in Handlers : Truthful(req[h].seen.evidence)

LEMMA PromotedExt ==
  ASSUME NEW id
  PROVE  ExtId(id) \notin Items(Promoted) /\ ExtId(id) \notin Items(<<>>)
<1>1. Promoted \in Seq({Discovered, Plain})
  BY DEF Promoted
<1>2. ExtId(id) \notin {Discovered, Plain}
  BY DEF ExtId, Discovered, Plain
<1>3. \A i \in DOMAIN Promoted : Promoted[i] # ExtId(id)
  BY <1>1, <1>2
<1>. QED
  BY <1>3 DEF Items

LEMMA EntriesExt ==
  ASSUME NEW c \in Calls, NEW id, ExtId(id) \in Items(Entries(c))
  PROVE  Named(c) /\ id = c.id
<1>. DEFINE list == Entries(c)
<1>1. PICK i \in DOMAIN list : list[i] = ExtId(id)
  BY DEF Items
<1>2. \A a : ExtId(id) # Marker(a) /\ ExtId(id) # Did(a)
  BY DEF ExtId, Marker, Did
<1>3. ExtId(id) \notin {LeadId, Plain, Discovered, Conversation, Qualified, Executed}
  BY DEF ExtId, LeadId, Plain, Discovered, Conversation, Qualified, Executed
<1>4. CASE c.op = "lifecycle"
  <2>. DEFINE first == <<LeadId, Marker(c.what)>>
              second == IF Identified(c) THEN <<ExtId(c.id)>> ELSE <<>>
  <2>1. list = first \o second \o <<Plain>>
    BY <1>4 DEF Entries
  <2>2. Items(list) \subseteq {LeadId, Marker(c.what), Plain} \union Items(second)
    <3>. DEFINE S == {LeadId, Marker(c.what), Plain} \union Items(second)
    <3>0. second \in Seq(Items(second))
      <4>1. second \in Seq({ExtId(c.id)})
        <5>1. <<ExtId(c.id)>> \in Seq({ExtId(c.id)}) /\ <<>> \in Seq({ExtId(c.id)})
          OBVIOUS
        <5>. QED
          BY <5>1
      <4>. HIDE DEF second
      <4>. QED
        BY <4>1 DEF Items
    <3>1. first \in Seq(S) /\ second \in Seq(S) /\ <<Plain>> \in Seq(S)
      BY <3>0
    <3>. HIDE DEF S, first, second
    <3>2. list \in Seq(S)
      BY <2>1, <3>1, ConcatType
    <3>. QED
      BY <3>2 DEF Items, S
  <2>3. ExtId(id) \in Items(second)
    BY <1>2, <1>3, <2>2
  <2>4. Identified(c) /\ ExtId(id) = ExtId(c.id)
    BY <2>3 DEF Items
  <2>. QED
    BY <1>4, <2>4 DEF Named, ExtId
<1>5. CASE c.op # "lifecycle"
  <2>1. \A j \in DOMAIN list : list[j] # ExtId(id)
    BY <1>2, <1>3, <1>5 DEF Entries
  <2>. QED
    BY <1>1, <2>1
<1>. QED
  BY <1>4, <1>5

\* An answer that is accounted for stays so.
LEMMA StaysAccounted ==
  ASSUME IInv, IInv', NEW h \in Handlers, Step(h),
         NEW c \in Calls, Named(c), Accounted(c)
  PROVE  Accounted(c)'
<1>. USE DEF Named
<1>1. /\ req \in [Handlers -> Request] /\ finance \in [Calls -> Nat]
      /\ events \in [Calls -> Seq(SUBSET Entry)] /\ RequestFits(h)
      /\ req[h] \in Request /\ c # NoCall /\ LeavesEvent(c)
  BY NoCallApart DEF IInv, TypeOK, LeavesEvent
<1>2. cut \subseteq cut' /\ invented \subseteq invented'
  BY DEF Step, Begin, Decide, Reread, Send, SendFail, SendLost, Update,
         LookUpPayment, Pay, LookUpEvent, Log, Cut, history
<1>3. Kept(c) => Kept(c)'
  <2>1. UNCHANGED <<finance, events>> => (Kept(c) => Kept(c)')
    BY DEF Kept
  <2>2. CASE Pay(h)
    <3>1. req[h].call \in Calls
      BY <2>2, AtWork DEF Pay, At
    <3>2. finance'[c] >= finance[c] /\ finance'[c] \in Nat /\ UNCHANGED events
      BY <1>1, <2>2, <3>1 DEF Pay, WithPayment
    <3>. QED
      BY <1>1, <3>2 DEF Kept
  <2>3. CASE Log(h)
    <3>. DEFINE d == req[h].call
    <3>1. d \in recorded' /\ UNCHANGED finance
      BY <2>3 DEF Log, Finish
    <3>2. d = c => Kept(c)'
      BY <1>1, <3>1 DEF IInv, RecordedKept
    <3>3. d # c => events'[c] = events[c]
      BY <1>1, <2>3 DEF Log
    <3>. QED
      BY <3>1, <3>2, <3>3 DEF Kept
  <2>. QED
    BY <2>1, <2>2, <2>3
    DEF Step, Begin, Decide, Reread, Send, SendFail, SendLost, Update,
        LookUpPayment, LookUpEvent, Cut
<1>4. ASSUME NEW g \in Handlers, req[g].call = c PROVE Accounted(c)'
  <2>1. CASE g # h
    <3>1. req'[g] = req[g]
      BY <1>1, <2>1
      DEF Step, Begin, Decide, Reread, Send, SendFail, SendLost, Update, Goto,
          Finish, LookUpPayment, Pay, LookUpEvent, Log, Cut
    <3>. QED
      BY <1>4, <3>1 DEF Accounted, UnderWay
  <2>2. CASE g = h
    <3>1. c.op # "execute" /\ req[h].pc \notin {"idle", "decide", "reread", "send"}
      BY <1>1, <1>4, <2>2 DEF RequestFits
    <3>2. CASE Update(h) \/ LookUpPayment(h) \/ Pay(h) \/ LookUpEvent(h)
      <4>1. req'[h].call = c
        BY <1>1, <1>4, <2>2, <3>2
        DEF Update, Goto, LookUpPayment, Pay, LookUpEvent, Request
      <4>. QED
        BY <4>1 DEF Accounted, UnderWay
    <3>3. CASE Log(h)
      <4>1. c \in recorded'
        BY <1>4, <2>2, <3>3 DEF Log, Finish
      <4>. QED
        BY <1>1, <4>1 DEF IInv, RecordedKept, Accounted
    <3>4. CASE Cut(h)
      BY <1>4, <2>2, <3>4 DEF Cut, Accounted
    <3>. QED
      BY <3>1, <3>2, <3>3, <3>4
      DEF Step, Begin, Decide, Reread, Send, SendFail, SendLost, At
  <2>. QED
    BY <2>1, <2>2
<1>. QED
  BY <1>2, <1>3, <1>4 DEF Accounted, UnderWay

LEMMA NextAnswersInv ==
  ASSUME IdsApart
  PROVE  IInv /\ IInv' /\ AnswersInv /\ [Next]_vars => AnswersInv'
<1>. SUFFICES ASSUME IInv, IInv', AnswersInv, \E h \in Handlers : Step(h)
              PROVE  AnswersInv'
  <2>1. UNCHANGED vars \/ Enter =>
          /\ UNCHANGED <<lead, finance, events, req, heard, recorded, repeated, cut>>
          /\ invented \subseteq invented'
    BY DEF vars, Enter, EnterEvent, EnterPayment, history
  <2>2. /\ UNCHANGED <<lead, finance, events, req, heard, recorded, repeated, cut>>
        /\ invented \subseteq invented' /\ AnswersInv
        => AnswersInv'
    BY DEF AnswersInv, AnsweredAccounted, Truthful, Accounted, Kept, UnderWay
  <2>. QED
    BY <2>1, <2>2 DEF Next
<1>1. PICK h \in Handlers : Step(h)
  OBVIOUS
<1>2. \A c \in Calls : Named(c) /\ Accounted(c) => Accounted(c)'
  BY <1>1, StaysAccounted
<1>3. /\ req \in [Handlers -> Request] /\ lead \in LeadRecord
      /\ recorded' \subseteq Calls /\ repeated' \subseteq Calls
      /\ heard \subseteq Calls
  BY DEF IInv, TypeOK
<1>4. ASSUME NEW list, Truthful(list) PROVE Truthful(list)'
  <2>. SUFFICES ASSUME NEW c \in Calls, Named(c), ExtId(c.id) \in Items(list)
                PROVE  Accounted(c)'
    BY DEF Truthful, Named
  <2>. QED
    BY <1>2, <1>4 DEF Truthful
<1>5. Truthful(lead.evidence)'
  <2>1. CASE UNCHANGED lead
    BY <1>4, <2>1 DEF AnswersInv
  <2>2. CASE Update(h)
    <3>. DEFINE c == req[h].call
                seen == req[h].seen
    <3>1. c \in Calls /\ seen \in LeadRecord /\ lead'.evidence = Evidence(c, seen)
      BY <2>2, AtWork DEF Update, At
    <3>. SUFFICES ASSUME NEW d \in Calls, Named(d), ExtId(d.id) \in Items(Evidence(c, seen))
                  PROVE  Accounted(d)'
      BY <3>1 DEF Truthful, Named
    <3>2. ExtId(d.id) \notin Items(Promoted)
      BY PromotedExt
    <3>3. \/ ExtId(d.id) \in Items(seen.evidence) \/ ExtId(d.id) \in Items(Entries(c))
          \/ ExtId(d.id) \in Items(TypedIn(c))
      <4>1. CASE c.op # "promote" /\ ~Types(c)
        BY <3>1, <4>1, LatestItems, EntriesType, EvidenceCases DEF LeadRecord
      <4>. QED
        BY <3>2, <4>1, EvidenceCases
    <3>4. CASE ExtId(d.id) \in Items(seen.evidence)
      BY <1>2, <3>4 DEF AnswersInv, Truthful
    <3>5. CASE ExtId(d.id) \in Items(Entries(c))
      <4>1. d = c
        BY <3>1, <3>5, EntriesExt DEF IdsApart, Named
      <4>2. req'[h].call = c
        BY <1>3, <2>2, <4>1 DEF Update, Goto, LeavesEvent, Named, Request
      <4>. QED
        BY <4>1, <4>2 DEF Accounted, UnderWay
    <3>6. CASE ExtId(d.id) \in Items(TypedIn(c))
      <4>1. CASE Happened(ExtId(d.id))
        <5>1. PICK e \in heard : e.op = "lifecycle" /\ e.id = d.id
          BY <4>1 DEF Happened, Named, Identified
        <5>2. e = d
          BY <1>3, <5>1 DEF IdsApart, Named, Identified
        <5>. QED
          BY <1>2, <5>1, <5>2 DEF AnswersInv
      <4>2. CASE ~Happened(ExtId(d.id))
        BY <2>2, <3>6, <4>2 DEF Update, MadeUp, Accounted
      <4>. QED
        BY <4>1, <4>2
    <3>. QED
      BY <3>3, <3>4, <3>5, <3>6
  <2>. QED
    BY <1>1, <2>1, <2>2
    DEF Step, Begin, Decide, Reread, Send, SendFail, SendLost, LookUpPayment, Pay,
        LookUpEvent, Log, Cut
<1>6. ASSUME NEW g \in Handlers PROVE Truthful(req[g].seen.evidence)'
  <2>1. req'[g].seen \in {req[g].seen, lead, NoLead}
    BY <1>1, <1>3
    DEF Step, Begin, Decide, Reread, Send, SendFail, SendLost, Update, Goto, Finish,
        LookUpPayment, Pay, LookUpEvent, Log, Cut, Idle, Request
  <2>2. Truthful(NoLead.evidence)
    BY DEF Truthful, NoLead, Items
  <2>. QED
    BY <1>4, <2>1, <2>2 DEF AnswersInv
<1>7. AnsweredAccounted'
  <2>. SUFFICES ASSUME NEW c \in recorded' \union repeated', Named(c)
                PROVE  Accounted(c)'
    BY DEF AnsweredAccounted, Named, Accounted
  <2>1. c \in Calls /\ LeavesEvent(c)
    BY <1>3 DEF Named, LeavesEvent
  <2>2. CASE c \in recorded'
    BY <2>1, <2>2 DEF IInv, RecordedKept, Accounted
  <2>3. CASE c \in repeated
    BY <1>2, <2>1, <2>3 DEF AnswersInv, AnsweredAccounted, Named, Accounted
  <2>4. CASE c \in repeated' \ repeated
    <3>1. Duplicate(c)
      BY <1>1, <2>4
      DEF Step, Begin, Decide, Reread, Send, SendFail, SendLost, Update,
          LookUpPayment, Pay, LookUpEvent, Log, Cut, history
    <3>. QED
      BY <1>2, <2>1, <3>1 DEF Duplicate, AnswersInv, Truthful, Named
  <2>. QED
    BY <2>2, <2>3, <2>4
<1>8. ASSUME NEW c \in heard', Named(c) PROVE Accounted(c)'
  <2>1. CASE c \in heard
    BY <1>2, <1>3, <1>8, <2>1 DEF AnswersInv
  <2>2. CASE c \notin heard
    <3>1. c \in Calls /\ Begin(h, c)
      BY <1>1, <1>8, <2>2
      DEF Step, Begin, Decide, Reread, Send, SendFail, SendLost, Update,
          LookUpPayment, Pay, LookUpEvent, Log, Cut, history
    <3>2. CASE Duplicate(c)
      BY <1>2, <1>8, <3>1, <3>2 DEF Duplicate, AnswersInv, Truthful, Named
    <3>3. CASE ~Duplicate(c)
      <4>1. req'[h].call = c
        BY <1>3, <3>1, <3>3 DEF Begin
      <4>. QED
        BY <4>1 DEF Accounted, UnderWay
    <3>. QED
      BY <3>2, <3>3
  <2>. QED
    BY <2>1, <2>2
<1>. QED
  BY <1>5, <1>6, <1>7, <1>8 DEF AnswersInv, Named

\* When no external id is shared by two events of the cycle, an event that was
\* answered, as a duplicate or not, has its records unless a handler of it is
\* under way or was cut off, or the owner typed its id into the lead's evidence
\* before it was ever received.
THEOREM AnswersKept == IdsApart => (Spec => []AnsweredAccounted)
<1>. SUFFICES ASSUME IdsApart PROVE Spec => []AnsweredAccounted
  OBVIOUS
<1>1. Init => AnswersInv
  <2>1. \A id : ExtId(id) \notin Items(Promoted) /\ ExtId(id) \notin Items(<<>>)
    BY PromotedExt
  <2>. QED
    BY <2>1 DEF Init, AnswersInv, AnsweredAccounted, Truthful, Idle, NoLead
<1>2. AnswersInv => AnsweredAccounted
  BY DEF AnswersInv
<1>3. IInv /\ IInv' /\ AnswersInv /\ [Next]_vars => AnswersInv'
  BY NextAnswersInv
<1>. QED
  BY <1>1, <1>2, <1>3, Invariance, PTL DEF Spec


-----------------------------------------------------------------------------
(* What the proof of a sale claims *)

\* What an evidence list or an event record says happened did, or the owner made it up.
AllFounded(items) == \A item \in items : Happened(item) \/ item \in invented

\* A handler works on a call that was made, and leaves evidence of an action
\* only after the adapter carried it out.
WorkHappened(h) ==
  /\ req[h].pc # "idle" => req[h].call \in heard
  /\ req[h].call.op = "execute" /\ req[h].pc \in AfterSend => sent[req[h].call] > 0
  /\ AllFounded(Items(req[h].seen.evidence))

EvidenceInv ==
  /\ AllFounded(Items(lead.evidence))
  /\ \A h \in Handlers : WorkHappened(h)
  /\ \A c \in Calls : \A i \in DOMAIN events[c] : AllFounded(events[c][i])
  /\ \A shown \in manual : AllFounded(shown)
  /\ \A c \in Calls : finance[c] > 0 => c \in heard

\* Entries that say nothing happened.
Silent == {LeadId, Plain, Discovered, Executed}

LEMMA SilentHappened == AllFounded(Silent)
<1>. SUFFICES ASSUME NEW item \in Silent PROVE Happened(item)
  BY DEF AllFounded
<1>1. /\ \A a : item # Did(a) /\ item # Marker(a) /\ item # ExtId(a)
      /\ item # Conversation /\ item # Qualified
  <2>0. /\ LeadId[1] = "lead-id" /\ Plain[1] = "plain"
        /\ Discovered[1] = "discovered" /\ Executed[1] = "executed"
    BY DEF LeadId, Plain, Discovered, Executed
  <2>1. item[1] \in {"lead-id", "plain", "discovered", "executed"}
    BY <2>0 DEF Silent
  <2>2. \A a : Did(a)[1] = "action" /\ Marker(a)[1] = "marker" /\ ExtId(a)[1] = "external"
    BY DEF Did, Marker, ExtId
  <2>3. Conversation[1] = "conversation" /\ Qualified[1] = "qualification"
    BY DEF Conversation, Qualified
  <2>. QED
    BY <2>1, <2>2, <2>3
<1>. QED
  BY <1>1 DEF Happened

\* The entries that a call adds of its own.
Own(c) ==
  CASE c.op = "lifecycle" ->
         {Marker(c.what)} \union (IF Identified(c) THEN {ExtId(c.id)} ELSE {})
    [] c.op = "inbound" -> {Conversation}
    [] c.op = "qualify" -> {Qualified}
    [] c.op = "execute" -> {Did(c.what)}
    [] OTHER -> {}

LEMMA SeqItems ==
  ASSUME NEW S, NEW s \in Seq(S)
  PROVE  Items(s) \subseteq S
  BY DEF Items

LEMMA EntriesSay ==
  ASSUME NEW c \in Calls
  PROVE  Items(Entries(c)) \subseteq Silent \union Own(c)
<1>. DEFINE S == Silent \union Own(c)
<1>1. LeadId \in S /\ Plain \in S /\ Executed \in S
  BY DEF Silent
<1>3. CASE c.op = "lifecycle"
  <2>1. Marker(c.what) \in S /\ (Identified(c) => ExtId(c.id) \in S)
    BY <1>3 DEF Own
  <2>. HIDE DEF S
  <2>2. <<LeadId, Marker(c.what)>> \in Seq(S) /\ <<Plain>> \in Seq(S)
    BY <1>1, <2>1
  <2>3. PICK ids : ids = IF Identified(c) THEN <<ExtId(c.id)>> ELSE <<>>
    OBVIOUS
  <2>4. ids \in Seq(S)
    BY <2>1, <2>3
  <2>5. Entries(c) = <<LeadId, Marker(c.what)>> \o ids \o <<Plain>>
    BY <1>3, <2>3 DEF Entries
  <2>6. Entries(c) \in Seq(S)
    BY <2>2, <2>4, <2>5, ConcatType
  <2>. QED
    BY <2>6, SeqItems DEF S
<1>4. CASE c.op = "inbound"
  <2>1. Conversation \in S
    BY <1>4 DEF Own
  <2>. HIDE DEF S
  <2>2. Entries(c) = <<LeadId, Plain, Conversation, Plain>>
    BY <1>4 DEF Entries
  <2>3. Entries(c) \in Seq(S)
    BY <1>1, <2>1, <2>2
  <2>. QED
    BY <2>3, SeqItems DEF S
<1>5. CASE c.op = "qualify"
  <2>1. Qualified \in S
    BY <1>5 DEF Own
  <2>. HIDE DEF S
  <2>2. Entries(c) = <<Qualified, Plain, Qualified, Plain>>
    BY <1>5 DEF Entries
  <2>3. Entries(c) \in Seq(S)
    BY <1>1, <2>1, <2>2
  <2>. QED
    BY <2>3, SeqItems DEF S
<1>6. CASE c.op = "execute"
  <2>1. Did(c.what) \in S
    BY <1>6 DEF Own
  <2>. HIDE DEF S
  <2>2. Entries(c) = <<LeadId, Did(c.what), Plain, Executed, Plain>>
    BY <1>6 DEF Entries
  <2>3. Entries(c) \in Seq(S)
    BY <1>1, <2>1, <2>2
  <2>. QED
    BY <2>3, SeqItems DEF S
<1>7. CASE c.op = "archive"
  <2>. HIDE DEF S
  <2>2. Entries(c) = <<Plain, Plain, Plain, Plain, Plain>>
    BY <1>7 DEF Entries
  <2>3. Entries(c) \in Seq(S)
    BY <1>1, <2>2
  <2>. QED
    BY <2>3, SeqItems DEF S
<1>8. CASE c.op \notin {"lifecycle", "inbound", "qualify", "execute", "archive"}
  <2>1. Entries(c) = <<>>
    BY <1>8 DEF Entries
  <2>. QED
    BY <2>1 DEF Items
<1>. QED
  BY <1>3, <1>4, <1>5, <1>6, <1>7, <1>8

\* A call that was heard, and carried out if it is an action, says the truth.
LEMMA OwnHappened ==
  ASSUME NEW c \in Calls, c \in heard, c.op = "execute" => sent[c] > 0
  PROVE  AllFounded(Own(c))
<1>. SUFFICES ASSUME NEW item \in Own(c) PROVE Happened(item)
  BY DEF AllFounded
<1>1. c.op = "inbound" => c.what = "none"
  BY FunnelAssumption
<1>2. \A a, b : /\ Did(a) # Marker(b) /\ Did(a) # ExtId(b) /\ Marker(a) # ExtId(b)
                /\ Did(a) = Did(b) => a = b
                /\ Marker(a) = Marker(b) => a = b
                /\ ExtId(a) = ExtId(b) => a = b
  BY DEF Did, Marker, ExtId
<1>3. \A a : {Did(a), Marker(a), ExtId(a)} \cap {Conversation, Qualified} = {}
  BY DEF Did, Marker, ExtId, Conversation, Qualified
<1>4. Conversation # Qualified
  BY DEF Conversation, Qualified
<1>5. CASE c.op = "lifecycle"
  <2>1. item = Marker(c.what) \/ item = ExtId(c.id)
    BY <1>5 DEF Own
  <2>2. Heard("lifecycle", {c.what})
    BY <1>5 DEF Heard
  <2>. QED
    BY <1>2, <1>3, <1>5, <2>1, <2>2 DEF Happened
<1>6. CASE c.op = "inbound"
  <2>1. item = Conversation
    BY <1>6 DEF Own
  <2>2. Heard("inbound", {"none"})
    BY <1>1, <1>6 DEF Heard
  <2>. QED
    BY <1>3, <1>4, <2>1, <2>2 DEF Happened
<1>7. CASE c.op = "qualify"
  <2>1. item = Qualified
    BY <1>7 DEF Own
  <2>2. Heard("qualify", {"qualified", "nurture"})
    BY <1>7, CallType DEF Heard
  <2>. QED
    BY <1>3, <1>4, <2>1, <2>2 DEF Happened
<1>8. CASE c.op = "execute"
  <2>1. item = Did(c.what)
    BY <1>8 DEF Own
  <2>2. Sent(c.what)
    BY <1>8 DEF Sent
  <2>. QED
    BY <1>2, <1>3, <2>1, <2>2 DEF Happened
<1>. QED
  BY <1>5, <1>6, <1>7, <1>8 DEF Own

LEMMA EvidenceHappened ==
  ASSUME NEW c \in Calls, c \in heard, c.op = "execute" => sent[c] > 0,
         NEW seen \in LeadRecord, AllFounded(Items(seen.evidence)), ~Types(c)
  PROVE  AllFounded(Items(Evidence(c, seen)))
<1>1. AllFounded(Silent) /\ AllFounded(Own(c))
  BY SilentHappened, OwnHappened
<1>2. CASE c.op = "promote"
  <2>1. Promoted \in Seq(Silent)
    BY DEF Promoted, Silent
  <2>2. Items(Evidence(c, seen)) \subseteq Silent
    BY <1>2, <2>1, SeqItems, EvidenceCases
  <2>. QED
    BY <1>1, <2>2 DEF AllFounded
<1>3. CASE c.op # "promote"
  <2>1. seen.evidence \in Seq(Entry) /\ Entries(c) \in Seq(Entry)
    BY EntriesType DEF LeadRecord
  <2>2. Evidence(c, seen) = Latest(seen.evidence \o Entries(c))
    BY <1>3, EvidenceCases
  <2>3. Items(Evidence(c, seen)) \subseteq Items(seen.evidence) \union Items(Entries(c))
    BY <2>1, <2>2, LatestItems
  <2>4. Items(Entries(c)) \subseteq Silent \union Own(c)
    BY EntriesSay
  <2>. QED
    BY <1>1, <2>3, <2>4 DEF AllFounded
<1>. QED
  BY <1>2, <1>3

LEMMA EventHappened ==
  ASSUME NEW c \in Calls, c \in heard, c.op = "execute" => sent[c] > 0,
         NEW seen \in LeadRecord, AllFounded(Items(seen.evidence)), LeavesEvent(c)
  PROVE  AllFounded(EventItems(c, seen))
<1>1. AllFounded(Silent) /\ AllFounded(Own(c))
  BY SilentHappened, OwnHappened
<1>2. CASE c.op = "lifecycle"
  <2>2. EventItems(c, seen) \subseteq Silent \union Own(c)
    BY <1>2 DEF EventItems, Silent, Own
  <2>. QED
    BY <1>1, <2>2 DEF AllFounded
<1>3. CASE c.op = "promote"
  <2>1. EventItems(c, seen) \subseteq Silent
    BY <1>3 DEF EventItems, Silent
  <2>. QED
    BY <1>1, <2>1 DEF AllFounded
<1>4. CASE c.op \notin {"lifecycle", "promote"}
  <2>1. EventItems(c, seen) = Items(Evidence(c, seen))
    BY <1>4 DEF EventItems
  <2>2. ~Types(c)
    BY DEF Types, LeavesEvent
  <2>. QED
    BY <2>1, <2>2, EvidenceHappened
<1>. QED
  BY <1>2, <1>3, <1>4

\* What happened stays so.
LEMMA StaysHappened ==
  ASSUME IInv, IInv', Next
  PROVE  /\ heard \subseteq heard'
         /\ \A c \in Calls : sent'[c] >= sent[c]
         /\ \A items : AllFounded(items) => AllFounded(items)'
<1>1. sent \in [Calls -> Nat] /\ sent' \in [Calls -> Nat]
  BY DEF IInv, TypeOK
<1>2. heard \subseteq heard'
  BY DEF Next, Enter, EnterEvent, EnterPayment, Step, Begin, Decide, Reread, Send, SendFail, SendLost, Update,
         LookUpPayment, Pay, LookUpEvent, Log, Cut, history
<1>3. \A c \in Calls : sent'[c] >= sent[c]
  <2>1. CASE UNCHANGED sent
    BY <1>1, <2>1
  <2>2. CASE \E h \in Handlers : sent' = [sent EXCEPT ![req[h].call] = @ + 1]
    BY <1>1, <2>2
  <2>. QED
    BY <2>1, <2>2
    DEF Next, Enter, EnterEvent, EnterPayment, Step, Begin, Decide, Reread, Send, SendFail, SendLost, Update,
         LookUpPayment, Pay, LookUpEvent, Log, Cut, history
<1>4. \A a : Sent(a) => Sent(a)'
  BY <1>1, <1>3 DEF Sent
<1>5. \A op, what : Heard(op, what) => Heard(op, what)'
  BY <1>2 DEF Heard
<1>6. invented \subseteq invented'
  BY DEF Next, Enter, EnterEvent, EnterPayment, Step, Begin, Decide, Reread, Send, SendFail, SendLost, Update,
         LookUpPayment, Pay, LookUpEvent, Log, Cut, history
<1>7. ASSUME NEW item, Happened(item) PROVE Happened(item)'
  BY <1>2, <1>4, <1>5, <1>7 DEF Happened
<1>8. ASSUME NEW items, AllFounded(items) PROVE AllFounded(items)'
  BY <1>7, <1>8, <1>6 DEF AllFounded
<1>. QED
  BY <1>2, <1>3, <1>8

LEMMA EnterEvidence == IInv /\ IInv' /\ EvidenceInv /\ Enter => EvidenceInv'
<1>. SUFFICES ASSUME IInv, IInv', EvidenceInv, Enter PROVE EvidenceInv'
  OBVIOUS
<1>1. /\ UNCHANGED <<lead, finance, events, req, heard, sent>>
      /\ invented \subseteq invented'
  BY DEF Enter, EnterEvent, EnterPayment, history
<1>2. \A item : Happened(item) => Happened(item)'
  BY <1>1 DEF Happened, Heard, Sent
<1>3. \A items : AllFounded(items) => AllFounded(items)'
  BY <1>1, <1>2 DEF AllFounded
<1>4. ASSUME NEW shown \in manual' PROVE AllFounded(shown)'
  <2>1. CASE shown \in manual
    BY <1>3, <2>1 DEF EvidenceInv
  <2>2. CASE shown \notin manual
    <3>1. PICK name \in DOMAIN Typed : /\ shown = Items(First(Typed[name]))
                                       /\ MadeUp(First(Typed[name])) \subseteq invented'
      BY <1>4, <2>2 DEF Enter, EnterEvent, EnterPayment
    <3>. QED
      BY <1>2, <3>1 DEF MadeUp, AllFounded
  <2>. QED
    BY <2>1, <2>2
<1>5. AllFounded(Items(lead.evidence))'
  BY <1>1, <1>3 DEF EvidenceInv, AllFounded
<1>6. ASSUME NEW g \in Handlers PROVE WorkHappened(g)'
  BY <1>1, <1>3 DEF EvidenceInv, WorkHappened, AllFounded
<1>7. ASSUME NEW c \in Calls, NEW i \in DOMAIN events[c] PROVE AllFounded(events[c][i])'
  BY <1>1, <1>3, <1>7 DEF EvidenceInv, AllFounded
<1>. QED
  BY <1>1, <1>4, <1>5, <1>6, <1>7 DEF EvidenceInv

LEMMA NextEvidenceInv == IInv /\ IInv' /\ EvidenceInv /\ [Next]_vars => EvidenceInv'
<1>. SUFFICES ASSUME IInv, IInv', EvidenceInv, \E h \in Handlers : Step(h)
              PROVE  EvidenceInv'
  <2>1. UNCHANGED vars /\ EvidenceInv => EvidenceInv'
    BY DEF EvidenceInv, AllFounded, Happened, WorkHappened, Sent, Heard, vars
  <2>. QED
    BY <2>1, EnterEvidence DEF Next
<1>1. PICK h \in Handlers : Step(h)
  OBVIOUS
<1>2. /\ heard \subseteq heard'
      /\ \A c \in Calls : sent'[c] >= sent[c]
      /\ \A items : AllFounded(items) => AllFounded(items)'
  BY <1>1, StaysHappened DEF Next
<1>3. /\ req \in [Handlers -> Request] /\ lead \in LeadRecord
      /\ sent \in [Calls -> Nat] /\ sent' \in [Calls -> Nat]
      /\ finance \in [Calls -> Nat] /\ events \in [Calls -> Seq(SUBSET Entry)]
  BY DEF IInv, TypeOK
<1>4. /\ Idle.pc = "idle" /\ Idle.call.op # "execute" /\ Items(Idle.seen.evidence) = {}
  BY DEF Idle, NoCall, NoLead, Items
<1>5. ASSUME NEW g \in Handlers, req'[g] = req[g] PROVE WorkHappened(g)'
  <2>1. WorkHappened(g) /\ req[g] \in Request /\ RequestFits(g)
    BY <1>3 DEF EvidenceInv, IInv
  <2>2. req[g].pc # "idle" => req[g].call \in Calls
    BY AtWork
  <2>3. AllFounded(Items(req[g].seen.evidence))'
    BY <1>2, <1>5, <2>1 DEF WorkHappened
  <2>4. req[g].pc # "idle" => req[g].call \in heard'
    BY <1>2, <2>1 DEF WorkHappened
  <2>5. ASSUME req[g].call.op = "execute", req[g].pc \in AfterSend
        PROVE  sent'[req[g].call] > 0
    <3>1. req[g].call \in Calls /\ sent[req[g].call] > 0
      BY <2>1, <2>2, <2>5 DEF WorkHappened, AfterSend
    <3>. QED
      BY <1>2, <1>3, <3>1
  <2>. QED
    BY <1>5, <2>3, <2>4, <2>5 DEF WorkHappened
<1>6. ASSUME NEW r, req' = [req EXCEPT ![h] = r], WorkHappened(h)'
      PROVE  \A g \in Handlers : WorkHappened(g)'
  <2>1. \A g \in Handlers \ {h} : req'[g] = req[g]
    BY <1>3, <1>6
  <2>. QED
    BY <1>5, <1>6, <2>1
<1>7. ASSUME req' = [req EXCEPT ![h] = Idle] PROVE \A g \in Handlers : WorkHappened(g)'
  <2>1. req'[h] = Idle
    BY <1>3, <1>7
  <2>2. WorkHappened(h)'
    BY <1>4, <2>1 DEF WorkHappened, AllFounded
  <2>. QED
    BY <1>6, <1>7, <2>2
\* A handler goes on with its call.
<1>8. ASSUME NEW r, req' = [req EXCEPT ![h] = r], req[h].pc # "idle",
             r.call = req[h].call, r.seen \in {req[h].seen, lead},
             r.call.op = "execute" /\ r.pc \in AfterSend =>
               (req[h].pc \in AfterSend \/ sent'[r.call] > 0)
      PROVE  \A g \in Handlers : WorkHappened(g)'
  <2>1. req'[h] = r /\ WorkHappened(h) /\ r.call \in Calls
    BY <1>3, <1>8, AtWork DEF EvidenceInv
  <2>2. AllFounded(Items(r.seen.evidence))
    BY <1>8, <2>1 DEF WorkHappened, EvidenceInv
  <2>3. AllFounded(Items(req[h].seen.evidence))'
    <3>1. PICK T : T = Items(r.seen.evidence)
      OBVIOUS
    <3>2. AllFounded(T)'
      BY <1>2, <2>2, <3>1
    <3>3. Items(req'[h].seen.evidence) = T
      BY <2>1, <3>1
    <3>. QED
      BY <3>2, <3>3
  <2>4. r.call \in heard'
    BY <1>2, <1>8, <2>1 DEF WorkHappened
  <2>5. ASSUME r.call.op = "execute", r.pc \in AfterSend PROVE sent'[r.call] > 0
    <3>1. CASE req[h].pc \in AfterSend
      <4>1. sent[r.call] > 0
        BY <1>8, <2>1, <2>5, <3>1 DEF WorkHappened
      <4>. QED
        BY <1>2, <1>3, <2>1, <4>1
    <3>. QED
      BY <1>8, <2>5, <3>1
  <2>6. WorkHappened(h)'
    BY <2>1, <2>3, <2>4, <2>5 DEF WorkHappened
  <2>. QED
    BY <1>6, <1>8, <2>6
<1>9. ASSUME NEW pc, Goto(h, pc), req[h].pc # "idle",
             req[h].call.op = "execute" /\ pc \in AfterSend =>
               (req[h].pc \in AfterSend \/ sent'[req[h].call] > 0)
      PROVE  \A g \in Handlers : WorkHappened(g)'
  <2>1. PICK r : r = [req[h] EXCEPT !.pc = pc]
    OBVIOUS
  <2>2. r.call = req[h].call /\ r.seen = req[h].seen /\ r.pc = pc
    BY <1>3, <2>1 DEF Request
  <2>3. req' = [req EXCEPT ![h] = r]
    BY <1>3, <1>9, <2>1 DEF Goto
  <2>. QED
    BY <1>8, <1>9, <2>2, <2>3
\* The handlers.
<1>10. \A g \in Handlers : WorkHappened(g)'
  <2>1. ASSUME NEW c \in Calls, Begin(h, c) PROVE \A g \in Handlers : WorkHappened(g)'
    <3>1. CASE Duplicate(c)
      BY <1>5, <2>1, <3>1 DEF Begin
    <3>2. CASE ~Duplicate(c)
      <4>1. PICK r : r = [pc |-> IF c.op = "execute" THEN "decide" ELSE "update",
                          call |-> c, seen |-> lead, found |-> 0]
        OBVIOUS
      <4>2. /\ r.call = c /\ r.seen = lead
            /\ r.call.op = "execute" => r.pc = "decide"
        BY <4>1
      <4>3. req' = [req EXCEPT ![h] = r] /\ c \in heard'
        BY <2>1, <3>2, <4>1 DEF Begin
      <4>4. req'[h] = r
        BY <1>3, <4>3
      <4>5. AllFounded(Items(req[h].seen.evidence))'
        <5>1. PICK T : T = Items(lead.evidence)
          OBVIOUS
        <5>2. AllFounded(T)'
          BY <1>2, <5>1 DEF EvidenceInv
        <5>3. Items(req'[h].seen.evidence) = T
          BY <4>2, <4>4, <5>1
        <5>. QED
          BY <5>2, <5>3
      <4>6. WorkHappened(h)'
        BY <4>2, <4>3, <4>4, <4>5 DEF WorkHappened, AfterSend
      <4>. QED
        BY <1>6, <4>3, <4>6
    <3>. QED
      BY <3>1, <3>2
  <2>2. CASE Decide(h)
    BY <1>7, <1>9, <2>2 DEF Decide, At, AfterSend
  <2>3. CASE Reread(h)
    <3>1. PICK r : r = [req[h] EXCEPT !.pc = "send", !.seen = lead]
      OBVIOUS
    <3>2. r.call = req[h].call /\ r.seen = lead /\ r.pc = "send"
      BY <1>3, <3>1 DEF Request
    <3>3. req' = [req EXCEPT ![h] = r] /\ req[h].pc # "idle"
      BY <1>3, <2>3, <3>1 DEF Reread, At
    <3>. QED
      BY <1>8, <3>2, <3>3 DEF AfterSend
  <2>4. CASE Send(h)
    <3>1. req[h].pc = "send" /\ Goto(h, "update")
          /\ sent' = [sent EXCEPT ![req[h].call] = @ + 1]
      BY <2>4 DEF Send, At
    <3>2. req[h].call \in Calls
      BY <3>1, AtWork
    <3>3. sent'[req[h].call] > 0
      BY <1>3, <3>1, <3>2
    <3>. QED
      BY <1>9, <3>1, <3>3
  <2>5. CASE SendFail(h)
    BY <1>7, <2>5 DEF SendFail
  <2>6. CASE SendLost(h)
    BY <1>7, <2>6 DEF SendLost
  <2>7. CASE Update(h)
    BY <1>7, <1>9, <2>7 DEF Update, Finish, At, AfterSend
  <2>8. CASE LookUpPayment(h)
    <3>1. PICK r : r = [req[h] EXCEPT !.pc = "pay", !.found = finance[req[h].call]]
      OBVIOUS
    <3>2. r.call = req[h].call /\ r.seen = req[h].seen /\ r.pc = "pay"
      BY <1>3, <3>1 DEF Request
    <3>3. req' = [req EXCEPT ![h] = r] /\ req[h].pc # "idle"
      BY <1>3, <2>8, <3>1 DEF LookUpPayment, At
    <3>. QED
      BY <1>8, <3>2, <3>3 DEF AfterSend
  <2>9. CASE Pay(h)
    <3>1. req[h].pc = "pay" /\ Goto(h, "event") /\ RequestFits(h)
      BY <2>9 DEF Pay, At, IInv
    <3>2. req[h].call.op # "execute"
      BY <3>1 DEF RequestFits, IsPayment
    <3>. QED
      BY <1>9, <3>1, <3>2
  <2>10. CASE LookUpEvent(h)
    <3>0. PICK n : req' = [req EXCEPT ![h].pc = "log", ![h].found = n]
      BY <2>10 DEF LookUpEvent
    <3>1. PICK r : r = [req[h] EXCEPT !.pc = "log", !.found = n]
      OBVIOUS
    <3>2. r.call = req[h].call /\ r.seen = req[h].seen /\ r.pc = "log"
      BY <1>3, <3>1 DEF Request
    <3>3. req' = [req EXCEPT ![h] = r] /\ req[h].pc = "event"
      BY <1>3, <2>10, <3>0, <3>1 DEF LookUpEvent, At
    <3>. QED
      BY <1>8, <3>2, <3>3 DEF AfterSend
  <2>11. CASE Log(h)
    BY <1>7, <2>11 DEF Log, Finish
  <2>12. CASE Cut(h)
    BY <1>7, <2>12 DEF Cut
  <2>. QED
    BY <1>1, <2>1, <2>2, <2>3, <2>4, <2>5, <2>6, <2>7, <2>8, <2>9, <2>10, <2>11, <2>12
    DEF Step
\* The call of a handler about to write tells the truth.
<1>11. ASSUME req[h].pc \in AfterSend
       PROVE  /\ req[h].call \in Calls /\ req[h].call \in heard
              /\ req[h].call.op = "execute" => sent[req[h].call] > 0
              /\ req[h].seen \in LeadRecord
              /\ AllFounded(Items(req[h].seen.evidence))
  BY <1>11, AtWork DEF EvidenceInv, WorkHappened, AfterSend
<1>12. AllFounded(Items(lead.evidence))'
  <2>1. CASE UNCHANGED lead
    BY <1>2, <2>1 DEF EvidenceInv
  <2>2. CASE Update(h)
    <3>1. PICK c, seen : c = req[h].call /\ seen = req[h].seen
      OBVIOUS
    <3>2. lead'.evidence = Evidence(c, seen) /\ req[h].pc \in AfterSend
      BY <2>2, <3>1 DEF Update, At, AfterSend
    <3>4. PICK T : T = Items(Evidence(c, seen))
      OBVIOUS
    <3>5. AllFounded(T)'
      <4>1. CASE ~Types(c)
        <5>1. AllFounded(T)
          BY <1>11, <3>1, <3>2, <3>4, <4>1, EvidenceHappened
        <5>. QED
          BY <1>2, <5>1
      <4>2. CASE Types(c)
        <5>1. T = Items(TypedIn(c))
          BY <3>4, <4>2, EvidenceCases
        <5>2. PICK U : U = {item \in T : Happened(item)}
          OBVIOUS
        <5>3. AllFounded(U)'
          <6>1. AllFounded(U)
            BY <5>2 DEF AllFounded
          <6>. QED
            BY <1>2, <6>1
        <5>4. T \ U \subseteq invented'
          BY <2>2, <3>1, <5>1, <5>2 DEF Update, MadeUp
        <5>. QED
          BY <5>3, <5>4 DEF AllFounded
      <4>. QED
        BY <4>1, <4>2
    <3>6. Items(lead'.evidence) = T
      BY <3>2, <3>4
    <3>. QED
      BY <3>5, <3>6
  <2>. QED
    BY <1>1, <2>1, <2>2
    DEF Step, Begin, Decide, Reread, Send, SendFail, SendLost, LookUpPayment, Pay,
        LookUpEvent, Log, Cut
<1>13. ASSUME NEW c \in Calls, NEW i \in DOMAIN events'[c]
       PROVE  AllFounded(events[c][i])'
  <2>0. ASSUME AllFounded(events'[c][i]) PROVE AllFounded(events[c][i])'
    <3>1. PICK T : T = events'[c][i]
      OBVIOUS
    <3>2. AllFounded(T)'
      BY <1>2, <2>0, <3>1
    <3>. QED
      BY <3>1, <3>2
  <2>1. CASE events'[c] = events[c]
    <3>1. AllFounded(events'[c][i])
      BY <1>13, <2>1 DEF EvidenceInv
    <3>. QED
      BY <2>0, <3>1
  <2>2. CASE Log(h) /\ c = req[h].call
    <3>1. PICK shown : shown = EventItems(c, req[h].seen)
      OBVIOUS
    <3>2. req[h].pc \in AfterSend
      BY <2>2 DEF Log, At, AfterSend
    <3>3. AllFounded(shown)
      <4>1. LeavesEvent(c)
        BY <2>2 DEF IInv, RequestFits, Log, At
      <4>. QED
        BY <1>11, <2>2, <3>1, <3>2, <4>1, EventHappened
    <3>4. PICK n : n = req[h].found
      OBVIOUS
    <3>5. events'[c] = IF n = 0 THEN Append(events[c], shown)
                       ELSE [events[c] EXCEPT ![n] = shown]
      BY <1>3, <2>2, <3>1, <3>4 DEF Log
    <3>6. events[c] \in Seq(SUBSET Entry)
      BY <1>3
    <3>7. \/ events'[c][i] = shown
          \/ i \in DOMAIN events[c] /\ events'[c][i] = events[c][i]
      BY <1>13, <3>5, <3>6
    <3>8. AllFounded(events'[c][i])
      BY <3>3, <3>7 DEF EvidenceInv
    <3>. QED
      BY <2>0, <3>8
  <2>3. CASE Log(h) /\ c # req[h].call
    <3>1. events'[c] = events[c]
      BY <1>3, <2>3 DEF Log
    <3>. QED
      BY <2>1, <3>1
  <2>. QED
    BY <1>1, <2>1, <2>2, <2>3
    DEF Step, Begin, Decide, Reread, Send, SendFail, SendLost, Update, LookUpPayment,
        Pay, LookUpEvent, Cut
<1>14. ASSUME NEW c \in Calls, finance'[c] > 0 PROVE c \in heard'
  <2>1. CASE finance'[c] = finance[c]
    BY <1>2, <1>14, <2>1 DEF EvidenceInv
  <2>2. CASE Pay(h) /\ c = req[h].call
    BY <1>2, <2>2 DEF Pay, At, EvidenceInv, WorkHappened
  <2>3. CASE Pay(h) /\ c # req[h].call
    <3>1. finance'[c] = finance[c]
      BY <1>3, <2>3 DEF Pay
    <3>. QED
      BY <2>1, <3>1
  <2>. QED
    BY <1>1, <2>1, <2>2, <2>3
    DEF Step, Begin, Decide, Reread, Send, SendFail, SendLost, Update, LookUpPayment,
        LookUpEvent, Log, Cut
<1>15. ASSUME NEW shown \in manual' PROVE AllFounded(shown)'
  <2>1. UNCHANGED manual
    BY <1>1
    DEF Step, Begin, Decide, Reread, Send, SendFail, SendLost, Update, LookUpPayment,
        Pay, LookUpEvent, Log, Cut, byHand
  <2>. QED
    BY <1>2, <1>15, <2>1 DEF EvidenceInv
<1>. QED
  BY <1>10, <1>12, <1>13, <1>14, <1>15 DEF EvidenceInv

\* The proof of a sale claims nothing that did not happen, for any handlers,
\* calls, window of evidence and lists the owner types in: not a message the adapter did
\* not carry out, nor an event of the cycle that no call told, unless the owner typed that
\* entry in before it had happened or entered the payment by hand.
THEOREM ProofTruthful == Spec => []ProvedOnlyIfDone
<1>1. Init => EvidenceInv
  <2>. SUFFICES ASSUME Init PROVE EvidenceInv
    OBVIOUS
  <2>1. Promoted \in Seq(Silent)
    BY DEF Promoted, Silent
  <2>2. Items(lead.evidence) \subseteq Silent
    BY <2>1, SeqItems DEF Init
  <2>3. AllFounded(Items(lead.evidence))
    BY <2>2, SilentHappened DEF AllFounded
  <2>4. /\ Idle.pc = "idle" /\ Idle.call.op # "execute" /\ Items(Idle.seen.evidence) = {}
    BY DEF Idle, NoCall, NoLead, Items
  <2>5. \A h \in Handlers : WorkHappened(h)
    BY <2>4 DEF Init, WorkHappened, AllFounded
  <2>. QED
    BY <2>3, <2>5 DEF Init, EvidenceInv
<1>2. EvidenceInv => ProvedOnlyIfDone
  <2>. SUFFICES ASSUME EvidenceInv PROVE ProvedOnlyIfDone
    OBVIOUS
  <2>1. ASSUME NEW item, Observed(item) PROVE Happened(item) \/ item \in invented
    <3>1. CASE LeadShows(item)
      BY <3>1 DEF LeadShows, EvidenceInv, AllFounded
    <3>2. CASE EventShows(item)
      BY <3>2 DEF EventShows, EvidenceInv, AllFounded
    <3>. QED
      BY <2>1, <3>1, <3>2 DEF Observed
  <2>2. ASSUME NEW item, LeadShows(item) PROVE Happened(item) \/ item \in invented
    BY <2>1, <2>2 DEF Observed
  <2>3. \A a \in Action : LeadShows(Did(a)) => Sent(a) \/ Did(a) \in invented
    BY <2>2 DEF Happened
  <2>4. \A e \in Cycle :
          Observed(Marker(e)) => Heard("lifecycle", {e}) \/ Marker(e) \in invented
    BY <2>1 DEF Happened
  <2>5. Observed(Conversation) => Heard("inbound", {"none"}) \/ Conversation \in invented
    BY <2>1 DEF Happened
  <2>6. LeadShows(Qualified) =>
          Heard("qualify", {"qualified", "nurture"}) \/ Qualified \in invented
    BY <2>2 DEF Happened
  <2>7. Paid => Heard("lifecycle", {"payment-confirmed"}) \/ paidByHand
    BY DEF Paid, IsPayment, EvidenceInv, Heard
  <2>8. /\ {"contact", "offer", "follow-up"} \subseteq Action
        /\ {"checkout-completed", "customer-created", "fulfillment-started",
            "follow-up-not-required"} \subseteq Cycle
    BY DEF Action, Cycle
  <2>9. ASSUME NEW part \in DOMAIN MarkerOf, Proof(part)
        PROVE  \/ Heard("lifecycle", {MarkerOf[part]})
               \/ Marker(MarkerOf[part]) \in invented
    <3>1. MarkerOf[part] \in Cycle /\ Observed(Marker(MarkerOf[part]))
      <4>1. part \in {"checkoutCompleted", "customerCreated", "fulfillmentStarted"}
        BY DEF MarkerOf
      <4>2. CASE part = "checkoutCompleted"
        BY <2>8, <2>9, <4>2 DEF MarkerOf, Proof
      <4>3. CASE part = "customerCreated"
        BY <2>8, <2>9, <4>3 DEF MarkerOf, Proof
      <4>4. CASE part = "fulfillmentStarted"
        BY <2>8, <2>9, <4>4 DEF MarkerOf, Proof
      <4>. QED
        BY <4>1, <4>2, <4>3, <4>4
    <3>. QED
      BY <2>4, <3>1
  <2>10. /\ Proof("contactSent") => Sent("contact") \/ Did("contact") \in invented
         /\ Proof("offerSent") => Sent("offer") \/ Did("offer") \in invented
         /\ Proof("paymentConfirmed") =>
              Heard("lifecycle", {"payment-confirmed"}) \/ paidByHand
    BY <2>3, <2>7, <2>8 DEF Proof
  <2>11. Proof("followUpSatisfied") =>
           \/ Sent("follow-up") \/ Heard("lifecycle", {"follow-up-not-required"})
           \/ {Did("follow-up"), Marker("follow-up-not-required")} \cap invented # {}
    BY <2>3, <2>4, <2>8 DEF Proof
  <2>12. /\ Proof("conversationObserved") =>
              Heard("inbound", {"none"}) \/ Conversation \in invented
         /\ Proof("qualificationRecorded") =>
              Heard("qualify", {"qualified", "nurture"}) \/ Qualified \in invented
    BY <2>5, <2>6 DEF Proof
  <2>. QED
    BY <2>9, <2>10, <2>11, <2>12 DEF ProvedOnlyIfDone
<1>. QED
  BY <1>1, <1>2, NextEvidenceInv, Invariance, PTL DEF Spec

-----------------------------------------------------------------------------
(* Actions and their records *)

\* The event record of an action is always a new one.
FreshRecord(h) ==
  req[h].pc = "log" /\ req[h].call.op = "execute" => req[h].found = 0

ActionsInv ==
  /\ ActionsAccounted
  /\ \A h \in Handlers : FreshRecord(h)

LEMMA PendingFinite ==
  ASSUME NEW c
  PROVE  IsFiniteSet(Pending(c)) /\ Cardinality(Pending(c)) \in Nat
<1>1. IsFiniteSet(Handlers) /\ Pending(c) \subseteq Handlers
  BY FunnelAssumption DEF Pending
<1>. QED
  BY <1>1, FS_Subset, FS_CardinalityType

\* What the step of a handler h does to the handlers that still have to write
\* the record of the action c.
LEMMA PendingSame ==
  ASSUME NEW c, NEW P, NEW Q, P = Pending(c), Q = P
  PROVE  Cardinality(Q) = Cardinality(Pending(c))
  OBVIOUS

LEMMA PendingIn ==
  ASSUME NEW P, IsFiniteSet(P), NEW h, h \notin P
  PROVE  Cardinality(P \union {h}) = Cardinality(P) + 1
  BY FS_AddElement

LEMMA PendingOut ==
  ASSUME NEW P, IsFiniteSet(P), NEW h \in P
  PROVE  Cardinality(P \ {h}) = Cardinality(P) - 1
  BY FS_RemoveElement

LEMMA NextActionsInv == IInv /\ IInv' /\ ActionsInv /\ [Next]_vars => ActionsInv'
<1>. SUFFICES ASSUME IInv, IInv', ActionsInv, \E h \in Handlers : Step(h)
              PROVE  ActionsInv'
  <2>1. UNCHANGED vars \/ Enter => UNCHANGED <<req, events, sent, unrecorded>>
    BY DEF vars, Enter, EnterEvent, EnterPayment, history
  <2>2. UNCHANGED <<req, events, sent, unrecorded>> /\ ActionsInv => ActionsInv'
    BY DEF ActionsInv, ActionsAccounted, Pending, FreshRecord
  <2>. QED
    BY <2>1, <2>2 DEF Next
<1>1. PICK h \in Handlers : Step(h)
  OBVIOUS
<1>2. /\ req \in [Handlers -> Request] /\ req[h] \in Request
      /\ {sent, unrecorded} \subseteq [Calls -> Nat]
      /\ events \in [Calls -> Seq(SUBSET Entry)]
      /\ \A c \in Calls : Len(events[c]) \in Nat
      /\ RequestFits(h)
  BY DEF IInv, TypeOK
<1>3. PICK work : work = req[h].call
  OBVIOUS
<1>4. /\ Idle.pc = "idle" /\ Idle.call = NoCall
  BY IdleFits
<1>5. \A c \in Calls : c # NoCall
  BY NoCallApart
\* The other handlers do what they did.
<1>6. \A g \in Handlers \ {h} : req'[g] = req[g]
  BY <1>1, <1>2
  DEF Step, Begin, Decide, Reread, Send, SendFail, SendLost, Update, Goto, Finish,
      LookUpPayment, Pay, LookUpEvent, Log, Cut
<1>7. ASSUME NEW c \in Calls PROVE Pending(c) \ {h} = Pending(c)' \ {h}
  BY <1>6 DEF Pending
<1>8. ASSUME NEW c \in Calls
      PROVE  /\ h \in Pending(c) <=> work = c /\ req[h].pc \in AfterSend
             /\ h \in Pending(c)' <=> req'[h].call = c /\ req'[h].pc \in AfterSend
  BY <1>3 DEF Pending
<1>9. ASSUME NEW c \in Calls, h \in Pending(c) <=> h \in Pending(c)'
      PROVE  Cardinality(Pending(c)') = Cardinality(Pending(c))
  <2>1. Pending(c)' = Pending(c)
    BY <1>7, <1>9
  <2>. QED
    BY <2>1
<1>10. ASSUME NEW c \in Calls, h \notin Pending(c), h \in Pending(c)'
       PROVE  Cardinality(Pending(c)') = Cardinality(Pending(c)) + 1
  <2>1. PICK P, Q : P = Pending(c) /\ Q = Pending(c)'
    OBVIOUS
  <2>2. Q = P \union {h}
    BY <1>7, <1>10, <2>1
  <2>3. IsFiniteSet(P) /\ h \notin P
    BY <1>10, <2>1, PendingFinite
  <2>. QED
    BY <2>1, <2>2, <2>3, PendingIn
<1>11. ASSUME NEW c \in Calls, h \in Pending(c), h \notin Pending(c)'
       PROVE  Cardinality(Pending(c)') = Cardinality(Pending(c)) - 1
  <2>1. PICK P, Q : P = Pending(c) /\ Q = Pending(c)'
    OBVIOUS
  <2>2. Q = P \ {h}
    BY <1>7, <1>11, <2>1
  <2>3. IsFiniteSet(P) /\ h \in P
    BY <1>11, <2>1, PendingFinite
  <2>. QED
    BY <2>1, <2>2, <2>3, PendingOut
<1>12. \A c \in Calls : Cardinality(Pending(c)) \in Nat
  BY PendingFinite
\* The step adds up, whatever it changes.
<1>13. ASSUME NEW pc, NEW call, req'[h].pc = pc, req'[h].call = call,
              \A c \in Calls : c.op = "execute" =>
                LET before == IF work = c /\ req[h].pc \in AfterSend THEN 1 ELSE 0
                    after == IF call = c /\ pc \in AfterSend THEN 1 ELSE 0
                IN sent'[c] - sent[c] =
                     (Len(events'[c]) - Len(events[c])) + (after - before)
                       + (unrecorded'[c] - unrecorded[c])
       PROVE  ActionsAccounted'
  <2>. SUFFICES ASSUME NEW c \in Calls, c.op = "execute"
                PROVE  sent'[c] = Len(events'[c]) + Cardinality(Pending(c)')
                                    + unrecorded'[c]
    BY DEF ActionsAccounted
  <2>1. PICK p, q : p = Cardinality(Pending(c)) /\ q = Cardinality(Pending(c)')
    OBVIOUS
  <2>2. p \in Nat
    BY <1>12, <2>1
  <2>3. PICK before, after :
          /\ before = IF work = c /\ req[h].pc \in AfterSend THEN 1 ELSE 0
          /\ after = IF call = c /\ pc \in AfterSend THEN 1 ELSE 0
    OBVIOUS
  <2>4. q = p + (after - before)
    BY <1>8, <1>9, <1>10, <1>11, <1>13, <2>1, <2>2, <2>3
  <2>5. sent[c] = Len(events[c]) + p + unrecorded[c]
    BY <2>1 DEF ActionsInv, ActionsAccounted
  <2>6. sent'[c] - sent[c] =
          (Len(events'[c]) - Len(events[c])) + (after - before)
            + (unrecorded'[c] - unrecorded[c])
    BY <1>13, <2>3
  <2>7. /\ sent[c] \in Nat /\ sent'[c] \in Nat /\ unrecorded[c] \in Nat
        /\ unrecorded'[c] \in Nat /\ Len(events[c]) \in Nat /\ Len(events'[c]) \in Nat
    BY DEF IInv, TypeOK
  <2>8. before \in {0, 1} /\ after \in {0, 1}
    BY <2>3
  <2>9. PICK s, t, m, n, u, v :
          /\ s = sent[c] /\ t = sent'[c] /\ m = Len(events[c]) /\ n = Len(events'[c])
          /\ u = unrecorded[c] /\ v = unrecorded'[c]
    OBVIOUS
  <2>10. /\ s \in Nat /\ t \in Nat /\ m \in Nat /\ n \in Nat /\ u \in Nat /\ v \in Nat
    BY <2>7, <2>9
  <2>11. s = m + p + u /\ t - s = (n - m) + (after - before) + (v - u)
    BY <2>5, <2>6, <2>9
  <2>12. t = n + q + v
    BY <2>2, <2>4, <2>8, <2>10, <2>11
  <2>. QED
    BY <2>1, <2>9, <2>12
<1>14. ASSUME FreshRecord(h)' PROVE \A g \in Handlers : FreshRecord(g)'
  BY <1>6, <1>14 DEF ActionsInv, FreshRecord
\* A handler goes to pc, or to rest, and nothing is counted.
<1>15. ASSUME NEW pc, NEW call, req'[h].pc = pc, req'[h].call = call,
              UNCHANGED <<sent, events, unrecorded>>,
              \A c \in Calls : c.op = "execute" =>
                (work = c /\ req[h].pc \in AfterSend
                   <=> call = c /\ pc \in AfterSend)
       PROVE  ActionsAccounted'
  <2>1. \A c \in Calls : sent[c] \in Nat /\ unrecorded[c] \in Nat
    BY <1>2
  <2>. QED
    BY <1>2, <1>13, <1>15, <2>1
<1>16. ASSUME NEW c \in Calls, Begin(h, c) PROVE ActionsInv'
  <2>1. req[h].pc = "idle" /\ UNCHANGED <<sent, events, unrecorded>>
    BY <1>16 DEF Begin, At
  <2>2. CASE Duplicate(c)
    <3>1. UNCHANGED req
      BY <1>16, <2>2 DEF Begin
    <3>. QED
      BY <2>1, <3>1 DEF ActionsInv, ActionsAccounted, Pending, FreshRecord
  <2>3. CASE ~Duplicate(c)
    <3>1. PICK r : r = [pc |-> IF c.op = "execute" THEN "decide" ELSE "update",
                        call |-> c, seen |-> lead, found |-> 0]
      OBVIOUS
    <3>2. r.call = c /\ (c.op = "execute" => r.pc = "decide") /\ r.pc # "log"
      BY <3>1
    <3>3. req'[h] = r
      BY <1>2, <1>16, <2>3, <3>1 DEF Begin
    <3>4. ActionsAccounted'
      BY <1>15, <2>1, <3>2, <3>3 DEF AfterSend
    <3>. QED
      BY <1>14, <3>2, <3>3, <3>4 DEF ActionsInv, FreshRecord
  <2>. QED
    BY <2>2, <2>3
\* The handler gives up or ends before there is anything to record.
<1>17. ASSUME req' = [req EXCEPT ![h] = Idle], UNCHANGED <<sent, events, unrecorded>>,
              work.op # "execute" \/ req[h].pc \notin AfterSend
       PROVE  ActionsInv'
  <2>1. req'[h] = Idle
    BY <1>2, <1>17
  <2>2. ActionsAccounted'
    BY <1>4, <1>5, <1>15, <1>17, <2>1
  <2>. QED
    BY <1>4, <1>14, <2>1, <2>2 DEF ActionsInv, FreshRecord
<1>18. ASSUME NEW r, req' = [req EXCEPT ![h] = r], r.call = work,
              r.pc \in AfterSend <=> req[h].pc \in AfterSend,
              r.pc = "log" /\ work.op = "execute" => r.found = 0,
              UNCHANGED <<sent, events, unrecorded>>
       PROVE  ActionsInv'
  <2>1. req'[h] = r
    BY <1>2, <1>18
  <2>2. ActionsAccounted'
    BY <1>15, <1>18, <2>1
  <2>. QED
    BY <1>14, <1>18, <2>1, <2>2 DEF ActionsInv, FreshRecord
<1>19. ASSUME NEW pc, Goto(h, pc)
       PROVE  \E r : /\ req' = [req EXCEPT ![h] = r] /\ r.call = work /\ r.pc = pc
                     /\ r.found = req[h].found
  <2>1. PICK r : r = [req[h] EXCEPT !.pc = pc]
    OBVIOUS
  <2>2. r.call = work /\ r.pc = pc /\ r.found = req[h].found
    BY <1>2, <1>3, <2>1 DEF Request
  <2>3. req' = [req EXCEPT ![h] = r]
    BY <1>2, <1>19, <2>1 DEF Goto
  <2>. QED
    BY <2>2, <2>3
<1>20. CASE Decide(h)
  <2>1. req[h].pc = "decide" /\ UNCHANGED <<sent, events, unrecorded>>
    BY <1>20 DEF Decide, At, history
  <2>2. CASE Goto(h, "reread")
    BY <1>18, <1>19, <2>1, <2>2 DEF AfterSend
  <2>3. CASE req' = [req EXCEPT ![h] = Idle]
    BY <1>17, <2>1, <2>3 DEF AfterSend
  <2>. QED
    BY <1>20, <2>2, <2>3 DEF Decide
<1>21. CASE Reread(h)
  <2>1. PICK r : r = [req[h] EXCEPT !.pc = "send", !.seen = lead]
    OBVIOUS
  <2>2. r.call = work /\ r.pc = "send"
    BY <1>2, <1>3, <2>1 DEF Request
  <2>3. /\ req' = [req EXCEPT ![h] = r] /\ req[h].pc = "reread"
        /\ UNCHANGED <<sent, events, unrecorded>>
    BY <1>2, <1>21, <2>1 DEF Reread, At, history
  <2>. QED
    BY <1>18, <2>2, <2>3 DEF AfterSend
<1>22. CASE Send(h)
  <2>1. /\ req[h].pc = "send" /\ UNCHANGED <<events, unrecorded>>
        /\ sent' = [sent EXCEPT ![work] = @ + 1]
    BY <1>3, <1>22 DEF Send, At
  <2>2. req'[h].call = work /\ req'[h].pc = "update" /\ work \in Calls
    BY <1>2, <1>3, <1>22, <2>1, AtWork DEF Send, Goto, Request
  <2>3. \A c \in Calls : sent[c] \in Nat /\ unrecorded[c] \in Nat
    BY <1>2
  <2>4. \A c \in Calls : sent'[c] = IF work = c THEN sent[c] + 1 ELSE sent[c]
    BY <1>2, <2>1
  <2>5. ActionsAccounted'
    BY <1>2, <1>13, <2>1, <2>2, <2>3, <2>4 DEF AfterSend
  <2>. QED
    BY <1>14, <2>2, <2>5 DEF ActionsInv, FreshRecord
<1>23. CASE SendFail(h)
  BY <1>17, <1>23 DEF SendFail, At, AfterSend, history
<1>24. CASE SendLost(h)
  <2>1. /\ req[h].pc = "send" /\ UNCHANGED events /\ req'[h] = Idle
        /\ sent' = [sent EXCEPT ![work] = @ + 1]
        /\ unrecorded' = [unrecorded EXCEPT ![work] = @ + 1]
    BY <1>2, <1>3, <1>24 DEF SendLost, At
  <2>2. work \in Calls
    BY <1>3, <2>1, AtWork
  <2>3. \A c \in Calls : sent[c] \in Nat /\ unrecorded[c] \in Nat
    BY <1>2
  <2>4. \A c \in Calls :
          /\ sent'[c] = IF work = c THEN sent[c] + 1 ELSE sent[c]
          /\ unrecorded'[c] = IF work = c THEN unrecorded[c] + 1 ELSE unrecorded[c]
    BY <1>2, <2>1
  <2>5. ActionsAccounted'
    BY <1>2, <1>4, <1>5, <1>13, <2>1, <2>3, <2>4 DEF AfterSend
  <2>. QED
    BY <1>4, <1>14, <2>1, <2>5 DEF ActionsInv, FreshRecord
<1>25. CASE Update(h)
  <2>1. req[h].pc = "update" /\ UNCHANGED <<sent, events, unrecorded>>
    BY <1>25 DEF Update, At
  <2>2. CASE LeavesEvent(work)
    <3>1. PICK pc : /\ pc = IF IsPayment(work) THEN "finance" ELSE "event"
                    /\ Goto(h, pc)
      BY <1>3, <1>25, <2>2 DEF Update
    <3>2. PICK r : /\ req' = [req EXCEPT ![h] = r] /\ r.call = work /\ r.pc = pc
      BY <1>19, <3>1
    <3>3. req'[h] = r
      BY <1>2, <3>2
    <3>4. ActionsAccounted'
      BY <1>15, <2>1, <3>1, <3>2, <3>3 DEF AfterSend, IsPayment
    <3>. QED
      BY <1>14, <3>1, <3>2, <3>3, <3>4 DEF ActionsInv, FreshRecord
  <2>3. CASE ~LeavesEvent(work)
    <3>1. req' = [req EXCEPT ![h] = Idle]
      BY <1>3, <1>25, <2>3 DEF Update, Finish
    <3>2. work.op # "execute"
      BY <2>3 DEF LeavesEvent
    <3>. QED
      BY <1>17, <2>1, <3>1, <3>2
  <2>. QED
    BY <2>2, <2>3
<1>26. CASE LookUpPayment(h)
  <2>1. PICK r : r = [req[h] EXCEPT !.pc = "pay", !.found = finance[req[h].call]]
    OBVIOUS
  <2>2. r.call = work /\ r.pc = "pay"
    BY <1>2, <1>3, <2>1 DEF Request
  <2>3. /\ req' = [req EXCEPT ![h] = r] /\ req[h].pc = "finance"
        /\ UNCHANGED <<sent, events, unrecorded>>
    BY <1>2, <1>26, <2>1 DEF LookUpPayment, At, history
  <2>. QED
    BY <1>18, <2>2, <2>3 DEF AfterSend
<1>27. CASE Pay(h)
  <2>1. /\ req[h].pc = "pay" /\ Goto(h, "event")
        /\ UNCHANGED <<sent, events, unrecorded>>
    BY <1>27 DEF Pay, At, history
  <2>2. PICK r : /\ req' = [req EXCEPT ![h] = r] /\ r.call = work /\ r.pc = "event"
    BY <1>19, <2>1
  <2>3. req'[h] = r
    BY <1>2, <2>2
  <2>4. work.op = "lifecycle"
    BY <1>2, <1>3, <2>1 DEF RequestFits, IsPayment
  <2>5. ActionsAccounted'
    BY <1>15, <2>1, <2>2, <2>3, <2>4
  <2>. QED
    BY <1>14, <2>2, <2>3, <2>5 DEF ActionsInv, FreshRecord
<1>28. CASE LookUpEvent(h)
  <2>0. PICK n : /\ req' = [req EXCEPT ![h].pc = "log", ![h].found = n]
                 /\ FreshKey(work) => n = 0
    BY <1>3, <1>28 DEF LookUpEvent
  <2>1. PICK r : r = [req[h] EXCEPT !.pc = "log", !.found = n]
    OBVIOUS
  <2>2. r.call = work /\ r.pc = "log" /\ r.found = n
    BY <1>2, <1>3, <2>1 DEF Request
  <2>3. /\ req' = [req EXCEPT ![h] = r] /\ req[h].pc = "event"
        /\ UNCHANGED <<sent, events, unrecorded>>
    BY <1>2, <1>28, <2>0, <2>1 DEF LookUpEvent, At, history
  <2>. QED
    BY <1>18, <2>0, <2>2, <2>3 DEF AfterSend, FreshKey
<1>29. CASE Log(h)
  <2>1. /\ req[h].pc = "log" /\ UNCHANGED <<sent, unrecorded>> /\ req'[h] = Idle
    BY <1>2, <1>29 DEF Log, Finish, At
  <2>2. PICK shown, n : shown = EventItems(work, req[h].seen) /\ n = req[h].found
    OBVIOUS
  <2>3. events' = [events EXCEPT ![work] = IF n = 0 THEN Append(@, shown)
                                           ELSE [@ EXCEPT ![n] = shown]]
    BY <1>3, <1>29, <2>2 DEF Log
  <2>4. work \in Calls
    BY <1>3, <2>1, AtWork
  <2>5. work.op = "execute" => n = 0
    BY <1>3, <2>1, <2>2 DEF ActionsInv, FreshRecord
  <2>6. \A c \in Calls : c.op = "execute" =>
          Len(events'[c]) = IF work = c THEN Len(events[c]) + 1 ELSE Len(events[c])
    <3>. SUFFICES ASSUME NEW c \in Calls, c.op = "execute"
                  PROVE  Len(events'[c]) = IF work = c THEN Len(events[c]) + 1
                                           ELSE Len(events[c])
      OBVIOUS
    <3>1. CASE work = c
      <4>1. events'[c] = Append(events[c], shown)
        BY <1>2, <2>3, <2>5, <3>1
      <4>2. events[c] \in Seq(SUBSET Entry)
        BY <1>2
      <4>. QED
        BY <3>1, <4>1, <4>2
    <3>2. CASE work # c
      BY <1>2, <2>3, <3>2
    <3>. QED
      BY <3>1, <3>2
  <2>7. \A c \in Calls : sent[c] \in Nat /\ unrecorded[c] \in Nat
    BY <1>2
  <2>8. \A c \in Calls : c.op = "execute" =>
          LET before == IF work = c /\ req[h].pc \in AfterSend THEN 1 ELSE 0
              after == IF NoCall = c /\ "idle" \in AfterSend THEN 1 ELSE 0
          IN sent'[c] - sent[c] =
               (Len(events'[c]) - Len(events[c])) + (after - before)
                 + (unrecorded'[c] - unrecorded[c])
    <3>. SUFFICES ASSUME NEW c \in Calls, c.op = "execute"
                  PROVE  sent'[c] - sent[c] =
                           (Len(events'[c]) - Len(events[c]))
                             + (0 - (IF work = c THEN 1 ELSE 0))
                             + (unrecorded'[c] - unrecorded[c])
      BY <1>5, <2>1 DEF AfterSend
    <3>1. /\ sent[c] \in Nat /\ unrecorded[c] \in Nat /\ Len(events[c]) \in Nat
          /\ sent'[c] = sent[c] /\ unrecorded'[c] = unrecorded[c]
      BY <1>2, <2>1, <2>7
    <3>2. Len(events'[c]) = IF work = c THEN Len(events[c]) + 1 ELSE Len(events[c])
      BY <2>6
    <3>. QED
      BY <3>1, <3>2
  <2>9. ActionsAccounted'
    <3>1. req'[h].pc = "idle" /\ req'[h].call = NoCall
      BY <1>4, <2>1
    <3>. HIDE DEF NoCall
    <3>. QED
      BY ONLY <1>13, <2>8, <3>1
  <2>. QED
    BY <1>4, <1>14, <2>1, <2>9 DEF ActionsInv, FreshRecord
<1>30. CASE Cut(h)
  <2>1. /\ req[h].pc # "idle" /\ UNCHANGED <<sent, events>> /\ req'[h] = Idle
        /\ req' = [req EXCEPT ![h] = Idle]
        /\ unrecorded' = IF work.op = "execute" /\ req[h].pc \in AfterSend
                         THEN [unrecorded EXCEPT ![work] = @ + 1] ELSE unrecorded
    BY <1>2, <1>3, <1>30 DEF Cut, At
  <2>2. work \in Calls
    BY <1>3, <2>1, AtWork
  <2>3. CASE work.op = "execute" /\ req[h].pc \in AfterSend
    <3>1. \A c \in Calls : sent[c] \in Nat /\ unrecorded[c] \in Nat
      BY <1>2
    <3>2. \A c \in Calls :
            unrecorded'[c] = IF work = c THEN unrecorded[c] + 1 ELSE unrecorded[c]
      BY <1>2, <2>1, <2>3
    <3>3. ActionsAccounted'
      BY <1>2, <1>4, <1>5, <1>13, <2>1, <2>3, <3>1, <3>2
    <3>. QED
      BY <1>4, <1>14, <2>1, <3>3 DEF ActionsInv, FreshRecord
  <2>4. CASE ~(work.op = "execute" /\ req[h].pc \in AfterSend)
    BY <1>17, <2>1, <2>4
  <2>. QED
    BY <2>3, <2>4
<1>. QED
  BY <1>1, <1>16, <1>20, <1>21, <1>22, <1>23, <1>24, <1>25, <1>26, <1>27, <1>28,
     <1>29, <1>30 DEF Step

\* Every action the adapter carried out has an event record of its own, or its
\* handler still has to write it or was cut off before, and no record claims
\* more, for any finite number of handlers.
THEOREM ActionsRecorded == Spec => []ActionsAccounted
<1>1. Init => ActionsInv
  <2>. SUFFICES ASSUME Init PROVE ActionsInv
    OBVIOUS
  <2>1. \A c \in Calls : Pending(c) = {}
    BY IdleFits DEF Init, Pending, AfterSend
  <2>2. \A c \in Calls : Cardinality(Pending(c)) = 0
    BY <2>1, FS_EmptySet
  <2>. QED
    BY <2>2, IdleFits DEF Init, ActionsInv, ActionsAccounted, FreshRecord
<1>2. ActionsInv => ActionsAccounted
  BY DEF ActionsInv
<1>. QED
  BY <1>1, <1>2, NextActionsInv, Invariance, PTL DEF Spec
=============================================================================
