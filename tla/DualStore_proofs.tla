-------------------------- MODULE DualStore_proofs --------------------------
(***************************************************************************)
(* Proofs about DualStore for every set of records, of callers and of      *)
(* faults: its type invariant, and that an acknowledged write is in the    *)
(* secondary, overtaken there, or logged for replay.                       *)
(***************************************************************************)
EXTENDS DualStore, TLAPS

USE DualStoreAssumption

LEMMA IdleTypes == IdleWriter \in WriterState /\ NoRow \in Row /\ IdleRec \in RecState
<1>1. (CHOOSE i \in Id : TRUE) \in Id
  OBVIOUS
<1>2. 0 \in Stamp
  BY DEF Stamp
<1>. QED
  BY <1>1, <1>2 DEF IdleWriter, NoRow, IdleRec, Row, WriterState, RecState

LEMMA StoreTypes ==
  ASSUME NEW store \in [Id -> Stamp], NEW w, w.id \in Id, w.at \in Stamp
  PROVE  Applied(store, w) \in [Id -> Stamp] /\ Monotonic(store, w) \in [Id -> Stamp]
BY DEF Applied, Monotonic, Absent, Stamp

LEMMA OldestType == \A S \in SUBSET Row : Oldest(S, Limit) \in SUBSET Row
BY DEF Oldest

LEMMA AbandonType ==
  ASSUME wire \subseteq Request, NEW callers, Abandon(callers)
  PROVE  wire' \subseteq Request
<1>1. ASSUME NEW q \in Request PROVE [q EXCEPT !.from = "nobody"] \in Request
  BY DEF Request
<1>. QED
  BY <1>1 DEF Abandon

LEMMA PromisedType ==
  ASSUME NEW w, w.id \in Id, w.at \in Stamp
  PROVE  Promised(w) \subseteq Promise
BY DEF Promised, Promise

LEMMA UnheardType ==
  ASSUME TypeOK, NEW w \in Writer
  PROVE  Unheard(w) \subseteq seen /\ Unheard(w) \subseteq Promise
BY DEF Unheard, TypeOK

LEMMA WriterFields ==
  ASSUME TypeOK, NEW w \in Writer
  PROVE  /\ writer[w].op \in {"upsert", "delete"}
         /\ writer[w].id \in Id
         /\ writer[w].at \in Stamp
BY DEF TypeOK, WriterState

LEMMA TypeStep == TypeOK /\ [Next]_vars => TypeOK'
<1>. SUFFICES ASSUME TypeOK, [Next]_vars PROVE TypeOK'
  OBVIOUS
<1>1. TypeOK'
  <2> USE DEF stores, logs, history
  <2>1. ASSUME NEW w \in Writer, NEW op \in Ops, NEW i \in Id, BeginRender(w, op, i)
        PROVE TypeOK'
    BY <2>1 DEF BeginRender, Begin, Stamp, TypeOK, WriterState
  <2>2. ASSUME NEW w \in Writer, NEW op \in Ops, NEW i \in Id, BeginEdge(w, op, i)
        PROVE TypeOK'
    <3>1. clock + 1 \in Stamp /\ clock' \in Stamp
      BY <2>2 DEF BeginEdge, Begin, Stamp, TypeOK
    <3>2. wire' \subseteq Request
      <4> DEFINE c == [op |-> op, id |-> i, at |-> clock + 1]
      <4>1. c.op \in {"upsert", "delete"} /\ c.id \in Id /\ c.at \in Stamp
        BY <3>1
      <4>2. RequestOf(w, c, TRUE) \in Request
        BY <4>1 DEF RequestOf, Request
      <4>. QED
        BY <2>2, <4>2 DEF BeginEdge, Send, TypeOK
    <3>3. writer' \in [Writer -> WriterState]
      BY <2>2, <3>1 DEF BeginEdge, Begin, TypeOK, WriterState
    <3>. QED
      BY <2>2, <3>1, <3>2, <3>3 DEF BeginEdge, Begin, TypeOK
  <2>3. ASSUME NEW w \in Writer, PrimaryOk(w) PROVE TypeOK'
    <3>1. wire' \subseteq Request
      <4>1. \A b \in BOOLEAN : RequestOf(w, writer[w], b) \in Request
        BY WriterFields DEF RequestOf, Request
      <4>. QED
        BY <2>3, <4>1 DEF PrimaryOk, TypeOK, Send
    <3>2. writer' \in [Writer -> WriterState]
      <4>1. writer[w] \in WriterState
        BY DEF TypeOK
      <4>2. [writer[w] EXCEPT !.pc = "sent", !.mirror = TRUE] \in WriterState
        BY <4>1 DEF WriterState
      <4>. QED
        BY <2>3, <4>2 DEF PrimaryOk, TypeOK
    <3>3. primary' \in [Id -> Stamp] /\ seen' \subseteq Promise
      BY <2>3, StoreTypes, PromisedType, WriterFields DEF PrimaryOk, TypeOK
    <3>. QED
      BY <2>3, <3>1, <3>2, <3>3 DEF PrimaryOk, TypeOK
  <2>4. ASSUME NEW w \in Writer, PrimaryFail(w) PROVE TypeOK'
    <3>1. wire' \subseteq Request
      <4>1. \A b \in BOOLEAN : RequestOf(w, writer[w], b) \in Request
        BY WriterFields DEF RequestOf, Request
      <4>. QED
        BY <2>4, <4>1 DEF PrimaryFail, TypeOK, Send
    <3>2. writer' \in [Writer -> WriterState]
      BY <2>4 DEF PrimaryFail, TypeOK, WriterState
    <3>3. primary' \in [Id -> Stamp] /\ seen' \subseteq Promise
      BY <2>4, StoreTypes, PromisedType, WriterFields DEF PrimaryFail, TypeOK
    <3>. QED
      BY <2>4, <3>1, <3>2, <3>3 DEF PrimaryFail, TypeOK
  <2>5. ASSUME NEW w \in Writer, CallOk(w) PROVE TypeOK'
    BY <2>5, IdleTypes, PromisedType, WriterFields DEF CallOk, TypeOK
  <2>6. ASSUME NEW w \in Writer, CallFail(w) PROVE TypeOK'
    <3>1. wire' \subseteq Request
      BY <2>6, AbandonType DEF CallFail, TypeOK
    <3>2. writer' \in [Writer -> WriterState]
      BY <2>6, IdleTypes DEF CallFail, TypeOK, WriterState
    <3>3. forgotten' \subseteq Promise
      BY <2>6, UnheardType DEF CallFail, TypeOK
    <3>. QED
      BY <2>6, <3>1, <3>2, <3>3 DEF CallFail, TypeOK
  <2>7. ASSUME NEW w \in Writer, LogPending(w) PROVE TypeOK'
    <3>1. outbox' \subseteq Row /\ rowNo' \in Nat
      BY <2>7, WriterFields DEF LogPending, TypeOK, RowOf, Row
    <3>2. unlogged' \subseteq Promise /\ acked' \subseteq Promise
      BY <2>7, PromisedType, WriterFields DEF LogPending, TypeOK
    <3>. QED
      BY <2>7, <3>1, <3>2, IdleTypes DEF LogPending, TypeOK
  <2>8. ASSUME NEW q \in wire, SecondaryApply(q) PROVE TypeOK'
    <3>1. q \in Request
      BY DEF TypeOK
    <3>2. secondary' \in [Id -> Stamp]
      BY <2>8, <3>1, StoreTypes DEF SecondaryApply, TypeOK, Request
    <3>3. queue' \subseteq Row /\ rowNo' \in Nat
      BY <2>8, <3>1 DEF SecondaryApply, TypeOK, Request, RowOf, Row
    <3>4. writer' \in [Writer -> WriterState]
      BY <2>8, <3>1 DEF SecondaryApply, TypeOK, WriterState
    <3>5. rec' \in RecState
      BY <2>8 DEF SecondaryApply, TypeOK, RecState
    <3>. QED
      BY <2>8, <3>2, <3>3, <3>4, <3>5 DEF SecondaryApply, TypeOK
  <2>9. ASSUME NEW q \in wire, SecondaryLose(q) PROVE TypeOK'
    BY <2>9 DEF SecondaryLose, TypeOK
  <2>10. CASE Reconcile
    <3>1. CASE RecStart
      <4>0. \A S \in SUBSET Row : /\ [IdleRec EXCEPT !.pc = "replay", !.rows = S] \in RecState
                                 /\ [IdleRec EXCEPT !.pc = "replay"] \in RecState
        BY IdleTypes DEF RecState
      <4>1. Oldest(outbox, Limit) \in SUBSET Row
        BY OldestType DEF TypeOK
      <4>2. rec' \in RecState
        BY <3>1, <4>0, <4>1 DEF RecStart
      <4>. QED
        BY <3>1, <4>2 DEF RecStart, TypeOK
    <3>2. CASE RecSend
      <4>1. PICK r \in rec.rows :
              /\ rec' = [rec EXCEPT !.pc = "sent", !.row = r, !.rows = @ \ {r}]
              /\ Send("reconciler", r, FALSE)
        BY <3>2 DEF RecSend
      <4>2. r \in Row
        BY DEF TypeOK, RecState
      <4>3. wire' \subseteq Request
        <5>1. RequestOf("reconciler", r, FALSE) \in Request
          BY <4>2 DEF RequestOf, Request, Row
        <5>. QED
          BY <4>1, <5>1 DEF TypeOK, Send
      <4>4. rec' \in RecState
        BY <4>1, <4>2 DEF TypeOK, RecState
      <4>. QED
        BY <3>2, <4>3, <4>4 DEF RecSend, TypeOK
    <3>3. CASE RecReplayed
      BY <3>3, IdleTypes DEF RecReplayed, TypeOK, RecState
    <3>4. CASE RecCallFail
      <4>1. wire' \subseteq Request
        BY <3>4, AbandonType DEF RecCallFail, TypeOK
      <4>2. rec' \in RecState
        BY <3>4, IdleTypes DEF RecCallFail, TypeOK, RecState
      <4>. QED
        BY <3>4, <4>1, <4>2 DEF RecCallFail, TypeOK
    <3>5. CASE RecPending
      <4>0. \A S \in SUBSET Row : [IdleRec EXCEPT !.pc = "apply", !.items = S] \in RecState
        BY IdleTypes DEF RecState
      <4>1. Oldest(queue, Limit) \in SUBSET Row
        BY OldestType DEF TypeOK
      <4>2. rec' \in RecState
        BY <3>5, <4>0, <4>1, IdleTypes DEF RecPending
      <4>. QED
        BY <3>5, <4>2 DEF RecPending, TypeOK
    <3>6. CASE RecApply
      <4>1. PICK r \in rec.items :
              /\ primary' = Applied(primary, r)
              /\ seen' = seen \union Promised(r)
              /\ \/ rec' = [rec EXCEPT !.items = @ \ {r}, !.acks = @ \union {r}]
                 \/ rec' = [rec EXCEPT !.items = @ \ {r}]
        BY <3>6 DEF RecApply
      <4>2. r \in Row
        BY DEF TypeOK, RecState
      <4>3. primary' \in [Id -> Stamp] /\ seen' \subseteq Promise
        BY <4>1, <4>2, StoreTypes, PromisedType DEF TypeOK, Row
      <4>4. rec.acks \union {r} \in SUBSET Row /\ rec.items \ {r} \in SUBSET Row
        BY <4>2 DEF TypeOK, RecState
      <4>5. rec' \in RecState
        BY <4>1, <4>4 DEF TypeOK, RecState
      <4>. QED
        BY <3>6, <4>5, <4>3, <4>4 DEF RecApply, TypeOK
    <3>7. CASE RecApplyFail
      BY <3>7 DEF RecApplyFail, TypeOK, RecState
    <3>8. CASE RecAck
      BY <3>8, IdleTypes DEF RecAck, TypeOK
    <3>. QED
      BY <2>10, <3>1, <3>2, <3>3, <3>4, <3>5, <3>6, <3>7, <3>8 DEF Reconcile
  <2>11. CASE Crash
    <3>1. wire' \subseteq Request
      BY <2>11, AbandonType DEF Crash, TypeOK
    <3>2. forgotten' \subseteq Promise
      <4>1. \A w \in Render : Unheard(w) \subseteq Promise
        BY UnheardType DEF Writer
      <4>. QED
        BY <2>11, <4>1 DEF Crash, TypeOK
    <3>3. writer' \in [Writer -> WriterState] /\ rec' \in RecState
      BY <2>11, IdleTypes DEF Crash, TypeOK
    <3>. QED
      BY <2>11, <3>1, <3>2, <3>3 DEF Crash, TypeOK
  <2>12. CASE UNCHANGED vars
    BY <2>12 DEF vars, TypeOK
  <2>. QED
    BY <2>1, <2>2, <2>3, <2>4, <2>5, <2>6, <2>7, <2>8, <2>9, <2>10, <2>11, <2>12
       DEF Next, Call
<1>. QED
  BY <1>1

\* The type invariant holds in every state of DualStore (platform.ts:125-301).
THEOREM TypeCorrect == Spec => []TypeOK
<1>1. Init => TypeOK
  BY IdleTypes DEF Init, TypeOK, Stamp, Absent
<1>. QED
  BY <1>1, TypeStep, PTL DEF Spec
-----------------------------------------------------------------------------
(* The secondary *)

LEMMA SecondarySteps ==
  ASSUME [Next]_vars
  PROVE  /\ erased \subseteq erased'
         /\ unlogged \subseteq unlogged'
         /\ (UNCHANGED secondary \/ \E q \in wire : SecondaryApply(q))
<1> USE DEF stores, logs, history
<1>1. ASSUME NEW w \in Writer, Call(w)
      PROVE  erased \subseteq erased' /\ unlogged \subseteq unlogged' /\ UNCHANGED secondary
  BY <1>1 DEF Call, BeginRender, BeginEdge, Begin, PrimaryOk, PrimaryFail, CallOk,
              CallFail, LogPending
<1>2. ASSUME NEW q \in wire, SecondaryApply(q) \/ SecondaryLose(q)
      PROVE  /\ UNCHANGED <<erased, unlogged>>
             /\ UNCHANGED secondary \/ SecondaryApply(q)
  BY <1>2 DEF SecondaryApply, SecondaryLose
<1>3. CASE Reconcile
  BY <1>3 DEF Reconcile, RecStart, RecSend, RecReplayed, RecCallFail, RecPending,
              RecApply, RecApplyFail, RecAck
<1>4. CASE Crash
  BY <1>4 DEF Crash
<1>5. CASE UNCHANGED vars
  BY <1>5 DEF vars
<1>. QED
  BY <1>1, <1>2, <1>3, <1>4, <1>5 DEF Next

LEMMA SecondaryRises ==
  ASSUME TypeOK, DeletesErased, [Next]_vars
  PROVE  \A i \in Id : secondary'[i] >= secondary[i] \/ i \in erased
<1>1. CASE UNCHANGED secondary
  BY <1>1 DEF TypeOK, Stamp
<1>2. ASSUME NEW q \in wire, SecondaryApply(q)
      PROVE  \A i \in Id : secondary'[i] >= secondary[i] \/ i \in erased
  <2>1. q \in Request /\ (q.op = "delete" => q.id \in erased)
    BY DEF TypeOK, DeletesErased
  <2>2. secondary' = Monotonic(secondary, q)
    BY <1>2 DEF SecondaryApply
  <2>. QED
    BY <2>1, <2>2 DEF Monotonic, Applied, Request, TypeOK, Stamp
<1>. QED
  BY <1>1, <1>2, SecondarySteps

\* What an upsert's request says is in the secondary once it is applied.
LEMMA ApplyReaches ==
  ASSUME TypeOK, NEW q \in wire, SecondaryApply(q), q.op = "upsert"
  PROVE  secondary'[q.id] >= q.at
<1>1. q \in Request /\ secondary' = Monotonic(secondary, q)
  BY DEF TypeOK, SecondaryApply
<1>. QED
  BY <1>1 DEF Monotonic, Applied, Request, TypeOK, Stamp
-----------------------------------------------------------------------------
(* The parts of the inductive invariant *)

LEMMA RestartFields ==
  /\ RecStart => rec'.rows \subseteq outbox /\ rec'.row = NoRow
  /\ RecPending => rec'.rows = {} /\ rec'.row = NoRow
<1>1. Oldest(outbox, Limit) \subseteq outbox
  BY DEF Oldest
<1>2. \A S : /\ [IdleRec EXCEPT !.pc = "replay", !.rows = S].rows = S
             /\ [IdleRec EXCEPT !.pc = "replay", !.rows = S].row = NoRow
             /\ [IdleRec EXCEPT !.pc = "apply", !.items = S].rows = {}
             /\ [IdleRec EXCEPT !.pc = "apply", !.items = S].row = NoRow
  BY DEF IdleRec
<1>3. /\ [IdleRec EXCEPT !.pc = "replay"].rows = {}
      /\ [IdleRec EXCEPT !.pc = "replay"].row = NoRow
      /\ IdleRec.rows = {} /\ IdleRec.row = NoRow
  BY DEF IdleRec
<1>4. ASSUME RecStart PROVE rec'.rows \subseteq outbox /\ rec'.row = NoRow
  <2>1. CASE rec' = [IdleRec EXCEPT !.pc = "replay", !.rows = Oldest(outbox, Limit)]
    <3>1. rec'.rows = Oldest(outbox, Limit) /\ rec'.row = NoRow
      BY <2>1, <1>2
    <3>. QED
      BY <3>1, <1>1
  <2>2. CASE rec' = [IdleRec EXCEPT !.pc = "replay"]
    BY <2>2, <1>3
  <2>. QED
    BY <1>4, <2>1, <2>2 DEF RecStart
<1>5. ASSUME RecPending PROVE rec'.rows = {} /\ rec'.row = NoRow
  BY <1>2, <1>3, <1>5 DEF RecPending
<1>. QED
  BY <1>4, <1>5

LEMMA DeletesStep ==
  ASSUME TypeOK, DeletesErased, [Next]_vars
  PROVE  DeletesErased'
<1> USE DEF DeletesErased, TypeOK, WriterState, RecState, Row, Request, stores, logs, history, Send, RequestOf, Abandon, IdleWriter, IdleRec, NoRow, RowOf, Oldest
<1>1. ASSUME NEW w \in Writer, NEW op \in Ops, NEW i \in Id, BeginRender(w, op, i)
      PROVE DeletesErased'
  BY <1>1 DEF BeginRender, Begin
<1>2. ASSUME NEW w \in Writer, NEW op \in Ops, NEW i \in Id, BeginEdge(w, op, i)
      PROVE DeletesErased'
  BY <1>2 DEF BeginEdge, Begin
<1>3. ASSUME NEW w \in Writer, PrimaryOk(w) PROVE DeletesErased'
  BY <1>3 DEF PrimaryOk
<1>4. ASSUME NEW w \in Writer, PrimaryFail(w) PROVE DeletesErased'
  BY <1>4 DEF PrimaryFail
<1>5. ASSUME NEW w \in Writer, CallOk(w) PROVE DeletesErased'
  BY <1>5 DEF CallOk
<1>6. ASSUME NEW w \in Writer, CallFail(w) PROVE DeletesErased'
  BY <1>6 DEF CallFail
<1>7. ASSUME NEW w \in Writer, LogPending(w) PROVE DeletesErased'
  BY <1>7 DEF LogPending
<1>8. ASSUME NEW q \in wire, SecondaryApply(q) PROVE DeletesErased'
  BY <1>8 DEF SecondaryApply
<1>9. ASSUME NEW q \in wire, SecondaryLose(q) PROVE DeletesErased'
  BY <1>9 DEF SecondaryLose
<1>10. CASE RecStart
  <2>1. rec'.rows \subseteq outbox /\ rec'.row = NoRow
    BY <1>10, RestartFields
  <2>2. UNCHANGED <<outbox, wire, writer, erased>> /\ NoRow.op = "upsert"
    BY <1>10 DEF RecStart
  <2>. QED
    BY <2>1, <2>2
<1>11. CASE RecSend
  BY <1>11 DEF RecSend
<1>12. CASE RecReplayed
  BY <1>12 DEF RecReplayed
<1>13. CASE RecCallFail
  BY <1>13 DEF RecCallFail
<1>14. CASE RecPending
  <2>1. rec'.rows = {} /\ rec'.row = NoRow
    BY <1>14, RestartFields
  <2>2. UNCHANGED <<outbox, wire, writer, erased>> /\ NoRow.op = "upsert"
    BY <1>14 DEF RecPending
  <2>. QED
    BY <2>1, <2>2
<1>15. CASE RecApply
  BY <1>15 DEF RecApply
<1>16. CASE RecApplyFail
  BY <1>16 DEF RecApplyFail
<1>17. CASE RecAck
  BY <1>17 DEF RecAck
<1>18. CASE Crash
  <2>1. /\ writer' = [w \in Writer |-> IF w \in Render THEN IdleWriter ELSE writer[w]]
        /\ rec' = IdleRec /\ Abandon(Render \union {"reconciler"})
        /\ UNCHANGED <<outbox, erased>>
    BY <1>18 DEF Crash
  <2>. QED
    BY <2>1
<1>19. CASE UNCHANGED vars
  BY <1>19 DEF vars
<1>. QED
  BY <1>1, <1>2, <1>3, <1>4, <1>5, <1>6, <1>7, <1>8, <1>9, <1>10, <1>11, <1>12, <1>13, <1>14, <1>15, <1>16, <1>17, <1>18, <1>19
     DEF Next, Call, Reconcile

\* A caller that has no live request sends one and waits for it.
LEMMA SendMatches ==
  ASSUME TypeOK, WireMatches, NEW w \in Writer, writer[w].pc # "sent",
         NEW r, r.from = w, wire' = wire \union {r},
         \A v \in Writer \ {w} : writer'[v] = writer[v],
         writer'[w].pc = "sent", Carries(r, writer'[w]), UNCHANGED rec
  PROVE  WireMatches'
<1>1. \A q \in wire : q.from # w
  BY DEF WireMatches
<1>2. \A q \in wire : q.from \in Writer => writer'[q.from] = writer[q.from]
  BY <1>1
<1>3. r.from # "reconciler" /\ r.from # "nobody"
  BY DEF Writer
<1>. QED
  BY <1>1, <1>2, <1>3 DEF WireMatches, Carries

\* Abandoned requests no longer bind anybody.
LEMMA AbandonMatches ==
  ASSUME TypeOK, WireMatches, NEW callers, Abandon(callers),
         \A v \in Writer \ callers : writer'[v] = writer[v],
         "reconciler" \notin callers => UNCHANGED rec
  PROVE  WireMatches'
<1>1. \A q \in wire' : \/ q \in wire /\ q.from \notin callers
                       \/ q.from = "nobody" /\ q.from \notin Writer
  <2> SUFFICES ASSUME NEW q \in wire'
               PROVE  \/ q \in wire /\ q.from \notin callers
                      \/ q.from = "nobody" /\ q.from \notin Writer
    OBVIOUS
  <2>1. PICK r \in wire : q = IF r.from \in callers THEN [r EXCEPT !.from = "nobody"] ELSE r
    BY DEF Abandon
  <2>2. [r EXCEPT !.from = "nobody"].from = "nobody" /\ "nobody" \notin Writer
    BY DEF TypeOK, Request, Writer
  <2>. QED
    BY <2>1, <2>2
<1>. QED
  BY <1>1 DEF WireMatches, Carries

\* Nobody sends: requests may leave the wire, those who wait stay as they were.
LEMMA RestMatches ==
  ASSUME TypeOK, WireMatches, wire' \subseteq wire,
         \A v \in Writer : writer[v].pc = "sent" => writer'[v] = writer[v],
         rec.pc = "sent" => UNCHANGED rec
  PROVE  WireMatches'
<1>1. \A q \in wire' : q.from \in Writer => writer'[q.from] = writer[q.from]
  BY DEF WireMatches
<1>2. \A q \in wire' : q.from = "reconciler" => UNCHANGED rec
  BY DEF WireMatches
<1>. QED
  BY <1>1, <1>2 DEF WireMatches, Carries

LEMMA WireStep ==
  ASSUME TypeOK, WireMatches, [Next]_vars
  PROVE  WireMatches'
<1> USE DEF stores, logs, history
<1>1. ASSUME NEW w \in Writer, NEW op \in Ops, NEW i \in Id, BeginRender(w, op, i)
      PROVE WireMatches'
  BY <1>1, RestMatches DEF BeginRender, Begin, TypeOK
<1>2. ASSUME NEW w \in Writer, NEW op \in Ops, NEW i \in Id, BeginEdge(w, op, i)
      PROVE WireMatches'
  <2> DEFINE c == [op |-> op, id |-> i, at |-> clock + 1]
  <2>1. /\ RequestOf(w, c, TRUE).from = w
        /\ wire' = wire \union {RequestOf(w, c, TRUE)}
        /\ UNCHANGED rec
    BY <1>2 DEF BeginEdge, Send, RequestOf
  <2>2. /\ writer[w].pc # "sent"
        /\ writer'[w].pc = "sent"
        /\ Carries(RequestOf(w, c, TRUE), writer'[w])
        /\ \A v \in Writer \ {w} : writer'[v] = writer[v]
    BY <1>2 DEF BeginEdge, Begin, RequestOf, Carries, TypeOK
  <2>. QED
    BY <2>1, <2>2, SendMatches
<1>3. ASSUME NEW w \in Writer, PrimaryOk(w) PROVE WireMatches'
  <2>1. /\ RequestOf(w, writer[w], FALSE).from = w
        /\ wire' = wire \union {RequestOf(w, writer[w], FALSE)}
        /\ UNCHANGED rec
    BY <1>3 DEF PrimaryOk, Send, RequestOf
  <2>2. /\ writer[w].pc # "sent"
        /\ writer'[w].pc = "sent"
        /\ Carries(RequestOf(w, writer[w], FALSE), writer'[w])
        /\ \A v \in Writer \ {w} : writer'[v] = writer[v]
    BY <1>3 DEF PrimaryOk, RequestOf, Carries, TypeOK, WriterState
  <2>. QED
    BY <2>1, <2>2, SendMatches
<1>4. ASSUME NEW w \in Writer, PrimaryFail(w) PROVE WireMatches'
  <2>1. /\ RequestOf(w, writer[w], TRUE).from = w
        /\ wire' = wire \union {RequestOf(w, writer[w], TRUE)}
        /\ UNCHANGED rec
    BY <1>4 DEF PrimaryFail, Send, RequestOf
  <2>2. /\ writer[w].pc # "sent"
        /\ writer'[w].pc = "sent"
        /\ Carries(RequestOf(w, writer[w], TRUE), writer'[w])
        /\ \A v \in Writer \ {w} : writer'[v] = writer[v]
    BY <1>4 DEF PrimaryFail, RequestOf, Carries, TypeOK, WriterState
  <2>. QED
    BY <2>1, <2>2, SendMatches
<1>5. ASSUME NEW w \in Writer, CallOk(w) \/ LogPending(w) PROVE WireMatches'
  BY <1>5, RestMatches DEF CallOk, LogPending, TypeOK
<1>6. ASSUME NEW w \in Writer, CallFail(w) PROVE WireMatches'
  BY <1>6, AbandonMatches DEF CallFail, TypeOK
<1>7. ASSUME NEW q \in wire, SecondaryApply(q) PROVE WireMatches'
  <2>1. /\ wire' = wire \ {q}
        /\ \A v \in Writer : v # q.from => writer'[v] = writer[v]
        /\ q.from # "reconciler" => UNCHANGED rec
    BY <1>7 DEF SecondaryApply, TypeOK
  <2>2. \A r \in wire' : r.from = q.from => r.from = "nobody"
    BY <2>1 DEF WireMatches
  <2>3. "nobody" \notin Writer
    BY DEF Writer
  <2>. QED
    BY <2>1, <2>2, <2>3 DEF WireMatches, Carries
<1>8. ASSUME NEW q \in wire, SecondaryLose(q) PROVE WireMatches'
  BY <1>8, RestMatches DEF SecondaryLose
<1>9. CASE RecSend
  <2>1. PICK r \in rec.rows :
          /\ rec' = [rec EXCEPT !.pc = "sent", !.row = r, !.rows = @ \ {r}]
          /\ Send("reconciler", r, FALSE)
    BY <1>9 DEF RecSend
  <2>2. \A q \in wire : q.from # "reconciler"
    BY <1>9 DEF WireMatches, RecSend
  <2>3. rec'.pc = "sent" /\ rec'.row = r /\ UNCHANGED writer
    BY <1>9, <2>1 DEF TypeOK, RecState, RecSend
  <2>4. /\ wire' = wire \union {RequestOf("reconciler", r, FALSE)}
        /\ RequestOf("reconciler", r, FALSE).from = "reconciler"
        /\ Carries(RequestOf("reconciler", r, FALSE), r)
    BY <2>1 DEF Send, RequestOf, Carries
  <2>5. "reconciler" \notin Writer
    BY DEF Writer
  <2>6. \A q \in wire' : q.from = "reconciler" => Carries(q, r)
    BY <2>2, <2>4
  <2>7. \A q \in wire' : q.from \in Writer => q \in wire
    BY <2>4, <2>5
  <2>8. \A p, q \in wire' : p.from = q.from => p = q \/ p.from = "nobody"
    BY <2>2, <2>4 DEF WireMatches
  <2>. QED
    BY <2>3, <2>6, <2>7, <2>8 DEF WireMatches
<1>10. CASE RecCallFail
  BY <1>10, AbandonMatches DEF RecCallFail
<1>11. CASE Crash
  <2>1. \A v \in Writer \ (Render \union {"reconciler"}) : writer'[v] = writer[v]
    BY <1>11 DEF Crash
  <2>. QED
    BY <1>11, <2>1, AbandonMatches DEF Crash
<1>12. ASSUME \/ RecStart \/ RecReplayed \/ RecPending \/ RecApply
              \/ RecApplyFail \/ RecAck
       PROVE  WireMatches'
  <2>1. rec.pc # "sent" /\ UNCHANGED <<wire, writer>>
    BY <1>12 DEF RecStart, RecReplayed, RecPending, RecApply, RecApplyFail, RecAck
  <2>. QED
    BY <2>1, RestMatches
<1>13. CASE UNCHANGED vars
  BY <1>13, RestMatches DEF vars
<1>. QED
  BY <1>1, <1>2, <1>3, <1>4, <1>5, <1>6, <1>7, <1>8, <1>9, <1>10, <1>11, <1>12, <1>13
     DEF Next, Call, Reconcile

LEMMA AckedStep ==
  ASSUME TypeOK, DeletesErased, AnsweredReached, AckedReachSecondary, [Next]_vars
  PROVE  AckedReachSecondary'
<1> DEFINE Kept(x) == \/ x.id \in erased' \/ x.id \in erased
                      \/ x \in unlogged' \/ secondary'[x.id] >= x.at
<1>0. \A x \in Promise : x.id \in erased \/ x \in unlogged \/ secondary[x.id] >= x.at
                         => Kept(x)
  <2>1. \A i \in Id : secondary[i] \in Nat /\ secondary'[i] \in Nat
    BY TypeStep DEF TypeOK, Stamp
  <2>. QED
    BY <2>1, SecondarySteps, SecondaryRises DEF Promise, Stamp
<1>1. ASSUME UNCHANGED <<acked, outbox>> PROVE AckedReachSecondary'
  BY <1>0, <1>1, SecondarySteps DEF AckedReachSecondary, Logged, TypeOK
<1>2. ASSUME NEW w \in Writer, CallOk(w) PROVE AckedReachSecondary'
  <2>1. UNCHANGED <<outbox, secondary, erased, unlogged>>
    BY <1>2 DEF CallOk, stores, logs
  <2>2. \A x \in Promised(writer[w]) : x.id \in erased \/ secondary[x.id] >= x.at
    BY <1>2 DEF CallOk, AnsweredReached, Reached, Promised
  <2>3. acked' = acked \union Promised(writer[w])
    BY <1>2 DEF CallOk
  <2>. QED
    BY <2>1, <2>2, <2>3 DEF AckedReachSecondary, Logged
<1>3. ASSUME NEW w \in Writer, LogPending(w) PROVE AckedReachSecondary'
  <2>1. UNCHANGED <<secondary, erased>> /\ outbox \subseteq outbox' /\ unlogged \subseteq unlogged'
    BY <1>3 DEF LogPending, stores
  <2>2. acked' = acked \union Promised(writer[w])
    BY <1>3 DEF LogPending
  <2>3. \A x \in acked : \/ x.id \in erased' \/ x \in unlogged'
                         \/ secondary'[x.id] >= x.at \/ Logged(x)'
    BY <2>1 DEF AckedReachSecondary, Logged
  <2>4. ASSUME NEW x \in Promised(writer[w]) PROVE x \in unlogged' \/ Logged(x)'
    <3>1. writer[w].op = "upsert" /\ x = [id |-> writer[w].id, at |-> writer[w].at]
      BY <2>4 DEF Promised
    <3>2. CASE outbox' = outbox \union {RowOf(writer[w])}
      <4>1. /\ RowOf(writer[w]).op = writer[w].op
            /\ RowOf(writer[w]).id = writer[w].id
            /\ RowOf(writer[w]).at = writer[w].at
        BY DEF RowOf
      <4>2. x.id = writer[w].id /\ x.at = writer[w].at
        BY <3>1
      <4>. QED
        BY <3>1, <3>2, <4>1, <4>2 DEF Logged
    <3>3. CASE unlogged' = unlogged \union Promised(writer[w])
      BY <2>4, <3>3
    <3>. QED
      BY <1>3, <3>2, <3>3 DEF LogPending
  <2>. QED
    BY <2>2, <2>3, <2>4 DEF AckedReachSecondary
<1>4. CASE RecReplayed
  <2>1. UNCHANGED <<secondary, erased, unlogged, acked>>
    BY <1>4 DEF RecReplayed, stores, history
  <2>2. Reached(rec.row) /\ outbox \ {rec.row} \subseteq outbox'
    BY <1>4 DEF RecReplayed, AnsweredReached
  <2>. QED
    BY <2>1, <2>2 DEF AckedReachSecondary, Logged, Reached
<1>5. ASSUME NEW w \in Writer, Call(w), ~CallOk(w), ~LogPending(w)
      PROVE UNCHANGED <<acked, outbox>>
  BY <1>5 DEF Call, BeginRender, BeginEdge, PrimaryOk, PrimaryFail, CallFail, logs, history
<1>6. ASSUME NEW q \in wire, SecondaryApply(q) \/ SecondaryLose(q)
      PROVE UNCHANGED <<acked, outbox>>
  BY <1>6 DEF SecondaryApply, SecondaryLose, logs, history
<1>7. ASSUME Reconcile, ~RecReplayed PROVE UNCHANGED <<acked, outbox>>
  BY <1>7 DEF Reconcile, RecStart, RecSend, RecCallFail, RecPending, RecApply,
              RecApplyFail, RecAck, logs, history
<1>8. ASSUME Crash \/ UNCHANGED vars PROVE UNCHANGED <<acked, outbox>>
  BY <1>8 DEF Crash, vars, logs, history
<1>. QED
  BY <1>1, <1>2, <1>3, <1>4, <1>5, <1>6, <1>7, <1>8 DEF Next

LEMMA ReachedStays ==
  ASSUME TypeOK, DeletesErased, [Next]_vars, NEW c, c.id \in Id, c.at \in Stamp,
         Reached(c)
  PROVE  c.op = "upsert" => c.id \in erased' \/ secondary'[c.id] >= c.at
<1>1. secondary[c.id] \in Nat /\ secondary'[c.id] \in Nat /\ c.at \in Nat
  BY TypeStep DEF TypeOK, Stamp
<1>. QED
  BY <1>1, SecondarySteps, SecondaryRises DEF Reached

LEMMA AnsweredStep ==
  ASSUME TypeOK, DeletesErased, WireMatches, AnsweredReached, [Next]_vars
  PROVE  AnsweredReached'
<1>1. ASSUME NEW w \in Writer, writer[w].pc = "answered", writer'[w] = writer[w]
      PROVE  Reached(writer[w])'
  BY <1>1, ReachedStays, WriterFields DEF AnsweredReached, Reached
<1>2. ASSUME rec.pc = "answered", UNCHANGED rec PROVE Reached(rec.row)'
  BY <1>2, ReachedStays DEF AnsweredReached, Reached, TypeOK, RecState, Row
<1>3. ASSUME \A w \in Writer : writer'[w].pc = "answered" =>
               writer[w].pc = "answered" /\ writer'[w] = writer[w],
             rec'.pc = "answered" => rec.pc = "answered" /\ UNCHANGED rec
      PROVE  AnsweredReached'
  BY <1>1, <1>2, <1>3 DEF AnsweredReached
<1>4. ASSUME NEW q \in wire, SecondaryApply(q) PROVE AnsweredReached'
  <2>1. q \in Request /\ UNCHANGED erased
    BY <1>4 DEF TypeOK, SecondaryApply, history
  <2>2. q.op = "upsert" => secondary'[q.id] >= q.at
    BY <1>4, ApplyReaches
  <2>3. ASSUME NEW w \in Writer, writer'[w].pc = "answered" PROVE Reached(writer[w])'
    <3>1. CASE q.from = w
      <4>1. writer' = [writer EXCEPT ![w].pc = "answered"] /\ Carries(q, writer[w])
        BY <1>4, <3>1 DEF SecondaryApply, WireMatches
      <4>2. /\ writer'[w].op = q.op /\ writer'[w].id = q.id /\ writer'[w].at = q.at
        BY <4>1 DEF Carries, TypeOK, WriterState
      <4>. QED
        BY <2>2, <4>2 DEF Reached
    <3>2. CASE q.from # w
      BY <1>1, <1>4, <2>3, <3>2 DEF SecondaryApply, TypeOK
    <3>. QED
      BY <3>1, <3>2
  <2>4. ASSUME rec'.pc = "answered" PROVE Reached(rec.row)'
    <3>1. CASE q.from = "reconciler"
      <4>1. rec' = [rec EXCEPT !.pc = "answered"] /\ Carries(q, rec.row)
        BY <1>4, <3>1 DEF SecondaryApply, WireMatches
      <4>2. rec'.row.op = q.op /\ rec'.row.id = q.id /\ rec'.row.at = q.at
        BY <4>1 DEF Carries, TypeOK, RecState
      <4>. QED
        BY <2>2, <4>2 DEF Reached
    <3>2. CASE q.from # "reconciler"
      BY <1>2, <1>4, <2>4, <3>2 DEF SecondaryApply
    <3>. QED
      BY <3>1, <3>2
  <2>. QED
    BY <2>3, <2>4 DEF AnsweredReached
<1> USE DEF TypeOK, stores, logs, history
<1>5. ASSUME NEW w \in Writer, NEW op \in Ops, NEW i \in Id,
             BeginRender(w, op, i) \/ BeginEdge(w, op, i)
      PROVE  AnsweredReached'
  <2>1. (\A v \in Writer \ {w} : writer'[v] = writer[v]) /\ writer'[w].pc \in {"primary", "sent"}
    <3>1. CASE BeginRender(w, op, i)
      BY <3>1 DEF BeginRender, Begin
    <3>2. CASE BeginEdge(w, op, i)
      BY <3>2 DEF BeginEdge, Begin
    <3>. QED
      BY <1>5, <3>1, <3>2
  <2>. QED
    BY <1>3, <1>5, <2>1 DEF BeginRender, BeginEdge
<1>6. ASSUME NEW w \in Writer, PrimaryOk(w) \/ PrimaryFail(w) PROVE AnsweredReached'
  <2>1. (\A v \in Writer \ {w} : writer'[v] = writer[v]) /\ writer'[w].pc \in {"primary", "sent"}
    <3>1. CASE PrimaryOk(w)
      BY <3>1 DEF PrimaryOk, WriterState
    <3>2. CASE PrimaryFail(w)
      BY <3>2 DEF PrimaryFail, WriterState
    <3>. QED
      BY <1>6, <3>1, <3>2
  <2>. QED
    BY <1>3, <1>6, <2>1 DEF PrimaryOk, PrimaryFail
<1>7. ASSUME NEW w \in Writer, CallOk(w) \/ CallFail(w) \/ LogPending(w)
      PROVE  AnsweredReached'
  BY <1>3, <1>7 DEF CallOk, CallFail, LogPending, IdleWriter, WriterState
<1>8. ASSUME NEW q \in wire, SecondaryLose(q) PROVE AnsweredReached'
  BY <1>3, <1>8 DEF SecondaryLose
<1>9. CASE Reconcile
  <2>1. UNCHANGED writer /\ rec'.pc # "answered"
    <3>1. RecStart \/ RecPending \/ RecAck => rec'.pc # "answered"
      <4>1. \A S : /\ [IdleRec EXCEPT !.pc = "replay", !.rows = S].pc = "replay"
                   /\ [IdleRec EXCEPT !.pc = "apply", !.items = S].pc = "apply"
                   /\ [IdleRec EXCEPT !.pc = "replay"].pc = "replay"
                   /\ IdleRec.pc = "idle"
        BY DEF IdleRec
      <4>. QED
        BY <4>1 DEF RecStart, RecPending, RecAck
    <3>2. RecSend \/ RecReplayed \/ RecCallFail \/ RecApply \/ RecApplyFail
          => rec'.pc # "answered"
      BY DEF RecSend, RecReplayed, RecCallFail, RecApply, RecApplyFail, RecState
    <3>. QED
      BY <1>9, <3>1, <3>2 DEF Reconcile, RecStart, RecSend, RecReplayed, RecCallFail,
                              RecPending, RecApply, RecApplyFail, RecAck
  <2>. QED
    BY <1>3, <2>1
<1>10. CASE Crash
  BY <1>3, <1>10 DEF Crash, IdleWriter, IdleRec
<1>11. CASE UNCHANGED vars
  BY <1>3, <1>11 DEF vars
<1>. QED
  BY <1>4, <1>5, <1>6, <1>7, <1>8, <1>9, <1>10, <1>11 DEF Next, Call

-----------------------------------------------------------------------------
(* The theorems *)

LEMMA InvariantHolds == Spec => []IInv
<1>1. Init => IInv
  <2>1. Init => TypeOK
    BY IdleTypes DEF Init, TypeOK, Stamp, Absent
  <2>2. Init => DeletesErased /\ WireMatches /\ AnsweredReached /\ AckedReachSecondary
    BY DEF Init, DeletesErased, WireMatches, AnsweredReached, AckedReachSecondary,
           IdleWriter, IdleRec, NoRow
  <2>. QED
    BY <2>1, <2>2 DEF IInv
<1>2. IInv /\ [Next]_vars => IInv'
  BY TypeStep, DeletesStep, WireStep, AnsweredStep, AckedStep DEF IInv
<1>. QED
  BY <1>1, <1>2, PTL DEF Spec

\* An acknowledged write is in the secondary, overtaken there, logged for
\* replay, or lost by a failed log insert and nothing else (platform.ts:244-281).
THEOREM AckedWritesReachSecondary == Spec => []AckedReachSecondary
<1>1. IInv => AckedReachSecondary
  BY DEF IInv
<1>. QED
  BY <1>1, InvariantHolds, PTL

\* No interleaving of calls, abandoned requests and replays takes the secondary
\* back to an older version (the guard of migration 20261006154000).
THEOREM SecondaryMonotone == Spec => SecondaryNeverRegresses
<1>1. IInv /\ [Next]_vars
      => [\A i \in Id : secondary'[i] >= secondary[i] \/ i \in erased]_vars
  BY SecondaryRises DEF IInv
<1>. QED
  BY <1>1, InvariantHolds, PTL DEF Spec, SecondaryNeverRegresses

-----------------------------------------------------------------------------
(* The abstract mirror *)

\* The promises the mirror has outstanding, said of the promise and not of its row.
Owed(p) == p.id \notin erased /\ secondary[p.id] < p.at /\ Logged(p)

LEMMA OutstandingIs ==
  ASSUME TypeOK
  PROVE  MirrorOutstanding = {p \in Promise : Owed(p)}
<1>1. ASSUME NEW r \in outbox, r.op = "upsert", r.id \notin erased, secondary[r.id] < r.at
      PROVE  [id |-> r.id, at |-> r.at] \in {p \in Promise : Owed(p)}
  BY <1>1 DEF TypeOK, Row, Promise, Owed, Logged
<1>2. ASSUME NEW p \in Promise, Owed(p)
      PROVE  p \in MirrorOutstanding
  <2>1. PICK r \in outbox : r.op = "upsert" /\ r.id = p.id /\ r.at = p.at
    BY <1>2 DEF Owed, Logged
  <2>2. p = [id |-> r.id, at |-> r.at]
    BY <2>1 DEF Promise
  <2> QED BY <1>2, <2>1, <2>2 DEF MirrorOutstanding, Owed
<1> QED BY <1>1, <1>2 DEF MirrorOutstanding

LEMMA OutstandingIsNext ==
  ASSUME TypeOK'
  PROVE  MirrorOutstanding' = {p \in Promise : Owed(p)'}
<1>1. ASSUME NEW r \in outbox', r.op = "upsert", r.id \notin erased', secondary'[r.id] < r.at
      PROVE  [id |-> r.id, at |-> r.at] \in {p \in Promise : Owed(p)'}
  BY <1>1 DEF TypeOK, Row, Promise, Owed, Logged
<1>2. ASSUME NEW p \in Promise, Owed(p)'
      PROVE  p \in MirrorOutstanding'
  <2>1. PICK r \in outbox' : r.op = "upsert" /\ r.id = p.id /\ r.at = p.at
    BY <1>2 DEF Owed, Logged
  <2>2. p = [id |-> r.id, at |-> r.at]
    BY <2>1 DEF Promise
  <2> QED BY <1>2, <2>1, <2>2 DEF MirrorOutstanding, Owed
<1> QED BY <1>1, <1>2 DEF MirrorOutstanding

\* A step that changes neither the stamps nor what is owed is a stutter of the mirror.
LEMMA MirrorStutters ==
  ASSUME TypeOK, TypeOK', MirrorStore' = MirrorStore,
         \A p \in Promise : Owed(p)' <=> Owed(p)
  PROVE  UNCHANGED M!vars
BY OutstandingIs, OutstandingIsNext DEF M!vars

LEMMA MirrorForgets ==
  ASSUME TypeOK, TypeOK', NEW i \in Id, UNCHANGED <<secondary, outbox>>,
         erased' = erased \union {i}
  PROVE  M!Forget(i)
<1>1. MirrorStore' = [MirrorStore EXCEPT ![i] = 0]
  BY DEF MirrorStore
<1>2. \A p \in Promise : Owed(p)' <=> Owed(p) /\ p.id # i
  BY DEF Owed, Logged
<1>3. MirrorOutstanding' = {o \in MirrorOutstanding : o.id # i}
  BY <1>2, OutstandingIs, OutstandingIsNext
<1> QED BY <1>1, <1>3 DEF M!Forget

LEMMA MirrorAccepts ==
  ASSUME TypeOK, TypeOK', NEW w \in Writer, LogPending(w), ~UNCHANGED M!vars
  PROVE  \E p \in M!Promise : M!Accept(p)
<1> DEFINE p == [id |-> writer[w].id, at |-> writer[w].at]
<1>0. UNCHANGED <<secondary, erased>> /\ UNCHANGED MirrorStore
  BY DEF LogPending, stores, MirrorStore
<1>1. /\ writer[w].op = "upsert" /\ outbox' = outbox \union {RowOf(writer[w])}
      /\ p.id \notin erased /\ secondary[p.id] < p.at
  <2>1. SUFFICES ASSUME ~ (/\ writer[w].op = "upsert" /\ outbox' = outbox \union {RowOf(writer[w])}
                           /\ p.id \notin erased /\ secondary[p.id] < p.at)
                 PROVE  FALSE
    OBVIOUS
  <2>2. \A x \in Promise : Owed(x)' <=> Owed(x)
    BY <1>0, <2>1 DEF LogPending, Owed, Logged, RowOf
  <2> QED BY <1>0, <2>2, MirrorStutters
<1>2. p \in Promise /\ MirrorStore[p.id] < p.at
  BY <1>1, WriterFields DEF Promise, MirrorStore
<1>3. \A x \in Promise : Owed(x)' <=> Owed(x) \/ x = p
  <2>1. \A x \in Promise : x = p <=> x.id = writer[w].id /\ x.at = writer[w].at
    BY <1>2 DEF Promise
  <2>2. \A x \in Promise : Logged(x)' <=> Logged(x) \/ (x.id = writer[w].id /\ x.at = writer[w].at)
    <3>1. /\ RowOf(writer[w]).op = "upsert" /\ RowOf(writer[w]).id = writer[w].id
          /\ RowOf(writer[w]).at = writer[w].at
      BY <1>1 DEF RowOf
    <3>2. outbox' = outbox \union {RowOf(writer[w])}
      BY <1>1
    <3> QED BY <3>1, <3>2 DEF Logged
  <2>3. p.id \notin erased /\ secondary[p.id] < p.at /\ UNCHANGED <<secondary, erased>>
    BY <1>0, <1>1
  <2> QED BY <2>1, <2>2, <2>3 DEF Owed
<1>4. MirrorOutstanding' = MirrorOutstanding \union {p}
  BY <1>2, <1>3, OutstandingIs, OutstandingIsNext
<1> QED BY <1>0, <1>2, <1>4 DEF M!Accept, M!Promise, Promise

LEMMA MirrorRaises ==
  ASSUME TypeOK, TypeOK', DeletesErased, NEW q \in wire, SecondaryApply(q), ~UNCHANGED M!vars
  PROVE  \E p \in M!Promise : M!Raise(p)
<1> DEFINE p == [id |-> q.id, at |-> q.at]
<1>0. UNCHANGED <<erased, outbox>> /\ secondary' = Monotonic(secondary, q) /\ q \in Request
      /\ secondary \in [Id -> Stamp] /\ (q.op = "delete" => q.id \in erased)
  BY DEF SecondaryApply, history, TypeOK, DeletesErased
<1>1. q.op = "upsert" /\ q.id \notin erased /\ secondary[q.id] < q.at
  <2>1. SUFFICES ASSUME ~ (q.op = "upsert" /\ q.id \notin erased /\ secondary[q.id] < q.at)
                 PROVE  FALSE
    OBVIOUS
  <2>2. \A i \in Id : i \notin erased => secondary'[i] = secondary[i]
    BY <1>0, <2>1 DEF Monotonic, Applied, Request, Stamp
  <2>3. MirrorStore' = MirrorStore
    BY <1>0, <2>2 DEF MirrorStore
  <2>4. \A x \in Promise : Owed(x)' <=> Owed(x)
    BY <1>0, <2>2 DEF Owed, Logged, Promise
  <2> QED BY <2>3, <2>4, MirrorStutters
<1>2. secondary' = [secondary EXCEPT ![q.id] = q.at]
  BY <1>0, <1>1 DEF Monotonic, Applied, Request, Stamp
<1>3. p \in Promise /\ MirrorStore[p.id] < p.at
  BY <1>0, <1>1 DEF Promise, MirrorStore, Request
<1>4. MirrorStore' = [MirrorStore EXCEPT ![p.id] = p.at]
  BY <1>0, <1>1, <1>2 DEF MirrorStore, Request
<1>5. \A x \in Promise : Owed(x)' <=> Owed(x) /\ (x.id = p.id => x.at > p.at)
  BY <1>0, <1>1, <1>2 DEF Owed, Logged, Promise, Request, Stamp
<1>6. MirrorOutstanding' = {o \in MirrorOutstanding : o.id = p.id => o.at > p.at}
  BY <1>5, OutstandingIs, OutstandingIsNext
<1> QED BY <1>3, <1>4, <1>6 DEF M!Raise, M!Promise, Promise

LEMMA MirrorReplayed ==
  ASSUME TypeOK, TypeOK', AnsweredReached, RecReplayed
  PROVE  UNCHANGED M!vars
<1>1. UNCHANGED <<secondary, erased>> /\ Reached(rec.row) /\ outbox \ {rec.row} \subseteq outbox'
      /\ outbox' \subseteq outbox /\ UNCHANGED MirrorStore
  BY DEF RecReplayed, AnsweredReached, stores, history, MirrorStore
<1>2. \A i \in Id : secondary[i] \in Nat
  BY DEF TypeOK, Stamp
<1>3. \A x \in Promise : Owed(x)' <=> Owed(x)
  BY <1>1, <1>2 DEF Owed, Logged, Reached, Promise, Stamp
<1> QED BY <1>1, <1>3, MirrorStutters

LEMMA MirrorStep ==
  ASSUME IInv, IInv', [Next]_vars
  PROVE  [M!Next]_(M!vars)
<1>0. TypeOK /\ TypeOK' /\ DeletesErased /\ AnsweredReached
  BY DEF IInv
<1>1. ASSUME UNCHANGED <<secondary, erased, outbox>> PROVE UNCHANGED M!vars
  BY <1>1 DEF M!vars, MirrorStore, MirrorOutstanding
<1>2. ASSUME NEW w \in Writer, NEW op \in Ops, NEW i \in Id, BeginRender(w, op, i) \/ BeginEdge(w, op, i)
      PROVE  [M!Next]_(M!vars)
  <2>1. UNCHANGED <<secondary, outbox>> /\ erased' = IF op = "delete" THEN erased \union {i} ELSE erased
    BY <1>2 DEF BeginRender, BeginEdge, Begin, stores, logs
  <2> QED BY <1>0, <1>1, <2>1, MirrorForgets DEF M!Next
<1>3. ASSUME NEW w \in Writer, LogPending(w) PROVE [M!Next]_(M!vars)
  BY <1>0, <1>3, MirrorAccepts DEF M!Next
<1>4. ASSUME NEW q \in wire, SecondaryApply(q) PROVE [M!Next]_(M!vars)
  BY <1>0, <1>4, MirrorRaises DEF M!Next
<1>5. CASE RecReplayed
  BY <1>0, <1>5, MirrorReplayed
<1>6. ASSUME NEW w \in Writer, PrimaryOk(w) \/ PrimaryFail(w) \/ CallOk(w) \/ CallFail(w)
      PROVE  UNCHANGED <<secondary, erased, outbox>>
  BY <1>6 DEF PrimaryOk, PrimaryFail, CallOk, CallFail, stores, logs, history
<1>7. ASSUME NEW q \in wire, SecondaryLose(q) PROVE UNCHANGED <<secondary, erased, outbox>>
  BY <1>7 DEF SecondaryLose, stores, logs, history
<1>8. CASE Crash \/ UNCHANGED vars \/ (Reconcile /\ ~RecReplayed)
  <2>1. UNCHANGED <<secondary, erased, outbox>>
    BY <1>8 DEF Crash, vars, Reconcile, RecStart, RecSend, RecCallFail, RecPending, RecApply,
                RecApplyFail, RecAck, stores, logs, history
  <2> QED BY <1>1, <2>1
<1> QED BY <1>1, <1>2, <1>3, <1>4, <1>5, <1>6, <1>7, <1>8 DEF Next, Call

(* The dual store implements the abstract mirror: a write is outstanding only *)
(* while it is logged, and is discharged only when the secondary reached it.  *)
THEOREM MirrorImplemented == Spec => ImplementsMirror
<1>1. Init => M!Init
  BY DEF Init, M!Init, MirrorStore, MirrorOutstanding, Absent
<1>2. IInv /\ IInv' /\ [Next]_vars => [M!Next]_(M!vars)
  BY MirrorStep
<1> QED BY <1>1, <1>2, InvariantHolds, PTL DEF Spec, ImplementsMirror, M!Spec

-----------------------------------------------------------------------------
(* The stores agree in the end *)

\* The primary has had version t of record i, and what a write carries.
Known(i, t) == t = Absent \/ [id |-> i, at |-> t] \in seen
HadIn(c, S) == c.op = "upsert" => c.at = Absent \/ [id |-> c.id, at |-> c.at] \in S
Had(c) == HadIn(c, seen)

PrimaryKnown == \A i \in Id : Known(i, primary[i])

\* What is mirrored, logged, replayed or acknowledged the primary has had.
WritersHad == \A w \in Writer : writer[w].mirror \/ writer[w].pc = "log" => Had(writer[w])
WireHad    == \A q \in wire : ~q.toPrimary => Had(q)
RowsHad    == \A r \in outbox \union rec.rows \union {rec.row} \union rec.acks : Had(r)

\* What waits for the primary has reached the secondary, ...
QueueReached == \A r \in queue \union rec.items : Reached(r)

\* ... what the secondary holds the primary has had, or it waits for it, ...
Waiting(i) == \E r \in queue : r.op = "upsert" /\ r.id = i /\ r.at = secondary[i]
SecondaryKnown == \A i \in Id : i \in erased \/ Known(i, secondary[i]) \/ Waiting(i)

\* ... and what the primary has had the secondary has, or it is still on its way.
Held(p) == \E w \in Writer : writer[w].pc \in {"sent", "log"} /\ p \in Promised(writer[w])
Accounted(p) == \/ p.id \in erased
                \/ secondary[p.id] >= p.at
                \/ p \in unlogged \union forgotten
                \/ Logged(p)
                \/ Held(p)
SeenAccounted == \A p \in seen : Accounted(p)

ConvInv == /\ PrimaryKnown /\ WritersHad /\ WireHad /\ RowsHad
           /\ QueueReached /\ SecondaryKnown /\ SeenAccounted

LEMMA ConvInit == Init => ConvInv
  BY DEF Init, ConvInv, PrimaryKnown, Known, WritersHad, WireHad, RowsHad, Had, HadIn, QueueReached,
         SecondaryKnown, SeenAccounted, IdleWriter, IdleRec, NoRow, Absent

\* What a step does to the primary: nothing, or the version of some call, which it
\* has had from then on.  A step that brings a queued row there leaves the rest alone.
LEMMA PrimarySteps ==
  ASSUME TypeOK, [Next]_vars
  PROVE  \/ UNCHANGED <<primary, seen>>
         \/ \E w \in Writer : /\ writer[w].pc = "primary" /\ (PrimaryOk(w) \/ PrimaryFail(w))
                              /\ primary' = Applied(primary, writer[w])
                              /\ seen' = seen \union Promised(writer[w])
         \/ \E r \in rec.items : /\ RecApply
                                 /\ primary' = Applied(primary, r)
                                 /\ seen' = seen \union Promised(r)
<1> USE DEF stores, logs, history
<1>1. ASSUME NEW w \in Writer, Call(w), ~PrimaryOk(w), ~PrimaryFail(w)
      PROVE  UNCHANGED <<primary, seen>>
  BY <1>1 DEF Call, BeginRender, BeginEdge, Begin, CallOk, CallFail, LogPending
<1>2. ASSUME NEW w \in Writer, PrimaryOk(w) \/ PrimaryFail(w)
      PROVE  \/ UNCHANGED <<primary, seen>>
             \/ /\ writer[w].pc = "primary"
                /\ primary' = Applied(primary, writer[w])
                /\ seen' = seen \union Promised(writer[w])
  BY <1>2 DEF PrimaryOk, PrimaryFail
<1>3. ASSUME NEW q \in wire, SecondaryApply(q) \/ SecondaryLose(q)
      PROVE  UNCHANGED <<primary, seen>>
  BY <1>3 DEF SecondaryApply, SecondaryLose
<1>4. ASSUME Reconcile, ~RecApply PROVE UNCHANGED <<primary, seen>>
  BY <1>4 DEF Reconcile, RecStart, RecSend, RecReplayed, RecCallFail, RecPending,
              RecApplyFail, RecAck
<1>5. CASE Crash
  BY <1>5 DEF Crash
<1>6. CASE UNCHANGED vars
  BY <1>6 DEF vars
<1>7. CASE RecApply
  BY <1>7 DEF RecApply
<1>. QED
  BY <1>1, <1>2, <1>3, <1>4, <1>5, <1>6, <1>7 DEF Next

LEMMA GhostsGrow ==
  ASSUME TypeOK, [Next]_vars
  PROVE  seen \subseteq seen' /\ forgotten \subseteq forgotten'
<1>1. seen \subseteq seen'
  BY PrimarySteps
<1>2. forgotten \subseteq forgotten'
  <2> USE DEF stores, logs, history
  <2>1. ASSUME NEW w \in Writer, Call(w) PROVE forgotten \subseteq forgotten'
    BY <2>1 DEF Call, BeginRender, BeginEdge, Begin, PrimaryOk, PrimaryFail, CallOk,
                CallFail, LogPending
  <2>2. ASSUME NEW q \in wire, SecondaryApply(q) \/ SecondaryLose(q)
        PROVE  forgotten \subseteq forgotten'
    BY <2>2 DEF SecondaryApply, SecondaryLose
  <2>3. CASE Reconcile
    BY <2>3 DEF Reconcile, RecStart, RecSend, RecReplayed, RecCallFail, RecPending,
                RecApply, RecApplyFail, RecAck
  <2>4. CASE Crash
    BY <2>4 DEF Crash
  <2>5. CASE UNCHANGED vars
    BY <2>5 DEF vars
  <2>. QED
    BY <2>1, <2>2, <2>3, <2>4, <2>5 DEF Next
<1>. QED
  BY <1>1, <1>2

LEMMA HadStays ==
  ASSUME TypeOK, [Next]_vars, NEW c, Had(c)
  PROVE  HadIn(c, seen')
BY GhostsGrow DEF Had, HadIn

LEMMA PrimaryKnownStep ==
  ASSUME TypeOK, PrimaryKnown, [Next]_vars
  PROVE  PrimaryKnown'
<1>1. CASE UNCHANGED <<primary, seen>>
  BY <1>1 DEF PrimaryKnown, Known
<1>2. ASSUME NEW c, c.id \in Id, primary' = Applied(primary, c), seen' = seen \union Promised(c),
             c.op \in {"upsert", "delete"}
      PROVE  PrimaryKnown'
  <2>1. ASSUME NEW i \in Id PROVE Known(i, primary[i])'
    <3>1. primary \in [Id -> Stamp] /\ Known(i, primary[i])
      BY DEF TypeOK, PrimaryKnown
    <3>2. CASE i # c.id
      <4>1. primary'[i] = primary[i]
        BY <1>2, <3>1, <3>2 DEF Applied
      <4>. QED
        BY <1>2, <3>1, <4>1 DEF Known
    <3>3. CASE i = c.id /\ c.op = "delete"
      BY <1>2, <3>1, <3>3 DEF Applied, Known
    <3>4. CASE i = c.id /\ c.op = "upsert"
      <4>1. primary'[i] = c.at
        BY <1>2, <3>1, <3>4 DEF Applied
      <4>2. [id |-> i, at |-> c.at] \in seen'
        BY <1>2, <3>4 DEF Promised
      <4>. QED
        BY <4>1, <4>2 DEF Known
    <3>. QED
      BY <1>2, <3>2, <3>3, <3>4
  <2>. QED
    BY <2>1 DEF PrimaryKnown
<1>3. ASSUME NEW r \in rec.items PROVE r.id \in Id /\ r.op \in {"upsert", "delete"}
  BY DEF TypeOK, RecState, Row
<1>. QED
  BY <1>1, <1>2, <1>3, PrimarySteps, WriterFields

\* The call that has just reached the primary, and what is sent, logged or replayed
\* on behalf of one that has.
LEMMA JustHad ==
  ASSUME NEW c, Promised(c) \subseteq seen'
  PROVE  HadIn(c, seen')
BY DEF Promised, HadIn

LEMMA WritersHadStep ==
  ASSUME TypeOK, WritersHad, [Next]_vars
  PROVE  WritersHad'
<1> USE DEF stores, logs, history
<1> DEFINE Fits(x) == (x.mirror \/ x.pc = "log") => HadIn(x, seen')
<1>1. ASSUME NEW w \in Writer, writer'[w] = writer[w] PROVE Fits(writer'[w])
  BY <1>1, HadStays DEF WritersHad, Had, HadIn
<1>2. Fits(IdleWriter)
  BY DEF IdleWriter
\* One call moves.
<1>3. ASSUME NEW w \in Writer, NEW y, Fits(y), writer' = [writer EXCEPT ![w] = y]
      PROVE  WritersHad'
  <2>1. writer \in [Writer -> WriterState]
    BY DEF TypeOK
  <2>2. writer'[w] = y /\ \A v \in Writer \ {w} : writer'[v] = writer[v]
    BY <1>3, <2>1
  <2>3. \A v \in Writer : Fits(writer'[v])
    BY <1>1, <1>3, <2>2
  <2>. QED
    BY <2>3 DEF WritersHad, Had
<1>4. ASSUME UNCHANGED writer PROVE WritersHad'
  BY <1>1, <1>4 DEF WritersHad, Had
<1>5. ASSUME NEW w \in Writer, NEW op, NEW i, NEW pc, Begin(w, op, i, pc), pc # "log" PROVE WritersHad'
  <2>1. PICK y : y = [pc |-> pc, op |-> op, id |-> i, at |-> clock + 1, mirror |-> FALSE]
    OBVIOUS
  <2>2. ~y.mirror /\ y.pc # "log" /\ writer' = [writer EXCEPT ![w] = y]
    BY <1>5, <2>1 DEF Begin
  <2>. QED
    BY <1>3, <2>2
<1>6. ASSUME NEW w \in Writer, PrimaryOk(w) PROVE WritersHad'
  <2>1. PICK y : y = [writer[w] EXCEPT !.pc = "sent", !.mirror = TRUE]
    OBVIOUS
  <2>2. writer[w] \in WriterState
    BY DEF TypeOK
  <2>3. y.op = writer[w].op /\ y.id = writer[w].id /\ y.at = writer[w].at
    BY <2>1, <2>2 DEF WriterState
  <2>4. Promised(writer[w]) \subseteq seen' /\ writer' = [writer EXCEPT ![w] = y]
    BY <1>6, <2>1 DEF PrimaryOk
  <2>5. Fits(y)
    BY <2>3, <2>4, JustHad DEF Had, HadIn
  <2>. QED
    BY <1>3, <2>4, <2>5
<1>7. ASSUME NEW w \in Writer, PrimaryFail(w) PROVE WritersHad'
  <2>1. PICK y : y = [writer[w] EXCEPT !.pc = "sent"]
    OBVIOUS
  <2>2. /\ y.op = writer[w].op /\ y.id = writer[w].id /\ y.at = writer[w].at
        /\ y.mirror = writer[w].mirror /\ y.pc # "log"
    BY <2>1 DEF TypeOK, WriterState
  <2>3. writer' = [writer EXCEPT ![w] = y]
    BY <1>7, <2>1 DEF PrimaryFail
  <2>4. Fits(y)
    BY <2>2, HadStays DEF WritersHad, Had, HadIn
  <2>. QED
    BY <1>3, <2>3, <2>4
<1>8. ASSUME NEW w \in Writer, CallOk(w) \/ LogPending(w) PROVE WritersHad'
  BY <1>2, <1>3, <1>8 DEF CallOk, LogPending
<1>9. ASSUME NEW w \in Writer, CallFail(w) PROVE WritersHad'
  <2>1. PICK y : y = [writer[w] EXCEPT !.pc = "log"]
    OBVIOUS
  <2>2. /\ y.op = writer[w].op /\ y.id = writer[w].id /\ y.at = writer[w].at
    BY <2>1 DEF TypeOK, WriterState
  <2>3. CASE writer[w].mirror
    <3>1. writer' = [writer EXCEPT ![w] = y]
      BY <1>9, <2>1, <2>3 DEF CallFail
    <3>2. Fits(y)
      BY <2>2, <2>3, HadStays DEF WritersHad, Had, HadIn
    <3>. QED
      BY <1>3, <3>1, <3>2
  <2>4. CASE ~writer[w].mirror
    <3>1. writer' = [writer EXCEPT ![w] = IdleWriter]
      BY <1>9, <2>4 DEF CallFail
    <3>. QED
      BY <1>2, <1>3, <3>1
  <2>. QED
    BY <2>3, <2>4
<1>10. ASSUME NEW q \in wire, SecondaryApply(q) PROVE WritersHad'
  <2>1. CASE q.from \in Writer
    <3>1. PICK y : y = [writer[q.from] EXCEPT !.pc = "answered"]
      OBVIOUS
    <3>2. /\ y.op = writer[q.from].op /\ y.id = writer[q.from].id /\ y.at = writer[q.from].at
          /\ y.mirror = writer[q.from].mirror /\ y.pc # "log"
      BY <2>1, <3>1 DEF TypeOK, WriterState
    <3>3. writer' = [writer EXCEPT ![q.from] = y]
      BY <1>10, <2>1, <3>1 DEF SecondaryApply
    <3>4. Fits(y)
      BY <2>1, <3>2, HadStays DEF WritersHad, Had, HadIn
    <3>. QED
      BY <1>3, <2>1, <3>3, <3>4
  <2>2. CASE q.from \notin Writer
    BY <1>4, <1>10, <2>2 DEF SecondaryApply
  <2>. QED
    BY <2>1, <2>2
<1>11. CASE Crash
  <2>1. ASSUME NEW w \in Writer PROVE writer'[w] = writer[w] \/ writer'[w] = IdleWriter
    BY <1>11, <2>1 DEF Crash
  <2>2. \A w \in Writer : Fits(writer'[w])
    BY <1>1, <1>2, <2>1
  <2>. QED
    BY <2>2 DEF WritersHad, Had
<1>12. ASSUME NEW w \in Writer, NEW op \in Ops, NEW i \in Id, BeginRender(w, op, i) \/ BeginEdge(w, op, i)
       PROVE  WritersHad'
  BY <1>5, <1>12 DEF BeginRender, BeginEdge
<1>13. ASSUME NEW q \in wire, SecondaryLose(q) PROVE WritersHad'
  BY <1>4, <1>13 DEF SecondaryLose
<1>14. CASE Reconcile
  BY <1>4, <1>14 DEF Reconcile, RecStart, RecSend, RecReplayed, RecCallFail, RecPending,
                     RecApply, RecApplyFail, RecAck
<1>15. CASE UNCHANGED vars
  BY <1>4, <1>15 DEF vars
<1>. QED
  BY <1>6, <1>7, <1>8, <1>9, <1>10, <1>11, <1>12, <1>13, <1>14, <1>15 DEF Next, Call

\* An abandoned request still carries what it carried.
SameCall(p, q) == p.op = q.op /\ p.id = q.id /\ p.at = q.at /\ p.toPrimary = q.toPrimary
LEMMA AbandonSame ==
  ASSUME wire \subseteq Request, NEW S, Abandon(S), NEW p \in wire'
  PROVE  \E q \in wire : SameCall(p, q)
<1>1. PICK q \in wire : p = IF q.from \in S THEN [q EXCEPT !.from = "nobody"] ELSE q
  BY DEF Abandon
<1>2. q \in Request
  OBVIOUS
<1>3. SameCall([q EXCEPT !.from = "nobody"], q) /\ SameCall(q, q)
  BY <1>2 DEF SameCall, Request
<1>4. SameCall(p, q)
  <2>1. CASE q.from \in S
    <3>1. p = [q EXCEPT !.from = "nobody"]
      BY <1>1, <2>1
    <3>. QED
      BY <1>3, <3>1, Zenon
  <2>2. CASE q.from \notin S
    <3>1. p = q
      BY <1>1, <2>2
    <3>. QED
      BY <1>3, <3>1, Zenon
  <2>. QED
    BY <2>1, <2>2
<1>. QED
  BY <1>4

LEMMA WireHadStep ==
  ASSUME TypeOK, WireHad, RowsHad, [Next]_vars
  PROVE  WireHad'
<1> USE DEF stores, logs, history
<1>1. ASSUME NEW q \in wire, ~q.toPrimary PROVE HadIn(q, seen')
  BY <1>1, HadStays DEF WireHad, Had, HadIn
<1>2. ASSUME wire' \subseteq wire PROVE WireHad'
  BY <1>1, <1>2 DEF WireHad, Had
<1>3. ASSUME NEW S, Abandon(S) PROVE WireHad'
  <2>1. \A p \in wire' : \E q \in wire : SameCall(p, q)
    BY <1>3, AbandonSame DEF TypeOK
  <2>. QED
    BY <1>1, <2>1 DEF WireHad, SameCall, Had, HadIn
<1>4. ASSUME NEW who, NEW c, NEW b, Send(who, c, b), ~b => HadIn(c, seen') PROVE WireHad'
  <2>1. PICK p : p = RequestOf(who, c, b)
    OBVIOUS
  <2>2. p.op = c.op /\ p.id = c.id /\ p.at = c.at /\ p.toPrimary = b
    BY <2>1 DEF RequestOf
  <2>3. wire' = wire \union {p}
    BY <1>4, <2>1 DEF Send
  <2>4. ~b => HadIn(p, seen')
    BY <1>4, <2>2 DEF Had, HadIn
  <2>. QED
    BY <1>1, <2>2, <2>3, <2>4 DEF WireHad, Had
<1>5. ASSUME NEW w \in Writer, PrimaryOk(w) PROVE WireHad'
  <2>1. Promised(writer[w]) \subseteq seen' /\ Send(w, writer[w], FALSE)
    BY <1>5 DEF PrimaryOk
  <2>3. PICK c : c = writer[w]
    OBVIOUS
  <2>4. HadIn(c, seen')
    BY <2>1, <2>3, JustHad DEF Had, HadIn
  <2>. QED
    BY <1>4, <2>1, <2>3, <2>4
<1>6. ASSUME NEW w \in Writer, PrimaryFail(w) PROVE WireHad'
  BY <1>4, <1>6 DEF PrimaryFail
<1>7. ASSUME NEW w \in Writer, NEW op \in Ops, NEW i \in Id, BeginEdge(w, op, i) PROVE WireHad'
  BY <1>4, <1>7 DEF BeginEdge
<1>8. CASE RecSend
  <2>1. PICK r \in rec.rows : Send("reconciler", r, FALSE)
    BY <1>8 DEF RecSend
  <2>2. HadIn(r, seen')
    BY HadStays DEF RowsHad, Had, HadIn
  <2>. QED
    BY <1>4, <2>1, <2>2
<1>9. ASSUME NEW w \in Writer, CallFail(w) PROVE WireHad'
  BY <1>3, <1>9 DEF CallFail
<1>10. CASE RecCallFail \/ Crash
  BY <1>3, <1>10 DEF RecCallFail, Crash
<1>11. ASSUME NEW w \in Writer, NEW op \in Ops, NEW i \in Id, BeginRender(w, op, i) PROVE WireHad'
  BY <1>2, <1>11 DEF BeginRender
<1>12. ASSUME NEW w \in Writer, CallOk(w) \/ LogPending(w) PROVE WireHad'
  BY <1>2, <1>12 DEF CallOk, LogPending
<1>13. ASSUME NEW q \in wire, SecondaryApply(q) \/ SecondaryLose(q) PROVE WireHad'
  BY <1>2, <1>13 DEF SecondaryApply, SecondaryLose
<1>14. ASSUME Reconcile, ~RecSend, ~RecCallFail PROVE WireHad'
  BY <1>2, <1>14 DEF Reconcile, RecStart, RecReplayed, RecPending, RecApply, RecApplyFail, RecAck
<1>15. CASE UNCHANGED vars
  BY <1>2, <1>15 DEF vars
<1>. QED
  BY <1>5, <1>6, <1>7, <1>8, <1>9, <1>10, <1>11, <1>12, <1>13, <1>14, <1>15 DEF Next, Call

LEMMA RestartLists ==
  /\ RecStart => rec'.items = {} /\ rec'.acks = {}
  /\ RecPending => rec'.items \subseteq queue /\ rec'.acks = {}
  /\ IdleRec.items = {} /\ IdleRec.acks = {} /\ IdleRec.rows = {} /\ IdleRec.row = NoRow
<1>1. \A S : /\ [IdleRec EXCEPT !.pc = "replay", !.rows = S].items = {}
             /\ [IdleRec EXCEPT !.pc = "replay", !.rows = S].acks = {}
             /\ [IdleRec EXCEPT !.pc = "apply", !.items = S].items = S
             /\ [IdleRec EXCEPT !.pc = "apply", !.items = S].acks = {}
  BY DEF IdleRec
<1>2. /\ [IdleRec EXCEPT !.pc = "replay"].items = {}
      /\ [IdleRec EXCEPT !.pc = "replay"].acks = {}
      /\ IdleRec.items = {} /\ IdleRec.acks = {} /\ IdleRec.rows = {} /\ IdleRec.row = NoRow
  BY DEF IdleRec
<1>3. Oldest(queue, Limit) \subseteq queue
  BY DEF Oldest
<1>4. ASSUME RecStart PROVE rec'.items = {} /\ rec'.acks = {}
  BY <1>1, <1>2, <1>4 DEF RecStart
<1>5. ASSUME RecPending PROVE rec'.items \subseteq queue /\ rec'.acks = {}
  <2>1. CASE rec' = IdleRec
    BY <1>2, <2>1
  <2>2. CASE rec' = [IdleRec EXCEPT !.pc = "apply", !.items = Oldest(queue, Limit)]
    <3>1. rec'.items = Oldest(queue, Limit) /\ rec'.acks = {}
      BY <1>1, <2>2
    <3>. QED
      BY <1>3, <3>1
  <2>. QED
    BY <1>5, <2>1, <2>2 DEF RecPending
<1>. QED
  BY <1>2, <1>4, <1>5

LEMMA RowsHadStep ==
  ASSUME TypeOK, WritersHad, RowsHad, [Next]_vars
  PROVE  RowsHad'
<1> USE DEF stores, logs, history
<1>1. ASSUME NEW r \in outbox \union rec.rows \union {rec.row} \union rec.acks
      PROVE  HadIn(r, seen')
  BY <1>1, HadStays DEF RowsHad
<1>2. HadIn(NoRow, seen')
  BY DEF HadIn, NoRow, Absent
\* Nothing is logged, and what the reconciliation holds it took from the log or was acknowledged.
<1>3. ASSUME outbox' \subseteq outbox,
             \A r \in rec'.rows : r \in outbox \/ r \in rec.rows,
             rec'.row = NoRow \/ rec'.row = rec.row \/ rec'.row \in rec.rows,
             \A r \in rec'.acks : r \in rec.acks \/ HadIn(r, seen')
      PROVE  RowsHad'
  BY <1>1, <1>2, <1>3 DEF RowsHad, Had
<1>4. ASSUME UNCHANGED <<outbox, rec>> PROVE RowsHad'
  BY <1>3, <1>4
<1>5. ASSUME NEW w \in Writer, LogPending(w) PROVE RowsHad'
  <2>1. PICK r : r = RowOf(writer[w])
    OBVIOUS
  <2>2. r.op = writer[w].op /\ r.id = writer[w].id /\ r.at = writer[w].at
    BY <2>1 DEF RowOf
  <2>3. outbox' \subseteq outbox \union {r} /\ UNCHANGED rec
    BY <1>5, <2>1 DEF LogPending
  <2>4. HadIn(r, seen')
    <3>1. HadIn(writer[w], seen')
      BY <1>5, HadStays DEF LogPending, WritersHad
    <3>. QED
      BY <2>2, <3>1 DEF HadIn
  <2>. QED
    BY <1>1, <2>3, <2>4 DEF RowsHad, Had
<1>6. ASSUME NEW w \in Writer, Call(w), ~LogPending(w) PROVE UNCHANGED <<outbox, rec>>
  BY <1>6 DEF Call, BeginRender, BeginEdge, Begin, PrimaryOk, PrimaryFail, CallOk, CallFail
<1>7. ASSUME NEW q \in wire, SecondaryApply(q) PROVE RowsHad'
  <2>1. outbox' = outbox /\ rec'.rows = rec.rows /\ rec'.row = rec.row /\ rec'.acks = rec.acks
    BY <1>7 DEF SecondaryApply, TypeOK, RecState
  <2>. QED
    BY <1>3, <2>1
<1>8. ASSUME NEW q \in wire, SecondaryLose(q) PROVE RowsHad'
  BY <1>4, <1>8 DEF SecondaryLose
<1>9. CASE RecStart \/ RecPending
  BY <1>3, <1>9, RestartFields, RestartLists DEF RecStart, RecPending
<1>10. CASE RecSend
  <2>1. PICK r \in rec.rows : rec' = [rec EXCEPT !.pc = "sent", !.row = r, !.rows = @ \ {r}]
    BY <1>10 DEF RecSend
  <2>2. rec'.row = r /\ rec'.rows \subseteq rec.rows /\ rec'.acks = rec.acks
    BY <2>1 DEF TypeOK, RecState
  <2>. QED
    BY <1>3, <1>10, <2>2 DEF RecSend
<1>11. CASE RecReplayed \/ RecCallFail
  <2>1. rec'.row = NoRow /\ rec'.rows = rec.rows /\ rec'.acks = rec.acks
    BY <1>11 DEF RecReplayed, RecCallFail, TypeOK, RecState
  <2>. QED
    BY <1>3, <1>11, <2>1 DEF RecReplayed, RecCallFail
<1>12. CASE RecApply
  <2>1. PICK r \in rec.items :
          /\ seen' = seen \union Promised(r)
          /\ \/ rec' = [rec EXCEPT !.items = @ \ {r}, !.acks = @ \union {r}]
             \/ rec' = [rec EXCEPT !.items = @ \ {r}]
    BY <1>12 DEF RecApply
  <2>2. rec'.row = rec.row /\ rec'.rows = rec.rows /\ rec'.acks \subseteq rec.acks \union {r}
    BY <2>1 DEF TypeOK, RecState
  <2>3. HadIn(r, seen')
    BY <2>1, JustHad
  <2>. QED
    BY <1>3, <1>12, <2>2, <2>3 DEF RecApply
<1>13. CASE RecApplyFail
  <2>1. rec'.row = rec.row /\ rec'.rows = rec.rows /\ rec'.acks = rec.acks
    BY <1>13 DEF RecApplyFail, TypeOK, RecState
  <2>. QED
    BY <1>3, <1>13, <2>1 DEF RecApplyFail
<1>14. CASE RecAck \/ Crash
  BY <1>3, <1>14, RestartLists DEF RecAck, Crash
<1>15. CASE UNCHANGED vars
  BY <1>4, <1>15 DEF vars
<1>. QED
  BY <1>4, <1>5, <1>6, <1>7, <1>8, <1>9, <1>10, <1>11, <1>12, <1>13, <1>14, <1>15 DEF Next, Reconcile

LEMMA QueueReachedStep ==
  ASSUME TypeOK, DeletesErased, QueueReached, [Next]_vars
  PROVE  QueueReached'
<1> USE DEF stores, logs, history
<1> DEFINE There(r) == r.op = "upsert" => r.id \in erased' \/ secondary'[r.id] >= r.at
<1>1. ASSUME NEW r \in queue \union rec.items PROVE There(r)
  <2>1. r \in Row /\ Reached(r)
    BY DEF QueueReached, TypeOK, RecState
  <2>. QED
    BY <2>1, ReachedStays DEF Row
<1>2. ASSUME \A r \in queue' \union rec'.items : r \in queue \/ r \in rec.items \/ There(r)
      PROVE  QueueReached'
  BY <1>1, <1>2 DEF QueueReached, Reached
<1>3. ASSUME NEW w \in Writer, Call(w) PROVE UNCHANGED <<queue, rec>>
  BY <1>3 DEF Call, BeginRender, BeginEdge, Begin, PrimaryOk, PrimaryFail, CallOk, CallFail,
              LogPending
<1>4. ASSUME NEW q \in wire, SecondaryApply(q) PROVE QueueReached'
  <2>1. rec'.items = rec.items
    BY <1>4 DEF SecondaryApply, TypeOK, RecState
  <2>2. PICK r : r = RowOf(q)
    OBVIOUS
  <2>3. r.op = q.op /\ r.id = q.id /\ r.at = q.at
    BY <2>2 DEF RowOf
  <2>4. queue' \subseteq queue \union {r}
    BY <1>4, <2>2 DEF SecondaryApply
  <2>5. There(r)
    BY <1>4, <2>3, ApplyReaches
  <2>. QED
    BY <1>2, <2>1, <2>4, <2>5
<1>5. ASSUME NEW q \in wire, SecondaryLose(q) PROVE UNCHANGED <<queue, rec>>
  BY <1>5 DEF SecondaryLose
<1>6. CASE RecStart \/ RecPending
  BY <1>2, <1>6, RestartLists DEF RecStart, RecPending
<1>7. CASE RecSend \/ RecReplayed \/ RecCallFail
  <2>1. rec'.items = rec.items /\ UNCHANGED queue
    BY <1>7 DEF RecSend, RecReplayed, RecCallFail, TypeOK, RecState
  <2>. QED
    BY <1>2, <2>1
<1>8. CASE RecApply \/ RecApplyFail
  <2>1. \E r : \/ rec' = [rec EXCEPT !.items = @ \ {r}, !.acks = @ \union {r}]
               \/ rec' = [rec EXCEPT !.items = @ \ {r}]
    BY <1>8 DEF RecApply, RecApplyFail
  <2>2. rec'.items \subseteq rec.items
    BY <2>1 DEF TypeOK, RecState
  <2>. QED
    BY <1>2, <1>8, <2>2 DEF RecApply, RecApplyFail
<1>9. CASE RecAck \/ Crash
  BY <1>2, <1>9, RestartLists DEF RecAck, Crash
<1>10. CASE UNCHANGED vars
  BY <1>2, <1>10 DEF vars
<1>. QED
  BY <1>2, <1>3, <1>4, <1>5, <1>6, <1>7, <1>8, <1>9, <1>10 DEF Next, Reconcile

LEMMA SecondaryKnownStep ==
  ASSUME TypeOK, DeletesErased, WireHad, RowsHad, SecondaryKnown, [Next]_vars
  PROVE  SecondaryKnown'
<1> USE DEF stores, logs, history
<1> DEFINE KnownThen(i, t) == t = Absent \/ [id |-> i, at |-> t] \in seen'
           WaitingIn(i, t, Q) == \E r \in Q : r.op = "upsert" /\ r.id = i /\ r.at = t
<1>1. seen \subseteq seen' /\ erased \subseteq erased'
  BY GhostsGrow, SecondarySteps
<1>2. ASSUME NEW i \in Id
      PROVE  i \in erased' \/ KnownThen(i, secondary[i]) \/ WaitingIn(i, secondary[i], queue)
  BY <1>1 DEF SecondaryKnown, Known, Waiting
<1>3. ASSUME UNCHANGED secondary, queue \subseteq queue' PROVE SecondaryKnown'
  BY <1>2, <1>3 DEF SecondaryKnown, Known, Waiting
<1>4. ASSUME NEW q \in wire, SecondaryApply(q) PROVE SecondaryKnown'
  <2>1. q \in Request /\ (q.op = "delete" => q.id \in erased) /\ q.op \in {"upsert", "delete"}
    BY DEF TypeOK, DeletesErased, Request
  <2>2. secondary \in [Id -> Stamp] /\ secondary' = Monotonic(secondary, q)
    BY <1>4 DEF TypeOK, SecondaryApply
  <2>3. queue \subseteq queue' /\ (q.toPrimary => RowOf(q) \in queue')
    BY <1>4 DEF SecondaryApply
  <2>4. RowOf(q).op = q.op /\ RowOf(q).id = q.id /\ RowOf(q).at = q.at
    BY DEF RowOf
  <2>5. ASSUME NEW i \in Id
        PROVE  i \in erased' \/ KnownThen(i, secondary'[i]) \/ WaitingIn(i, secondary'[i], queue')
    <3>1. CASE secondary'[i] = secondary[i]
      BY <1>2, <2>3, <3>1
    <3>2. CASE secondary'[i] # secondary[i]
      <4>1. i = q.id /\ (q.op = "upsert" => secondary'[i] = q.at)
        BY <2>1, <2>2, <3>2 DEF Monotonic, Applied, Request
      <4>2. CASE q.op = "delete"
        BY <1>1, <2>1, <4>1, <4>2
      <4>3. CASE q.op = "upsert" /\ q.toPrimary
        BY <2>3, <2>4, <4>1, <4>3
      <4>4. CASE q.op = "upsert" /\ ~q.toPrimary
        <5>1. HadIn(q, seen')
          BY <4>4, HadStays DEF WireHad
        <5>. QED
          BY <4>1, <4>4, <5>1 DEF HadIn
      <4>. QED
        BY <2>1, <4>2, <4>3, <4>4
    <3>. QED
      BY <3>1, <3>2
  <2>. QED
    BY <2>5 DEF SecondaryKnown, Known, Waiting
<1>5. CASE RecAck
  <2>1. UNCHANGED secondary /\ queue \ rec.acks \subseteq queue'
    BY <1>5 DEF RecAck
  <2>2. ASSUME NEW i \in Id
        PROVE  i \in erased' \/ KnownThen(i, secondary[i]) \/ WaitingIn(i, secondary[i], queue')
    <3>1. CASE WaitingIn(i, secondary[i], queue)
      <4>1. PICK r \in queue : r.op = "upsert" /\ r.id = i /\ r.at = secondary[i]
        BY <3>1
      <4>2. CASE r \in rec.acks
        <5>1. HadIn(r, seen')
          BY <4>2, HadStays DEF RowsHad
        <5>. QED
          BY <4>1, <5>1 DEF HadIn
      <4>3. CASE r \notin rec.acks
        BY <2>1, <4>1, <4>3
      <4>. QED
        BY <4>2, <4>3
    <3>. QED
      BY <1>2, <3>1
  <2>. QED
    BY <2>1, <2>2 DEF SecondaryKnown, Known, Waiting
<1>6. ASSUME NEW w \in Writer, Call(w) PROVE UNCHANGED <<secondary, queue>>
  BY <1>6 DEF Call, BeginRender, BeginEdge, Begin, PrimaryOk, PrimaryFail, CallOk, CallFail,
              LogPending
<1>7. ASSUME NEW q \in wire, SecondaryLose(q) PROVE UNCHANGED <<secondary, queue>>
  BY <1>7 DEF SecondaryLose
<1>8. ASSUME Reconcile, ~RecAck PROVE UNCHANGED <<secondary, queue>>
  BY <1>8 DEF Reconcile, RecStart, RecSend, RecReplayed, RecCallFail, RecPending, RecApply,
              RecApplyFail
<1>9. ASSUME Crash \/ UNCHANGED vars PROVE UNCHANGED <<secondary, queue>>
  BY <1>9 DEF Crash, vars
<1>. QED
  BY <1>3, <1>4, <1>5, <1>6, <1>7, <1>8, <1>9 DEF Next

\* What a step may do to a version that is on its way to the secondary: leave it with
\* its call, log it, deliver it, or forget it, which the history shows.
SafeThen(p) == \/ p.id \in erased' \/ secondary'[p.id] >= p.at
               \/ p \in unlogged' \union forgotten'
LoggedThen(p) == \E r \in outbox' : r.op = "upsert" /\ r.id = p.id /\ r.at = p.at
HeldThen(p) == \E w \in Writer : writer'[w].pc \in {"sent", "log"} /\ p \in Promised(writer'[w])

LEMMA PromisedSame ==
  ASSUME NEW x, NEW y, x.op = y.op, x.id = y.id, x.at = y.at
  PROVE  Promised(x) = Promised(y)
BY DEF Promised

LEMMA SafeStays ==
  ASSUME TypeOK, DeletesErased, [Next]_vars, NEW p \in Promise,
         p.id \in erased \/ secondary[p.id] >= p.at \/ p \in unlogged \union forgotten
  PROVE  SafeThen(p)
<1>1. secondary[p.id] \in Nat /\ secondary'[p.id] \in Nat /\ p.at \in Nat /\ p.id \in Id
  BY TypeStep DEF TypeOK, Stamp, Promise
<1>. QED
  BY <1>1, SecondarySteps, SecondaryRises, GhostsGrow DEF SafeThen

\* A call that is under way in the secondary, or about to be logged.
LEMMA HeldStep ==
  ASSUME TypeOK, DeletesErased, WireMatches, [Next]_vars,
         NEW p \in seen, NEW w \in Writer, writer[w].pc \in {"sent", "log"},
         p \in Promised(writer[w])
  PROVE  SafeThen(p) \/ LoggedThen(p) \/ HeldThen(p)
<1> USE DEF stores, logs, history
<1>1. writer[w].op = "upsert" /\ p = [id |-> writer[w].id, at |-> writer[w].at]
  BY DEF Promised
<1>2. CASE writer'[w] = writer[w]
  BY <1>2 DEF HeldThen
<1>3. CASE CallFail(w)
  <2>1. CASE writer[w].mirror
    <3>1. PICK y : y = [writer[w] EXCEPT !.pc = "log"]
      OBVIOUS
    <3>2. y.pc = "log" /\ y.op = writer[w].op /\ y.id = writer[w].id /\ y.at = writer[w].at
      BY <3>1 DEF TypeOK, WriterState
    <3>3. writer'[w] = y
      BY <1>3, <2>1, <3>1 DEF CallFail, TypeOK
    <3>4. p \in Promised(y)
      BY <3>2, PromisedSame
    <3>. QED
      BY <3>2, <3>3, <3>4 DEF HeldThen
  <2>2. CASE ~writer[w].mirror
    <3>1. p \in Unheard(w)
      BY DEF Unheard
    <3>2. p \in forgotten'
      BY <1>3, <2>2, <3>1 DEF CallFail
    <3>. QED
      BY <3>2 DEF SafeThen
  <2>. QED
    BY <2>1, <2>2
<1>4. CASE LogPending(w)
  <2>1. CASE outbox' = outbox \union {RowOf(writer[w])}
    <3>1. RowOf(writer[w]).op = "upsert" /\ RowOf(writer[w]).id = p.id /\ RowOf(writer[w]).at = p.at
      BY <1>1 DEF RowOf
    <3>. QED
      BY <2>1, <3>1 DEF LoggedThen
  <2>2. CASE unlogged' = unlogged \union Promised(writer[w])
    BY <2>2 DEF SafeThen
  <2>. QED
    BY <1>4, <2>1, <2>2 DEF LogPending
<1>5. ASSUME NEW v \in Writer, Call(v), ~CallFail(w), ~LogPending(w)
      PROVE  writer'[w] = writer[w]
  <2>1. CASE v = w
    BY <1>5, <2>1 DEF Call, BeginRender, BeginEdge, Begin, PrimaryOk, PrimaryFail, CallOk
  <2>2. CASE v # w
    BY <1>5, <2>2 DEF Call, BeginRender, BeginEdge, Begin, PrimaryOk, PrimaryFail, CallOk,
                      CallFail, LogPending, TypeOK
  <2>. QED
    BY <2>1, <2>2
<1>6. ASSUME NEW q \in wire, SecondaryApply(q) PROVE SafeThen(p) \/ writer'[w] = writer[w]
  <2>1. CASE q.from = w
    <3>1. q.op = "upsert" /\ q.id = p.id /\ q.at = p.at
      BY <1>1, <2>1 DEF WireMatches, Carries
    <3>. QED
      BY <1>6, <3>1, ApplyReaches DEF SafeThen
  <2>2. CASE q.from # w
    BY <1>6, <2>2 DEF SecondaryApply, TypeOK
  <2>. QED
    BY <2>1, <2>2
<1>7. ASSUME Crash PROVE SafeThen(p) \/ writer'[w] = writer[w]
  <2>1. CASE w \in Render
    <3>1. p \in Unheard(w)
      BY DEF Unheard
    <3>2. p \in forgotten'
      BY <1>7, <2>1, <3>1 DEF Crash
    <3>. QED
      BY <3>2 DEF SafeThen
  <2>2. CASE w \notin Render
    BY <1>7, <2>2 DEF Crash
  <2>. QED
    BY <2>1, <2>2
<1>8. ASSUME NEW q \in wire, SecondaryLose(q) PROVE writer'[w] = writer[w]
  BY <1>8 DEF SecondaryLose
<1>9. ASSUME Reconcile PROVE writer'[w] = writer[w]
  BY <1>9 DEF Reconcile, RecStart, RecSend, RecReplayed, RecCallFail, RecPending, RecApply,
              RecApplyFail, RecAck
<1>10. ASSUME UNCHANGED vars PROVE writer'[w] = writer[w]
  BY <1>10 DEF vars
<1>. QED
  BY <1>2, <1>3, <1>4, <1>5, <1>6, <1>7, <1>8, <1>9, <1>10 DEF Next

LEMMA LoggedStep ==
  ASSUME TypeOK, DeletesErased, AnsweredReached, [Next]_vars, NEW p \in seen, Logged(p)
  PROVE  SafeThen(p) \/ LoggedThen(p)
<1> USE DEF stores, logs, history
<1>1. PICK r \in outbox : r.op = "upsert" /\ r.id = p.id /\ r.at = p.at
  BY DEF Logged
<1>2. CASE r \in outbox'
  BY <1>1, <1>2 DEF LoggedThen
<1>3. CASE RecReplayed /\ r = rec.row
  <2>1. p.id \in erased \/ secondary[p.id] >= p.at
    BY <1>1, <1>3 DEF RecReplayed, AnsweredReached, Reached
  <2>2. p \in Promise
    BY DEF TypeOK
  <2>. QED
    BY <2>1, <2>2, SafeStays
<1>4. ASSUME RecReplayed, r # rec.row PROVE r \in outbox'
  BY <1>4 DEF RecReplayed
<1>5. ASSUME NEW w \in Writer, Call(w) PROVE outbox \subseteq outbox'
  BY <1>5 DEF Call, BeginRender, BeginEdge, Begin, PrimaryOk, PrimaryFail, CallOk, CallFail,
              LogPending
<1>6. ASSUME NEW q \in wire, SecondaryApply(q) \/ SecondaryLose(q) PROVE UNCHANGED outbox
  BY <1>6 DEF SecondaryApply, SecondaryLose
<1>7. ASSUME Reconcile, ~RecReplayed PROVE UNCHANGED outbox
  BY <1>7 DEF Reconcile, RecStart, RecSend, RecCallFail, RecPending, RecApply,
              RecApplyFail, RecAck
<1>8. ASSUME Crash \/ UNCHANGED vars PROVE UNCHANGED outbox
  BY <1>8 DEF Crash, vars
<1>. QED
  BY <1>2, <1>3, <1>4, <1>5, <1>6, <1>7, <1>8 DEF Next

\* A version the primary has only now.
LEMMA NewlySeen ==
  ASSUME TypeOK, DeletesErased, QueueReached, [Next]_vars, NEW p \in seen', p \notin seen
  PROVE  SafeThen(p) \/ HeldThen(p)
<1>1. ASSUME NEW w \in Writer, PrimaryOk(w) \/ PrimaryFail(w), p \in Promised(writer[w])
      PROVE  HeldThen(p)
  <2>1. PICK y : y = writer'[w]
    OBVIOUS
  <2>2. writer \in [Writer -> WriterState] /\ writer[w] \in WriterState
    BY DEF TypeOK
  <2>3. y.pc = "sent" /\ y.op = writer[w].op /\ y.id = writer[w].id /\ y.at = writer[w].at
    <3>1. CASE PrimaryOk(w)
      <4>1. y = [writer[w] EXCEPT !.pc = "sent", !.mirror = TRUE]
        BY <2>1, <2>2, <3>1 DEF PrimaryOk
      <4>. QED
        BY <2>2, <4>1 DEF WriterState
    <3>2. CASE PrimaryFail(w)
      <4>1. y = [writer[w] EXCEPT !.pc = "sent"]
        BY <2>1, <2>2, <3>2 DEF PrimaryFail
      <4>. QED
        BY <2>2, <4>1 DEF WriterState
    <3>. QED
      BY <1>1, <3>1, <3>2
  <2>4. p \in Promised(y)
    BY <1>1, <2>3, PromisedSame
  <2>. QED
    BY <2>1, <2>3, <2>4 DEF HeldThen
<1>2. ASSUME NEW r \in rec.items, p \in Promised(r) PROVE SafeThen(p)
  <2>1. r.op = "upsert" /\ p = [id |-> r.id, at |-> r.at]
    BY <1>2 DEF Promised
  <2>2. r \in Row /\ Reached(r)
    BY DEF QueueReached, TypeOK, RecState
  <2>3. p.id \in erased \/ secondary[p.id] >= p.at
    BY <2>1, <2>2 DEF Reached
  <2>4. p \in Promise
    BY <2>1, <2>2 DEF Promise, Row
  <2>. QED
    BY <2>3, <2>4, SafeStays
<1>. QED
  BY <1>1, <1>2, PrimarySteps

LEMMA SeenAccountedStep ==
  ASSUME TypeOK, DeletesErased, WireMatches, AnsweredReached, QueueReached, SeenAccounted,
         [Next]_vars
  PROVE  SeenAccounted'
<1>1. ASSUME NEW p \in seen' PROVE SafeThen(p) \/ LoggedThen(p) \/ HeldThen(p)
  <2>1. CASE p \notin seen
    BY <2>1, NewlySeen
  <2>2. CASE p \in seen
    <3>1. p \in Promise /\ Accounted(p)
      BY <2>2 DEF TypeOK, SeenAccounted
    <3>2. CASE Held(p)
      BY <2>2, <3>2, HeldStep DEF Held
    <3>3. CASE Logged(p)
      BY <2>2, <3>3, LoggedStep
    <3>. QED
      BY <3>1, <3>2, <3>3, SafeStays DEF Accounted
  <2>. QED
    BY <2>1, <2>2
<1>. QED
  BY <1>1 DEF SeenAccounted, Accounted, SafeThen, LoggedThen, HeldThen, Logged, Held

(***************************************************************************)
(* However calls of both sides, late requests, replays, faults and         *)
(* restarts interleave, for any records, callers and window of the replay: *)
(* on a record that no call and no log holds the stores agree, unless it   *)
(* was deleted, the primary was set back, or the primary's version is one  *)
(* whose call ended with the secondary unheard and nothing logged          *)
(* (platform.ts:125-301).                                                  *)
(***************************************************************************)
THEOREM StoresConverge == Spec => []Converges
<1>1. IInv /\ ConvInv => Converges
  <2>1. SUFFICES ASSUME IInv, ConvInv, NEW i \in Id, Settled(i), i \notin erased, ~SetBack(i),
                        [id |-> i, at |-> primary[i]] \notin unlogged \union forgotten
                 PROVE  primary[i] = secondary[i]
    BY DEF Converges
  <2>2. primary[i] \in Nat /\ secondary[i] \in Nat /\ seen \subseteq Promise
    BY <2>1 DEF IInv, TypeOK, Stamp
  <2>3. \A p \in seen : p.id = i => p.at \in Nat /\ p.at <= primary[i]
    BY <2>1, <2>2 DEF SetBack, Promise, Stamp
  \* The secondary has nothing the primary has not had, so nothing newer.
  <2>4. secondary[i] <= primary[i]
    <3>1. ~Waiting(i)
      BY <2>1 DEF Settled, Waiting
    <3>2. secondary[i] = Absent \/ [id |-> i, at |-> secondary[i]] \in seen
      BY <2>1, <3>1 DEF ConvInv, SecondaryKnown, Known
    <3>. QED
      BY <2>2, <2>3, <3>2 DEF Absent
  \* What the primary holds has reached it.
  <2>5. secondary[i] >= primary[i]
    <3>1. CASE primary[i] = Absent
      BY <2>2, <3>1 DEF Absent
    <3>2. CASE primary[i] # Absent
      <4>1. PICK p : p = [id |-> i, at |-> primary[i]]
        OBVIOUS
      <4>2. p \in seen /\ p.id = i /\ p.at = primary[i]
        BY <2>1, <3>2, <4>1 DEF ConvInv, PrimaryKnown, Known
      <4>3. ~Logged(p)
        BY <2>1, <4>2 DEF Settled, Logged
      <4>4. ~Held(p)
        <5>1. ASSUME NEW w \in Writer, p \in Promised(writer[w]) PROVE writer[w].id = i
          BY <4>2, <5>1 DEF Promised
        <5>. QED
          BY <2>1, <5>1 DEF Held, Settled
      <4>5. Accounted(p)
        BY <2>1, <4>2 DEF ConvInv, SeenAccounted
      <4>. QED
        BY <2>1, <4>1, <4>2, <4>3, <4>4, <4>5 DEF Accounted
    <3>. QED
      BY <3>1, <3>2
  <2>. QED
    BY <2>2, <2>4, <2>5
<1>2. IInv /\ ConvInv /\ [Next]_vars => ConvInv'
  BY PrimaryKnownStep, WritersHadStep, WireHadStep, RowsHadStep, QueueReachedStep,
     SecondaryKnownStep, SeenAccountedStep DEF IInv, ConvInv
<1>. QED
  BY <1>1, <1>2, ConvInit, InvariantHolds, PTL DEF Spec
=============================================================================
