----------------------------- MODULE DualStore ------------------------------
(***************************************************************************)
(* The dual store of the control plane (backend/platform.ts): the Render   *)
(* server writes its primary Postgres first and mirrors every write to the *)
(* Supabase secondary; the edge worker writes the secondary only.  A write *)
(* one store missed waits in a log of the other store until                *)
(* reconcileReplication() replays it.                                      *)
(*                                                                         *)
(* A record is abstracted to its updatedAt stamp; each write carries a     *)
(* fresh stamp taken when the call starts.  A call writes one record.      *)
(* A request to the secondary is a message: it may be applied after its    *)
(* caller gave up (8 s and 2.5 s time-outs), or never.                     *)
(***************************************************************************)
EXTENDS Integers, FiniteSets

CONSTANTS Id,        \* records
          Render,    \* concurrent db calls of the Render server
          Edge,      \* concurrent db calls of the edge worker
          Ops,       \* operations callers use: subset of {"upsert", "delete"}
          Faults,    \* which faults may happen: subset of FaultKinds
          Limit,     \* rows a reconciliation reads from each log (20)
          MaxStamp   \* bound: number of calls in a behaviour

FaultKinds == {"primary",   \* a primary statement fails without effect
               "commit",    \* the primary commits but the caller sees an error
               "secondary", \* a secondary call fails, is lost or times out
               "log",       \* the insert of the pending-secondary row fails
               "crash"}     \* the Render process stops and starts again

ASSUME DualStoreAssumption ==
  /\ Id # {}
  /\ Ops \subseteq {"upsert", "delete"}
  /\ Faults \subseteq FaultKinds
  /\ Limit \in Nat \ {0}
  /\ MaxStamp \in Nat
  /\ Render \intersect Edge = {}
  /\ {"reconciler", "nobody"} \intersect (Render \union Edge) = {}

VARIABLES
  primary,    \* primary[i]: stamp of record i in Postgres, Absent if none
  secondary,  \* the same in Supabase
  outbox,     \* pending-secondary rows, kept by the primary
  queue,      \* pending-primary rows, kept by the secondary
  wire,       \* requests to the secondary that are still under way
  writer,     \* writer[w]: where db call w stands
  rec,        \* where reconcileReplication stands
  clock,      \* last stamp given out
  rowNo,      \* last number given to a row of either log (created_at)
  acked,      \* history: writes whose caller was told they succeeded
  seen,       \* history: writes the primary has applied
  erased,     \* history: records somebody asked to delete
  unlogged,   \* history: mirrored writes whose log insert failed
  forgotten   \* history: writes of the primary whose call ended unanswered and unlogged

stores  == <<primary, secondary>>
logs    == <<outbox, queue, rowNo>>
history == <<acked, seen, erased, unlogged, forgotten>>
vars == <<stores, logs, wire, writer, rec, clock, history>>

Writer == Render \union Edge
Absent == 0
Stamp  == 0..MaxStamp
Write   == [op : {"upsert", "delete"}, id : Id, at : Stamp]
Promise == [id : Id, at : Stamp]
Row     == [n : Nat, op : {"upsert", "delete"}, id : Id, at : Stamp]
Request == [from : Writer \union {"reconciler", "nobody"},
            op : {"upsert", "delete"}, id : Id, at : Stamp, toPrimary : BOOLEAN]
WriterState == [pc : {"idle", "primary", "sent", "answered", "log"},
                op : {"upsert", "delete"}, id : Id, at : Stamp, mirror : BOOLEAN]
RecState == [pc : {"idle", "replay", "sent", "answered", "apply"},
             rows : SUBSET Row, row : Row, items : SUBSET Row, acks : SUBSET Row]

-----------------------------------------------------------------------------
(* Helpers *)

\* The unconditional write of the primary (primaryUpsert, primaryDelete).
Applied(store, w) ==
  [store EXCEPT ![w.id] = IF w.op = "delete" THEN Absent ELSE w.at]

\* Mutant: the secondary before migration 20261006154000.
MonotonicUnguarded(store, w) == Applied(store, w)

\* The write of the secondary: an upsert with an older stamp changes nothing.
Monotonic(store, w) ==
  IF w.op = "upsert" /\ w.at < store[w.id] THEN store ELSE Applied(store, w)

\* r is the oldest row of S; the k oldest rows of S.
IsFirst(r, S) == \A s \in S : r.n <= s.n
Oldest(S, k) == {r \in S : Cardinality({s \in S : s.n < r.n}) < k}

RowOf(w)  == [n |-> rowNo + 1, op |-> w.op, id |-> w.id, at |-> w.at]
\* Mutant: the history keeps the whole call.
PromisedWhole(w) == IF w.op = "upsert" THEN {w} ELSE {}
Promised(w) == IF w.op = "upsert" THEN {[id |-> w.id, at |-> w.at]} ELSE {}
RequestOf(who, w, toPrimary) ==
  [from |-> who, op |-> w.op, id |-> w.id, at |-> w.at, toPrimary |-> toPrimary]
Send(who, w, toPrimary) == wire' = wire \union {RequestOf(who, w, toPrimary)}

\* The caller no longer waits for its request, which stays under way.
Abandon(callers) ==
  wire' = {IF q.from \in callers THEN [q EXCEPT !.from = "nobody"] ELSE q
             : q \in wire}

IdleWriter == [pc |-> "idle", op |-> "upsert", id |-> CHOOSE i \in Id : TRUE,
               at |-> 0, mirror |-> FALSE]
NoRow == [n |-> 0, op |-> "upsert", id |-> CHOOSE i \in Id : TRUE, at |-> 0]
IdleRec == [pc |-> "idle", rows |-> {}, row |-> NoRow, items |-> {}, acks |-> {}]

Init ==
  /\ primary = [i \in Id |-> Absent] /\ secondary = [i \in Id |-> Absent]
  /\ outbox = {} /\ queue = {} /\ rowNo = 0
  /\ wire = {}
  /\ writer = [w \in Writer |-> IdleWriter]
  /\ rec = IdleRec
  /\ clock = 0
  /\ acked = {} /\ seen = {} /\ erased = {} /\ unlogged = {} /\ forgotten = {}

-----------------------------------------------------------------------------
(* A db.add, db.update or db.delete call *)

Begin(w, op, i, pc) ==
  /\ writer[w].pc = "idle"
  /\ clock < MaxStamp
  /\ clock' = clock + 1
  /\ writer' = [writer EXCEPT ![w] = [pc |-> pc, op |-> op, id |-> i,
                                      at |-> clock + 1, mirror |-> FALSE]]
  /\ erased' = IF op = "delete" THEN erased \union {i} ELSE erased

\* The Render server starts with the primary; the edge only has the secondary.
BeginRender(w, op, i) ==
  /\ w \in Render
  /\ Begin(w, op, i, "primary")
  /\ UNCHANGED <<stores, logs, wire, rec, acked, seen, unlogged, forgotten>>

BeginEdge(w, op, i) ==
  /\ w \in Edge
  /\ Begin(w, op, i, "sent")
  /\ Send(w, [op |-> op, id |-> i, at |-> clock + 1], TRUE)
  /\ UNCHANGED <<stores, logs, rec, acked, seen, unlogged, forgotten>>

\* The primary has the write; the same write goes to the secondary, unqueued.
PrimaryOk(w) ==
  /\ writer[w].pc = "primary"
  /\ primary' = Applied(primary, writer[w])
  /\ seen' = seen \union Promised(writer[w])
  /\ writer' = [writer EXCEPT ![w] = [@ EXCEPT !.pc = "sent", !.mirror = TRUE]]
  /\ Send(w, writer[w], FALSE)
  /\ UNCHANGED <<secondary, logs, rec, clock, acked, erased, unlogged, forgotten>>

\* The primary reports an error, with or without having committed; the write
\* goes to the secondary, which also queues it for the primary.
PrimaryFail(w) ==
  /\ writer[w].pc = "primary"
  /\ \/ /\ "primary" \in Faults
        /\ UNCHANGED <<primary, seen>>
     \/ /\ "commit" \in Faults
        /\ primary' = Applied(primary, writer[w])
        /\ seen' = seen \union Promised(writer[w])
  /\ writer' = [writer EXCEPT ![w].pc = "sent"]
  /\ Send(w, writer[w], TRUE)
  /\ UNCHANGED <<secondary, logs, rec, clock, acked, erased, unlogged, forgotten>>

CallOk(w) ==
  /\ writer[w].pc = "answered"
  /\ writer' = [writer EXCEPT ![w] = IdleWriter]
  /\ acked' = acked \union Promised(writer[w])
  /\ UNCHANGED <<stores, logs, wire, rec, clock, seen, erased, unlogged, forgotten>>

\* What the primary has of a call the secondary has not answered.
Unheard(w) == IF writer[w].pc \in {"sent", "log"} THEN seen \intersect Promised(writer[w]) ELSE {}

\* The secondary call throws: a mirrored write still has to be logged, any
\* other write is reported to its caller as failed.
CallFail(w) ==
  /\ "secondary" \in Faults
  /\ writer[w].pc \in {"sent", "answered"}
  /\ Abandon({w})
  /\ writer' = [writer EXCEPT
       ![w] = IF writer[w].mirror THEN [writer[w] EXCEPT !.pc = "log"]
                                  ELSE IdleWriter]
  /\ forgotten' = IF writer[w].mirror THEN forgotten ELSE forgotten \union Unheard(w)
  /\ UNCHANGED <<stores, logs, rec, clock, acked, seen, erased, unlogged>>

\* logPendingSecondary, whose own failure is swallowed.
LogPending(w) ==
  /\ writer[w].pc = "log"
  /\ \/ /\ outbox' = outbox \union {RowOf(writer[w])}
        /\ rowNo' = rowNo + 1
        /\ UNCHANGED unlogged
     \/ /\ "log" \in Faults
        /\ unlogged' = unlogged \union Promised(writer[w])
        /\ UNCHANGED <<outbox, rowNo>>
  /\ writer' = [writer EXCEPT ![w] = IdleWriter]
  /\ acked' = acked \union Promised(writer[w])
  /\ UNCHANGED <<stores, queue, wire, rec, clock, seen, erased, forgotten>>

-----------------------------------------------------------------------------
(* The secondary: zpc_worker_upsert and zpc_worker_delete *)

SecondaryApply(q) ==
  /\ q \in wire
  /\ wire' = wire \ {q}
  /\ secondary' = Monotonic(secondary, q)
  /\ IF q.toPrimary THEN queue' = queue \union {RowOf(q)} /\ rowNo' = rowNo + 1
                    ELSE UNCHANGED <<queue, rowNo>>
  /\ writer' = IF q.from \in Writer THEN [writer EXCEPT ![q.from].pc = "answered"]
                                    ELSE writer
  /\ rec' = IF q.from = "reconciler" THEN [rec EXCEPT !.pc = "answered"] ELSE rec
  /\ UNCHANGED <<primary, outbox, clock, history>>

SecondaryLose(q) ==
  /\ "secondary" \in Faults
  /\ q \in wire
  /\ wire' = wire \ {q}
  /\ UNCHANGED <<stores, logs, writer, rec, clock, history>>

-----------------------------------------------------------------------------
(* reconcileReplication, first half: the outbox is replayed *)

RecStart ==
  /\ rec.pc = "idle"
  /\ \/ rec' = [IdleRec EXCEPT !.pc = "replay", !.rows = Oldest(outbox, Limit)]
     \/ "primary" \in Faults /\ rec' = [IdleRec EXCEPT !.pc = "replay"]
  /\ UNCHANGED <<stores, logs, wire, writer, clock, history>>

RecSend ==
  /\ rec.pc = "replay"
  /\ \E r \in rec.rows :
       /\ IsFirst(r, rec.rows)
       /\ rec' = [rec EXCEPT !.pc = "sent", !.row = r, !.rows = @ \ {r}]
       /\ Send("reconciler", r, FALSE)
  /\ UNCHANGED <<stores, logs, writer, clock, history>>

\* Only a row whose call was answered is deleted, and the delete may fail.
RecReplayed ==
  /\ rec.pc = "answered"
  /\ \/ outbox' = outbox \ {rec.row}
     \/ "primary" \in Faults /\ UNCHANGED outbox
  /\ rec' = [rec EXCEPT !.pc = "replay", !.row = NoRow]
  /\ UNCHANGED <<stores, queue, rowNo, wire, writer, clock, history>>

\* Mutant: the row is deleted whatever the call did.
RecCallFailDropsRow ==
  /\ "secondary" \in Faults
  /\ rec.pc \in {"sent", "answered"}
  /\ Abandon({"reconciler"})
  /\ outbox' = outbox \ {rec.row}
  /\ rec' = [rec EXCEPT !.pc = "replay", !.row = NoRow]
  /\ UNCHANGED <<stores, queue, rowNo, writer, clock, history>>

RecCallFail ==
  /\ "secondary" \in Faults
  /\ rec.pc \in {"sent", "answered"}
  /\ Abandon({"reconciler"})
  /\ rec' = [rec EXCEPT !.pc = "replay", !.row = NoRow]
  /\ UNCHANGED <<stores, logs, writer, clock, history>>

(* second half: the queue is applied to the primary, then acknowledged *)

RecPending ==
  /\ rec.pc = "replay"
  /\ rec.rows = {}
  /\ \/ rec' = [IdleRec EXCEPT !.pc = "apply", !.items = Oldest(queue, Limit)]
     \/ "secondary" \in Faults /\ rec' = IdleRec
  /\ UNCHANGED <<stores, logs, wire, writer, clock, history>>

\* applyPendingToPrimary: the stored payload overwrites the primary's record.
RecApply ==
  /\ rec.pc = "apply"
  /\ \E r \in rec.items :
       /\ IsFirst(r, rec.items)
       /\ primary' = Applied(primary, r)
       /\ seen' = seen \union Promised(r)
       /\ \/ rec' = [rec EXCEPT !.items = @ \ {r}, !.acks = @ \union {r}]
          \/ "commit" \in Faults /\ rec' = [rec EXCEPT !.items = @ \ {r}]
  /\ UNCHANGED <<secondary, logs, wire, writer, clock, acked, erased, unlogged, forgotten>>

RecApplyFail ==
  /\ "primary" \in Faults
  /\ rec.pc = "apply"
  /\ \E r \in rec.items :
       /\ IsFirst(r, rec.items)
       /\ rec' = [rec EXCEPT !.items = @ \ {r}]
  /\ UNCHANGED <<stores, logs, wire, writer, clock, history>>

\* Mutant: the finally block that clears `reconciling` is missing.
RecAckKeepsFlag ==
  /\ rec.pc = "apply"
  /\ rec.items = {}
  /\ queue' = queue \ rec.acks
  /\ UNCHANGED <<stores, outbox, rowNo, wire, writer, rec, clock, history>>

RecAck ==
  /\ rec.pc = "apply"
  /\ rec.items = {}
  /\ \/ queue' = queue \ rec.acks
     \/ "secondary" \in Faults /\ UNCHANGED queue
  /\ rec' = IdleRec
  /\ UNCHANGED <<stores, outbox, rowNo, wire, writer, clock, history>>

-----------------------------------------------------------------------------
\* The Render process restarts: its calls and its reconciliation are forgotten.
Crash ==
  /\ "crash" \in Faults
  /\ writer' = [w \in Writer |-> IF w \in Render THEN IdleWriter ELSE writer[w]]
  /\ rec' = IdleRec
  /\ Abandon(Render \union {"reconciler"})
  /\ forgotten' = forgotten \union UNION {Unheard(w) : w \in Render}
  /\ UNCHANGED <<stores, logs, clock, acked, seen, erased, unlogged>>

Call(w) ==
  \/ \E op \in Ops, i \in Id : BeginRender(w, op, i) \/ BeginEdge(w, op, i)
  \/ PrimaryOk(w) \/ PrimaryFail(w)
  \/ CallOk(w) \/ CallFail(w) \/ LogPending(w)

Reconcile ==
  \/ RecStart \/ RecSend \/ RecReplayed \/ RecCallFail
  \/ RecPending \/ RecApply \/ RecApplyFail \/ RecAck

Next ==
  \/ \E w \in Writer : Call(w)
  \/ \E q \in wire : SecondaryApply(q) \/ SecondaryLose(q)
  \/ Reconcile
  \/ Crash

Spec == Init /\ [][Next]_vars

\* The process runs every step it can take and every call ends (AbortSignal
\* time-outs); requests keep arriving, and each one starts a reconciliation; a
\* call that is repeated for ever is answered again and again.
Fairness ==
  /\ \A w \in Writer : /\ WF_vars(PrimaryOk(w) \/ PrimaryFail(w))
                       /\ WF_vars(CallOk(w) \/ CallFail(w))
                       /\ WF_vars(LogPending(w))
  /\ WF_vars(RecStart) /\ WF_vars(RecSend) /\ WF_vars(RecPending)
  /\ WF_vars(RecReplayed \/ RecCallFail)
  /\ WF_vars(RecApply) /\ WF_vars(RecAck)
  /\ WF_vars(\E q \in wire : SecondaryApply(q))
  /\ SF_vars(\E q \in wire : q.from = "reconciler" /\ SecondaryApply(q))
  /\ SF_vars(RecReplayed)

FairSpec == Spec /\ Fairness
-----------------------------------------------------------------------------
(* Properties *)

TypeOK ==
  /\ primary \in [Id -> Stamp]
  /\ secondary \in [Id -> Stamp]
  /\ outbox \subseteq Row
  /\ queue \subseteq Row
  /\ wire \subseteq Request
  /\ writer \in [Writer -> WriterState]
  /\ rec \in RecState
  /\ clock \in Stamp
  /\ rowNo \in Nat
  /\ acked \subseteq Promise
  /\ seen \subseteq Promise
  /\ erased \subseteq Id
  /\ unlogged \subseteq Promise /\ forgotten \subseteq Promise

Logged(p) == \E r \in outbox : r.op = "upsert" /\ r.id = p.id /\ r.at = p.at

\* A write its caller believes in (200 from db.add or db.update) is in the
\* secondary, or overtaken there by a newer one, or still logged for replay:
\* the only way to lose it silently is a failed insert into the log itself,
\* which logPendingSecondary swallows (platform.ts:149-156).
AckedReachSecondary ==
  \A p \in acked : \/ p.id \in erased
                   \/ p \in unlogged
                   \/ secondary[p.id] >= p.at
                   \/ Logged(p)

\* What makes AckedReachSecondary inductive: nobody deletes a record without
\* its having been marked, a live request is the one its caller waits for, and
\* an answered call has reached the secondary.
DeletesErased ==
  /\ \A w \in Writer : writer[w].op = "delete" => writer[w].id \in erased
  /\ \A q \in wire : q.op = "delete" => q.id \in erased
  /\ \A r \in outbox \union rec.rows \union {rec.row} : r.op = "delete" => r.id \in erased

Carries(q, c) == q.op = c.op /\ q.id = c.id /\ q.at = c.at
WireMatches ==
  /\ \A q \in wire : q.from \in Writer =>
       writer[q.from].pc = "sent" /\ Carries(q, writer[q.from])
  /\ \A q \in wire : q.from = "reconciler" => rec.pc = "sent" /\ Carries(q, rec.row)
  /\ \A p, q \in wire : p.from = q.from => p = q \/ p.from = "nobody"

Reached(c) == c.op = "upsert" => c.id \in erased \/ secondary[c.id] >= c.at
AnsweredReached ==
  /\ \A w \in Writer : writer[w].pc = "answered" => Reached(writer[w])
  /\ rec.pc = "answered" => Reached(rec.row)

IInv == /\ TypeOK /\ DeletesErased /\ WireMatches
        /\ AnsweredReached /\ AckedReachSecondary

\* No order of live calls, abandoned requests and replays takes the secondary
\* back to an older version of a record (20261006154000, line 1).
SecondaryNeverRegresses ==
  [][\A i \in Id : secondary'[i] >= secondary[i] \/ i \in erased]_vars

\* No replay puts an older version of a record over a newer one in the primary.
PrimaryNeverRegresses ==
  [][\A i \in Id : primary'[i] >= primary[i] \/ i \in erased]_vars

\* No call on record i is under way and no log has a row of it left to replay.
Settled(i) == /\ \A w \in Writer : writer[w].pc # "idle" => writer[w].id # i
              /\ \A r \in outbox \union queue : r.id # i

\* The primary has had a newer version of record i than it holds: two calls
\* reached it in the other order, or a replay overwrote it (PrimaryNeverRegresses).
SetBack(i) == \E p \in seen : p.id = i /\ p.at > primary[i]

\* However calls of both sides, replays, late requests and restarts interleave,
\* the stores agree on a record that is settled, unless somebody deleted it, the
\* primary was set back, or the call that made the primary's version ended (cut
\* off, or failed after a commit, or its log insert lost) with the secondary unheard.
Converges ==
  \A i \in Id : Settled(i) =>
    \/ primary[i] = secondary[i]
    \/ i \in erased
    \/ SetBack(i)
    \/ [id |-> i, at |-> primary[i]] \in unlogged \union forgotten

\* Every write the secondary missed reaches it.
EventuallyMirrored == <>[](primary = secondary)

\* The detailed store implements the abstract mirror: an outstanding write is
\* a logged one the secondary has not reached.  Nothing is promised for a
\* record somebody asked to delete.
MirrorStore == [i \in Id |-> IF i \in erased THEN 0 ELSE secondary[i]]
MirrorOutstanding ==
  {[id |-> r.id, at |-> r.at] :
     r \in {x \in outbox : /\ x.op = "upsert"
                          /\ x.id \notin erased
                          /\ secondary[x.id] < x.at}}
M == INSTANCE Mirror WITH store <- MirrorStore, outstanding <- MirrorOutstanding
ImplementsMirror == M!Spec
=============================================================================
