----------------------------- MODULE MetaWebhook ------------------------------
(***************************************************************************)
(* The inbound side of the Meta robot (cf-worker/worker.ts): deliveries of *)
(* the webhook (handleMetaWebhook), which Meta may repeat and which run    *)
(* concurrently, and the cron pass that moves the activity other workers   *)
(* left in KV to the commercial records (syncSharedActivity).              *)
(*                                                                         *)
(* A delivery carries the events of one entry.  Comments of Instagram,     *)
(* comments of Facebook and direct messages take the same steps with       *)
(* another id prefix and are one action each.  KV markers outlive a        *)
(* behaviour (their TTL is seven days); for about a minute after its put a *)
(* marker may be missed at other locations (Settle ends it).               *)
(***************************************************************************)
EXTENDS Naturals, FiniteSets, Sequences

CONSTANTS Event,      \* the messages and comments people wrote
          Author,     \* who wrote them
          AuthorOf,   \* [Event -> Author]
          Sensitive,  \* events whose text matches ESCALATION_RE
          Delivery,   \* webhook requests under way together
          Batches,    \* the sequences of events an entry may carry
          Entry,      \* the shared activity entries other workers leave in KV
          Malformed,  \* entries without a title, or of an unknown kind
          Cron,       \* cron passes that may be under way together
          MaxDeliveries, \* bound: deliveries begun
          MaxMishaps     \* bound: failed calls and stops

ASSUME BatchesAssumption == /\ Batches \subseteq Seq(Event)
                            /\ AuthorOf \in [Event -> Author]

VARIABLES
  open,       \* P04 certified and sales open (mayReplyToMeta)
  seen,       \* t4-meta-seen:<event> markers
  leadSeen,   \* t4-meta-seen:lead:<author> markers
  fresh,      \* events and authors whose marker may still be missed somewhere
  replies,    \* replies Meta accepted, per event
  support,    \* support records, per event
  lead,       \* lead records, per author
  alerts,     \* events with an owner alert in KV
  delivery,   \* where each delivery stands
  arrived,    \* deliveries begun
  mishaps,    \* failed calls and stops so far
  excused,    \* ghost: events a second reply of which has a cause (see Excuse)
  spoiled,    \* ghost: events and authors a call of whose record failed
  shared,     \* zpc-activity:v1: entries in KV: "absent", "there", "gone"
  recorded,   \* commercial records made of each entry
  cron        \* where each pass stands: the names it listed and has still to do

hookMarkers == <<seen, leadSeen, fresh>>
hookVars == <<open, hookMarkers, replies, support, lead, alerts, delivery, arrived,
              mishaps, excused, spoiled, shared, recorded, cron>>
records  == <<support, lead, alerts>>
bridge   == <<shared, recorded, cron>>

Resting == [at |-> "idle", todo |-> <<>>, grounded |-> FALSE]
Event1(d) == Head(delivery[d].todo)
Past(d, e) == /\ delivery[d].at \in {"compose", "send", "mark"}
              /\ Event1(d) = e

Mishap == mishaps < MaxMishaps /\ mishaps' = mishaps + 1
Fine   == UNCHANGED mishaps

To(d, place) == delivery' = [delivery EXCEPT ![d].at = place]
\* The next event of the entry; an exception gives up the rest of the entry.
NextEvent(d) == delivery' = [delivery EXCEPT ![d].at = "next", ![d].todo = Tail(@)]
GiveUp(d)    == delivery' = [delivery EXCEPT ![d].at = "next", ![d].todo = <<>>]

Excuse(es) == excused' = excused \union es
Spoil(xs)  == spoiled' = spoiled \union xs

-----------------------------------------------------------------------------
\* A signed request arrives.  With the gate closed it is answered ok and dropped.
Deliver(d, batch) ==
  /\ delivery[d].at = "idle"
  /\ arrived < MaxDeliveries
  /\ arrived' = arrived + 1
  /\ delivery' = [delivery EXCEPT ![d] = IF open THEN [Resting EXCEPT !.at = "next", !.todo = batch]
                                                 ELSE Resting]
  /\ UNCHANGED <<open, hookMarkers, replies, records, mishaps, excused, spoiled, bridge>>

\* seenBefore: an event answered before is skipped, unless its marker is missed.
CheckSeen(d) ==
  /\ delivery[d].at = "next" /\ delivery[d].todo # <<>>
  /\ \/ /\ Event1(d) \in seen
        /\ NextEvent(d) /\ Fine /\ UNCHANGED <<excused, spoiled>>
     \/ /\ Event1(d) \notin seen \ fresh
        /\ To(d, "compose") /\ Fine
        /\ Excuse({e \in {Event1(d)} : e \in fresh \/ \E b \in Delivery \ {d} : Past(b, e)})
        /\ UNCHANGED spoiled
     \/ Mishap /\ GiveUp(d) /\ UNCHANGED <<excused, spoiled>>
  /\ UNCHANGED <<open, hookMarkers, replies, records, arrived, bridge>>

\* The whole entry is done: ok.
Finish(d) ==
  /\ delivery[d].at = "next" /\ delivery[d].todo = <<>>
  /\ delivery' = [delivery EXCEPT ![d] = Resting]
  /\ UNCHANGED <<open, hookMarkers, replies, records, arrived, mishaps, excused, spoiled, bridge>>

\* groundedAnswer, which always has an answer, then the gate once more.
Compose(d) ==
  /\ delivery[d].at = "compose"
  /\ \E grounded \in BOOLEAN :
       IF open THEN delivery' = [delivery EXCEPT ![d].at = "send", ![d].grounded = grounded]
               ELSE NextEvent(d)
  /\ UNCHANGED <<open, hookMarkers, replies, records, arrived, mishaps, excused, spoiled, bridge>>

\* The reply: accepted, accepted with the answer lost, or refused.
Reply(d) ==
  /\ delivery[d].at = "send"
  /\ \/ /\ replies' = [replies EXCEPT ![Event1(d)] = @ + 1]
        /\ To(d, "mark") /\ Fine /\ UNCHANGED <<excused, spoiled>>
     \/ /\ replies' = [replies EXCEPT ![Event1(d)] = @ + 1]
        /\ Mishap /\ GiveUp(d) /\ Excuse({Event1(d)}) /\ Spoil({Event1(d), AuthorOf[Event1(d)]})
     \/ Mishap /\ GiveUp(d) /\ UNCHANGED <<replies, excused, spoiled>>
  /\ UNCHANGED <<open, hookMarkers, records, arrived, bridge>>

\* markSeen: a put that fails is ignored.  Only a marker that was not there has to spread.
PutSeen(e) == /\ seen' = seen \union {e}
              /\ fresh' = fresh \union ({e} \ seen)
              /\ UNCHANGED leadSeen

\* Mutant: an answer without a source is not marked.
MarkSeenGrounded(d) ==
  /\ delivery[d].at = "mark"
  /\ \/ /\ IF delivery[d].grounded THEN PutSeen(Event1(d)) ELSE UNCHANGED hookMarkers
        /\ Fine /\ UNCHANGED excused
     \/ Mishap /\ Excuse({Event1(d)}) /\ UNCHANGED hookMarkers
  /\ To(d, "alert")
  /\ UNCHANGED <<open, replies, records, arrived, spoiled, bridge>>
MarkSeen(d) ==
  /\ delivery[d].at = "mark"
  /\ \/ PutSeen(Event1(d)) /\ Fine /\ UNCHANGED excused
     \/ Mishap /\ Excuse({Event1(d)}) /\ UNCHANGED hookMarkers
  /\ To(d, "alert")
  /\ UNCHANGED <<open, replies, records, arrived, spoiled, bridge>>

\* alertOwner, for an answer without a source or a sensitive text.
\* Mutant: a sensitive text answered from a source alerts nobody.
AlertOwnerUngrounded(d) ==
  /\ delivery[d].at = "alert"
  /\ \/ /\ alerts' = IF ~delivery[d].grounded THEN alerts \union {Event1(d)} ELSE alerts
        /\ Fine /\ UNCHANGED spoiled
     \/ Mishap /\ Spoil({Event1(d)}) /\ UNCHANGED alerts
  /\ To(d, "record")
  /\ UNCHANGED <<open, hookMarkers, replies, support, lead, arrived, excused, bridge>>
AlertOwner(d) ==
  /\ delivery[d].at = "alert"
  /\ \/ /\ alerts' = IF ~delivery[d].grounded \/ Event1(d) \in Sensitive
                       THEN alerts \union {Event1(d)} ELSE alerts
        /\ Fine /\ UNCHANGED spoiled
     \/ Mishap /\ Spoil({Event1(d)}) /\ UNCHANGED alerts
  /\ To(d, "record")
  /\ UNCHANGED <<open, hookMarkers, replies, support, lead, arrived, excused, bridge>>

\* recordMetaConversation: the support record, whose failure is ignored, ...
RecordSupport(d) ==
  /\ delivery[d].at = "record"
  /\ \/ support' = [support EXCEPT ![Event1(d)] = @ + 1] /\ Fine /\ UNCHANGED spoiled
     \/ Mishap /\ Spoil({Event1(d)}) /\ UNCHANGED support
  /\ To(d, "lead")
  /\ UNCHANGED <<open, hookMarkers, replies, lead, alerts, arrived, excused, bridge>>

\* ... and, once per author, the lead: seenOnce reads, then marks, and only then is
\* the lead recorded.
CheckLead(d) ==
  /\ delivery[d].at = "lead"
  /\ \/ AuthorOf[Event1(d)] \in leadSeen /\ NextEvent(d) /\ Fine /\ UNCHANGED spoiled
     \/ AuthorOf[Event1(d)] \notin leadSeen \ fresh /\ To(d, "leadmark") /\ Fine
        /\ UNCHANGED spoiled
     \/ Mishap /\ GiveUp(d) /\ Spoil({AuthorOf[Event1(d)]})
  /\ UNCHANGED <<open, hookMarkers, replies, records, arrived, excused, bridge>>

PutLeadSeen(a) == /\ leadSeen' = leadSeen \union {a}
                  /\ fresh' = fresh \union ({a} \ leadSeen)
                  /\ UNCHANGED seen

MarkLead(d) ==
  /\ delivery[d].at = "leadmark"
  /\ \/ PutLeadSeen(AuthorOf[Event1(d)]) /\ Fine
     \/ Mishap /\ UNCHANGED hookMarkers
  /\ To(d, "leadrecord")
  /\ UNCHANGED <<open, replies, records, arrived, excused, spoiled, bridge>>

RecordLead(d) ==
  /\ delivery[d].at = "leadrecord"
  /\ \/ lead' = [lead EXCEPT ![AuthorOf[Event1(d)]] = @ + 1] /\ Fine /\ UNCHANGED spoiled
     \/ Mishap /\ Spoil({AuthorOf[Event1(d)]}) /\ UNCHANGED lead
  /\ NextEvent(d)
  /\ UNCHANGED <<open, hookMarkers, replies, support, alerts, arrived, excused, bridge>>

\* The worker is stopped: what the delivery had not done stays undone.
Stop(d) ==
  /\ delivery[d].at \notin {"idle", "next"}
  /\ Mishap
  /\ delivery' = [delivery EXCEPT ![d] = Resting]
  /\ Excuse({e \in {Event1(d)} : delivery[d].at = "mark"})
  /\ Spoil({Event1(d), AuthorOf[Event1(d)]})
  /\ UNCHANGED <<open, hookMarkers, replies, records, arrived, bridge>>

\* A marker can be read everywhere.
Settle(x) ==
  /\ x \in fresh
  /\ fresh' = fresh \ {x}
  /\ UNCHANGED <<open, seen, leadSeen, replies, records, delivery, arrived, mishaps, excused,
                 spoiled, bridge>>

\* The certificate is lost or sales are closed, and the other way round.
Gate ==
  /\ Mishap
  /\ open' = ~open
  /\ UNCHANGED <<hookMarkers, replies, records, delivery, arrived, excused, spoiled, bridge>>

-----------------------------------------------------------------------------
\* Another worker leaves an entry.
LeaveEntry(n) ==
  /\ shared[n] = "absent"
  /\ shared' = [shared EXCEPT ![n] = "there"]
  /\ UNCHANGED <<open, hookMarkers, replies, records, delivery, arrived, mishaps,
                 excused, spoiled, recorded, cron>>

ListEntries(c) ==
  /\ cron[c].todo = {}
  /\ \E n \in Entry : shared[n] = "there"
  /\ cron' = [cron EXCEPT ![c] = [at |-> "next", name |-> "none",
                                  todo |-> {n \in Entry : shared[n] = "there"}]]
  /\ UNCHANGED <<open, hookMarkers, replies, records, delivery, arrived, mishaps,
                 excused, spoiled, shared, recorded>>

\* The value is read; an entry another pass deleted reads as nothing, is not
\* recorded and is deleted like one without a title, or is still read as it was.
ReadEntry(c, n) ==
  /\ cron[c].at = "next" /\ n \in cron[c].todo
  /\ \E found \in {TRUE, shared[n] # "gone"} :
       cron' = [cron EXCEPT ![c].name = n,
                            ![c].at = IF found /\ n \notin Malformed THEN "record" ELSE "delete"]
  /\ UNCHANGED <<open, hookMarkers, replies, records, delivery, arrived, mishaps,
                 excused, spoiled, shared, recorded>>

Skip(c) == cron' = [cron EXCEPT ![c].at = "next", ![c].todo = @ \ {cron[c].name}]

\* Recorded: deleted next.  Not stored, or stored and the answer lost: kept for the
\* next pass.
\* Mutant: deleted whether stored or not.
RecordEntryDeletesAnyway(c) ==
  /\ cron[c].at = "record"
  /\ \/ recorded' = [recorded EXCEPT ![cron[c].name] = @ + 1] /\ Fine
     \/ Mishap /\ UNCHANGED recorded
  /\ cron' = [cron EXCEPT ![c].at = "delete"]
  /\ UNCHANGED <<open, hookMarkers, replies, records, delivery, arrived, excused, spoiled, shared>>
RecordEntry(c) ==
  /\ cron[c].at = "record"
  /\ \/ /\ recorded' = [recorded EXCEPT ![cron[c].name] = @ + 1]
        /\ \/ cron' = [cron EXCEPT ![c].at = "delete"] /\ Fine
           \/ Mishap /\ Skip(c)
     \/ Mishap /\ Skip(c) /\ UNCHANGED recorded
  /\ UNCHANGED <<open, hookMarkers, replies, records, delivery, arrived, excused, spoiled, shared>>

\* A delete that fails ends the pass; the entry is recorded again later.
DeleteEntry(c) ==
  /\ cron[c].at = "delete"
  /\ \/ shared' = [shared EXCEPT ![cron[c].name] = "gone"] /\ Skip(c) /\ Fine
     \/ Mishap /\ cron' = [cron EXCEPT ![c].at = "next", ![c].todo = {}] /\ UNCHANGED shared
  /\ UNCHANGED <<open, hookMarkers, replies, records, delivery, arrived, excused, spoiled, recorded>>

HookInit ==
  /\ open = TRUE /\ seen = {} /\ leadSeen = {} /\ fresh = {}
  /\ replies = [e \in Event |-> 0] /\ support = [e \in Event |-> 0]
  /\ lead = [a \in Author |-> 0] /\ alerts = {}
  /\ delivery = [d \in Delivery |-> Resting]
  /\ arrived = 0 /\ mishaps = 0 /\ excused = {} /\ spoiled = {}
  /\ shared = [n \in Entry |-> "absent"] /\ recorded = [n \in Entry |-> 0]
  /\ cron = [c \in Cron |-> [at |-> "next", name |-> "none", todo |-> {}]]

CronStep(c) ==
  \/ ListEntries(c)
  \/ \E n \in Entry : ReadEntry(c, n)
  \/ RecordEntry(c) \/ DeleteEntry(c)

WebhookNext ==
  \/ \E d \in Delivery :
       \/ \E batch \in Batches : Deliver(d, batch)
       \/ CheckSeen(d) \/ Finish(d) \/ Compose(d) \/ Reply(d) \/ MarkSeen(d) \/ AlertOwner(d)
       \/ RecordSupport(d) \/ CheckLead(d) \/ MarkLead(d) \/ RecordLead(d) \/ Stop(d)
  \/ \E x \in Event \union Author : Settle(x)
  \/ Gate

BridgeNext ==
  \/ \E n \in Entry : LeaveEntry(n)
  \/ \E c \in Cron : CronStep(c)

HookNext == WebhookNext \/ BridgeNext

\* The cron trigger fires for ever, and a pass that is not stopped goes on.
HookFairness == \A c \in Cron : WF_hookVars(CronStep(c))

HookSpec == HookInit /\ [][HookNext]_hookVars /\ HookFairness

-----------------------------------------------------------------------------
(***************************************************************************)
(* A person gets a second reply only when two deliveries passed the check  *)
(* of the marker together, the second came before the marker was read      *)
(* everywhere, the marker was not stored, or the answer of the first reply *)
(* was lost: a repetition by Meta after that never causes one.             *)
(***************************************************************************)
SecondReplyExcused == \A e \in Event : replies[e] > 1 => e \in excused

(***************************************************************************)
(* Every answered event leaves its support record, its author a lead, and  *)
(* one that needs a person an owner alert, unless a call failed or the     *)
(* worker was stopped on the way.  (After such a failure the lead is never *)
(* recorded again: its marker is already set.)                             *)
(***************************************************************************)
AnsweredIsRecorded ==
  \A e \in Event :
    (replies[e] > 0 /\ \A d \in Delivery : delivery[d].at = "idle") =>
      /\ e \in spoiled \/ (support[e] > 0 /\ (e \in Sensitive => e \in alerts))
      /\ AuthorOf[e] \in spoiled \/ lead[AuthorOf[e]] > 0

(***************************************************************************)
(* Every entry left in KV is eventually recorded: a failed call keeps it   *)
(* for a later pass.                                                       *)
(***************************************************************************)
SharedEventuallyRecorded ==
  \A n \in Entry \ Malformed : shared[n] = "there" ~> recorded[n] > 0
=============================================================================
