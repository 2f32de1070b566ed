# ZEVANORY Product Control: TLA+ models, checks and proofs

The repository is the control plane of a small commercial operation: an edge
worker (`cf-worker/`) in front of a Render server (`backend/`), two Postgres
stores kept in step by hand-written replication, an owner panel (`src/`), robots
that publish and answer on Meta networks, and monitors that alert the owner.
This directory holds TLA+ models of its protocols, the TLC configurations that
check them on small instances, and TLAPS proofs of their main invariants.

## 1. Inventory

| Component (source) | State | Operations | Interacts with | Hard behaviour | Correct when |
|---|---|---|---|---|---|
| Dual store (`backend/platform.ts`, `cf-worker/platform-worker.ts`, `supabase/migrations/20261006154000`) | records of the primary and the secondary, one log of missed writes in each, the `reconciling` flag | `db.add/update/delete` of server and edge, `reconcileReplication` | everything that stores a record | calls time out and are applied later, replays race live writes, a log insert may fail, restarts | acknowledged writes reach the mirror, no store regresses, nothing is dropped unapplied, the stores converge |
| Passphrase attempts (`supabase/migrations/20261105150000`, `cf-worker/admin-auth-throttle.ts`) | a row per source, an aggregate row | one transaction per attempt | login at the edge | concurrent transactions, two locks, clock reads, a passphrase change | no failure lost, no source answers for another, a lock in force stands, correct logins never wait for the aggregate |
| Sessions and PIN login (`cf-worker/backend-index.ts` 1286-1521, `cf-worker/worker.ts` 1569-1637) | signed tokens, revocation markers in KV, a security record | verify, revoke, PIN login, change of the PIN | proxy, all panel routes | revocation racing use, read-judge-write of the counter, a failing KV | nothing is done for a session after its logout, the counter never counts more than was guessed |
| P18 external trigger (`cf-worker/p18-dispatch.ts`, `p18-monitor/worker.ts`) | one state document in KV, alert entries in KV | one window every five minutes | GitHub, the central worker's digest | failing puts and reads, flapping checks, a write cap | alerts apart, cap kept, recoveries announced, lasting failures repeated |
| Sales funnel and CRM (`backend/commercial.ts`) | lead, finance, event, evidence records | lifecycle events, qualification, inbound, decisions, actions, approvals | dual store, sales adapter | redelivery, concurrent handlers writing back whole records, evidence eviction, failure between two writes | an answered event is proved later, a payment is recorded once |
| Meta publisher and creative factory (`cf-worker/worker.ts` 300-731, `backend/commercial.ts`, `sales-lock.ts`, `p04-meta-policy.ts`) | creative and brief records, hold markers in KV | cron runs, ticks, signed requests, uploads, approval at the edge | Meta API, P04 certificate, sales switch | crash between a post and its record, stale write-back, time of check against time of post, lists a minute old | each network gets a creative at most once, nothing is posted while held, a product gets one creative to approve |
| Meta webhook and shared activity (`cf-worker/worker.ts` 795-963) | seen markers, activity entries in KV | webhook deliveries, cron passes | Meta API, owner alerts | duplicate delivery, marker and effect not atomic | one reply per event, every first contact becomes a lead, every entry is recorded |
| Snapshot caches and proxy (`cf-worker/worker.ts` 75-137 and 1570-1637, `backend/index.ts` 3077-3118) | admin snapshot with generation and in-flight refresh, a copy in KV | load, background revalidation, invalidation, second attempt at the edge | all mutations | refresh racing a mutation, a timed-out mutation executed twice | a load after a mutation reflects it |
| Telemetry and incidents (`backend/index.ts` 2255-2444, `backend/incident-lifecycle.ts`) | incident rows, system rows | refresh | private feed, Control Core | concurrent refreshes, merging of duplicates | the owner sees how often an incident was observed |
| Certification (`backend/index.ts`, `cf-worker/backend-index.ts`, `zees-verifiers.ts`) | products, runs, evidence | executor, panel, create, update and archive of a product | GitHub, Control Core, public pages | runs overlapping each other and a deploy, stored evidence of another version | a verdict rests on one run of this version and release, or on the live release |
| Global trust (`cf-worker/global-trust.ts`, `src/App.tsx` trust strip) | a document in the edge cache and one in the panel | poll, draw | Control Core, control plane | three reads across a deploy, late documents | green only for what was live, proved and signed |
| Panel (`src/App.tsx`) | session, what is drawn, timers and requests under way | load, retry, action, login, logout, reload | edge worker | answers in any order, callbacks of an older session | a good session is kept, a closed one shows nothing, an open one shows data |
| CFO model (`src/cfo-model.ts`, `backend/cfo.ts`) | none of its own | aggregations | finance records | rounding, duplicates | totals agree with a reference |
| Ads readiness, prospect signals, voice, HMAC, entry points | none that matters here | scoring, encoding, signatures | API | none | out of scope |
| Disaster-recovery script (`scripts/dr-reconcile-zpc.ts`) | none of its own | compare and copy whole buckets | both stores | runs beside live writes | out of scope so far |

`PROJECT.json` lists the same components with their status, and under "hazards"
every place where an interleaving, a failure or a limit could go wrong, at its
line, with the property that would catch it.

## 2. Plan

In order of importance to the rest of the system; all but the last are done:

1. `DualStore`, refining `Mirror`: every other component stores its records
   through it.
2. `PassphraseThrottle`: the one place where the code relies on locks.
3. `P18Trigger`: a time-driven decision from state that may be lost.
4. `SalesFunnel`: lead, finance and event records under concurrent handlers,
   redelivery, crashes and evidence eviction.
5. `MetaPublisher` and, before it in the life of a creative, `CreativeFactory`.
6. `EdgeRequests`: sessions, proxy and both caches of the panel, composed.
7. `PinLogin`, `MetaWebhook`, `AdminPanel`: what else meets the edge worker.
8. `Verifiers` and `Certification`, `Incidents`, `Trust`: the panel's evidence.
9. Open: the order of the publisher's queue (`worker.ts:630`: with one creative
   a run, one whose reservation stays refused keeps the others waiting), the CFO
   aggregation and the sales policy against reference definitions, and the
   disaster-recovery script as a writer of `DualStore`.

Abstract specifications: `Mirror` (done), an at-most-once publisher per network
for `MetaPublisher`, a register with reads after writes for `EdgeRequests` (its
properties `CurrentSnapshotComplete` and `QuietWritesSeen` state it so far).
Every safety property a passing run checks is a theorem (section 6). Still worth
stating and proving: the two abstract specifications above that are open, type
correctness of the components whose theorems need only a part of it, and what
can be promised for a record somebody deleted, which `Converges` excepts (a
delete overtaken by an upsert).

## 3. Modules

### Mirror and DualStore

`Mirror` states what replication promises: a set of outstanding writes, each of
which leaves only when the mirror has reached its stamp. `DualStore` is the code:

* A record is its `updatedAt` stamp; a call writes one record and carries a fresh
  stamp taken when it starts, so "older" means "begun earlier". Contents, ids and
  buckets are left out, and so are reads.
* `BeginRender`/`BeginEdge`, `PrimaryOk`/`PrimaryFail`, `CallOk`/`CallFail` and
  `LogPending` are the steps of `db.add`, `db.update` and `db.delete` between two
  awaits. `PrimaryFail` with the fault "commit" is the connection lost on commit.
* A request to the secondary is a message in `wire`. `Abandon` is the 8 s (edge:
  2.5 s) limit: the caller stops waiting and the request may be applied later, or
  never (`SecondaryLose`).
* `SecondaryApply` is `zpc_worker_upsert` with its guard on `updatedAt`, together
  with the log row for the primary (`toPrimary` is `p_queue_primary`).
  `zpc_worker_delete`, `zpc_worker_pending` and `zpc_worker_ack` are not in the
  repository; they are modelled as `platform.ts` uses them: an unconditional
  delete, the oldest rows of the queue, and the removal of the acknowledged rows.
* `RecStart` to `RecAck` are `reconcileReplication`: the flag `reconciling` is
  `rec.pc # "idle"`; each `try` has the branch its `catch` swallows.
* `Crash` is a restart of the Render process: calls and reconciliation are
  forgotten, requests under way are not.

The history variables `acked`, `seen`, `erased`, `unlogged` and `forgotten` are
only read by properties. `forgotten` holds the writes of the primary whose call
ended without an answer and without a row in the log: a crash, or a commit whose
caller saw an error and whose own request to the secondary failed (`Unheard`).

### PassphraseThrottle

Each attempt is one transaction of `zpc_passphrase_attempt`. `tx[a].pc` tells
which locks it holds: the advisory lock of its source from `TakeSource` on, the
aggregate lock from `TakeAggregate` on; both are released by the end of the
transaction (`Refuse`, `Grant`, `Fail`, `Abort`), when its writes become visible.
The clock is read again after each lock. `Rotate` is a change of the passphrase:
the fingerprint an attempt carries is the one its worker verified against, which
may no longer be the one in force. Durations and thresholds are constants; the
lock length table is the code's `15 * 2^(locks-1)` capped.

### P18Trigger

The unit of time is the five-minute window, and dates are kept as ages, so that
time is finite. `Window` is one invocation: observe, `Decide`, put the alert
entry, put the state; `fault` says which of the two puts fails. `LostWindow` is a
window that did not run or could not read the state. A window without KV binding
puts nothing and is one of these too. The text of alerts, run ids and the log
line are left out. An invocation cut by its 10 s budget goes on in the background
or is evicted: that is the fault "state". Two invocations never overlap in the
model: the budget is 10 s and windows are five minutes apart. For the same reason
the state read is the one put last: KV shows a put everywhere after about a minute.

### SalesFunnel

The funnel of one lead. A handler of `backend/commercial.ts` reads the lead,
computes the next one from what it read and writes it back whole; then
`upsertBySourceKey` looks up the finance and event records it leaves and adds or
updates them. Every await is a place where another handler runs or this one ends.

* `lead` is the status and the evidence of the record. An entry of evidence is
  one of the few kinds some code looks for (`Marker`, `ExtId`, `Did`, ...); the
  others are `Plain` and still take a place among the last `Keep`.
* `finance[c]` and `events[c]` are the records whose source key is the one the
  call `c` builds: the number of finance records, and what each event record
  shows. Qualification and actions build a key with the time in it, so they add a
  record each time (`FreshKey`).
* `Begin` is the read of the lead with the early returns, `Decide` and `Reread`
  the gate before an action, `Send`, `SendFail` and `SendLost` the request to the
  sales adapter, `Update` the write of the lead, `LookUpPayment`, `Pay`,
  `LookUpEvent` and `Log` the two upserts. `Cut` is an error of the store or the
  end of the process between two of them.
* `promote` is a discovery that promotes the prospect again and so resets the
  lead; the first promotion is `Init`. `archive` is the clean-up.
* `update` is the owner's edit of the lead (`commercialAdminUpdate`, or
  `commercialAdminCreate` under the lead's source key): a new status, a new list
  of evidence, or both. The list replaces the one the lead had (`TypedIn`; the
  first entries are kept, not the last) and may hold any entry, also one the
  handlers write. `Typed` names the lists the owner may type.
* `Enter` is a record the owner adds by hand: an event with such a list
  (`manual`), or a payment (`paidByHand`), under a key no handler looks for. The
  proof of a sale reads both.
* `Proof` is the ten parts of `commercialSalesProof`.

Left out: other leads (every handler reads and writes only its own, and records
are found by keys that hold the lead's id), decision records, which no handler
reads, the values of payments, and the limits of `listKind`: the model reads the
lists whole, so it stands for stores of fewer than 1000 records of a kind. The
owner's edits of the event and finance records that handlers left are not
modelled: what such an edit adds, a record entered by hand adds too, but it can
also empty a record that `RecordedStaysProved`, `AnsweredAccounted` and
`ActionsAccounted` count on. A write that the store reported as failed is not
applied later here; that is `DualStore`'s subject.

The history variables (`heard` to `invented`) are only read by properties;
`invented` holds the entries the owner typed in, on the lead or in an event, that
stood for nothing that had happened by then.

### MetaPublisher

Runs of `runT3Publisher` (cron or tick, nothing keeps two apart), decisions of
the owner and the factory, on one set of records.

* A record is its status, its picture with caption (`media`), the certifier's
  receipt, the networks whose id its evidence holds and whether `publishedAt` is
  set. The other waiting and rejected statuses are `approval` and `rejected`.
  Records and pictures are separate sets: copies of one picture are what the
  reservation is for. `Composed` pictures carry their sha256 in the evidence,
  the only ones `previouslyPublished` can see; `Priced` ones have a price, a
  checkout link or a call to buy in what they publish.
* A run goes through `Begin` (the sales switch), `List`, `Certify`, `Verify` and
  `Claim` with what it read; then, for the container and for each network, through
  `CheckCertificate`, `CheckReceipt` and `CheckSwitch`, the three reads of
  `recheckBeforeMetaPost`, and the request. `Save` writes the record back as the
  run listed it, with the new id. `Cut` is a check that fails, any error, and the
  end of the worker; the reservation stays. A post whose answer is lost, or that
  arrives late, is `Post` with the second outcome.
* `BeginEdit` and `EndEdit` are the read and the whole-record write of a decision
  at the edge (of a waiting record), of one at the server (of any record; its
  normalisation keeps no receipt), and of the factory or the upload, which put a
  new picture into a waiting record.
* The certifier (certificate and receipts), the sales switch and the reservation
  service are not in this repository. `Grants` is what the code asks of the
  service, a claim by picture across creatives; whether it answers the same
  creative again is left open. `Change` and `Attach` are any change outside.

Left out: records added or archived, hold notices and owner alerts, the check of
the service's seed and of the Meta targets (a failure of either is `Cut`), and
the 20 entries the evidence keeps, which a record reaches only after many
decisions. Lists are whole here too, where the code reads 1000 records. A run
publishes one creative: both callers pass that limit.

The history variables (`granted` to `author`) are only read by properties.

### CreativeFactory

Where creatives come from: the tick of the commercial robot at the server, the
factory of the edge worker and the upload of a composed picture.

* `pieces[p]` and `briefs[p][d]` are the statuses of a product's records in the
  order of their creation. One bucket stands for both stores; the owner's decision
  is one step here, its race is `MetaPublisher`'s.
* A job lists (`ListExisting`), makes the picture (`Make`, a minute and several
  calls), and writes what it decided from that list (`Write`): "tick" the first
  product that misses a creative, "only" and "force" the one asked for, the upload
  its own, archiving the others that wait. Then it archives the briefs of earlier
  days once `Enough` creatives wait.
* `Tick` with its flag `robotTickRunning`, `ListBriefs`, `FindBrief` and
  `WriteBrief` are the daily briefs, whose key is the date at their turn.
  `Restart` forgets the jobs but not a call already sent: a job that was given up
  keeps its slot until its write lands.

Lists are read whole (the code reads 1000 records). The code tries only the first
product that misses a creative in each tick, so one whose picture keeps failing
starves the rest; no property claims otherwise.

### EdgeRequests

One module for what a request of the panel meets: the worker, the Render server
behind it and the edge's own handler.

* A request has a place at the edge (`req`), at the server (`origin`) and in the
  background work it leaves (`reval`). A request the edge gave up on after 45 s
  (`ProxyTimeout`) goes on at the server.
* Data is the set of mutations applied; what a load returns is the set it shows.
  `stored` and `pending` are the two stores, `Replay` stands for `DualStore`.
* `snapshot`, `generation` and `inflight` are the server's cache: a mutation
  raises the generation before and after its handler (`MutationStarts`,
  `MutationEnds`), a refresh is kept only under the generation it began with
  (`RefreshEnds`). `copy` is the edge's copy in KV, with its age.
* A session is its revocation marker. `verifyEdgeSession` answers false when its
  KV read fails, so a good session may be refused (`NotVerified`). Workers KV is
  eventually consistent: after its put a marker is `spreading`, and each check may
  find it or miss it, until `Spread` (about a minute: other locations keep what
  they read, and that they found nothing, for that long).
* The copy of the start data is taken to be current when read: one owner works at
  one location, where KV shows a put and a delete at once. With two locations a
  load may be answered by a copy a mutation has deleted, for about a minute.

### PinLogin

`pinLogin` in three steps: `ReadSecurity` (and `ResetSecurity`), then
`RefuseLocked`, `Admit` or `CountWrong` on what was read. Time is in units of 15
minutes and only runs a lock down; a lock is refused to the right PIN too.
`wrong`, `since` and `overlapped` are history.

### MetaWebhook

`handleMetaWebhook` event by event: the marker is read (`CheckSeen`), the answer
composed, the gate asked again, the reply sent, and only then the marker put, the
owner alerted and the support and lead records written. `mishaps` bounds failed
calls and stops. `excused` and `spoiled` record which of them touched which event:
the properties except exactly those. A marker that was just put is `fresh`, and a
delivery may miss it until `Settle`, for the reason given for sessions. The cron
passes (`ListEntries` to `DeleteEntry`) share nothing with the deliveries; what
they list is current, but a value another pass deleted may still be read.
The deliveries run in `meta_publisher`, the passes in `edge_worker`.

### AdminPanel

`App.tsx` as a state machine over the session (`token`, `storage`), what is drawn,
the load of the present generation (`boot`), its timer, the login request, the
owner's actions and logouts under way. `LoadFor` is `load(token)`: it replaces the
load before it. The callbacks of an action keep the session of the click. What the
edge answers is one step (`Answers`), taken from the markers: `EdgeRequests` has
the detail. `Sync` stands for the commercial stream (an event every five seconds),
its fall back and a tab made visible; each aborts the load under way, and since
`MaxSetbacks` bounds them, `PanelLoads` does not speak of a load that always takes
longer than the stream's interval. `sync()` calls the panel live though `load()`
swallows its failures; what is called live is left out.

### Incidents

Refreshes of telemetry that list the systems, read the feed, write systems one by
one from that list, then read the incidents and write the plan (`PlanOf`, which is
`planIncidentWrites` for a key) in two calls. Rows are kept per key in the order of
their creation. `overlap` records that a refresh planned its writes while another
still had its own to make, and `episode` how often a key was observed since it was
last closed. Incidents are listed whole (the code reads at most 1000), as long as
there are fewer. Overlapping refreshes also write a system's status back from an older
list; only the incidents have a property.

### Verifiers and Certification

`Verifiers` holds the sixteen checks of both sites and the read-backs as operators
from a context (product and source) and a world (what can be read) to results, in
which a proof names the release it is of. `Certification` runs them: `ensureProducts`
(`List`, `Migrate`, `FillAudit`, `AddMissing`), the handlers that create, update and
archive a product (`Consult`, `Get`, `Outdate`, `Relist`, `Decide`, `Write`), the
executor (`Telemetry`, `Snapshot`, `Invalidate`, `Supersede`, `StartRun`, `Check` in
four quarters, `Store`, `Finish`, `Fail`), and the panel (`ReadPart`, `Overlay`,
`Identity`, `Collect`), while production changes (`Deploy`, `CatchUp`, `Flicker`).
`evidence` maps a run to what it stored, since a run stores in one call and its
rows are invalidated together. A fingerprint is the product's stamp with its
source's release. The model of time of check is coarser than the code in two
places: the four verifiers of a quarter, and the read-backs of one line of
`Collect`, read the world in one state. The executor lists
the evidence once more after its run was saved as complete (place "final"): if that
list fails, `Fail` marks the complete run as failed.

A refused update has already invalidated the evidence of the product
(`Outdate` comes before `Decide`), though `scripts/panel-actions-e2e-isolated.ts:104`
reports that a refused update persisted nothing: it checks the product only.

### Trust

`global-trust.ts` and the strip that draws it: three documents answered one by one
while production is deployed, proved and signed (`Promote`, `Publish`), a state
derived as of the time the reads began, shared through the edge cache, and judged
by the panel's clock when drawn (`View`). Clocks are equal up to `Skew`.

## 4. Runs

| Run | Module | Instance | Shows |
|---|---|---|---|
| `dualstore_faults` | `MCDualStore` | one record, one Render and one edge caller, 3 calls, all faults, deletes | `AckedReachSecondary`, `Converges`, `SecondaryNeverRegresses`, `ImplementsMirror` hold |
| `dualstore_converges` | `MCDualStore` | one record, one Render caller, 4 calls, secondary slow and lossy, fairness | `EventuallyMirrored` holds |
| `dualstore_stale_replay` | `MCDualStore` | Render and edge, 2 calls, no fault | `PrimaryNeverRegresses` is violated |
| `passphrase_races` | `PassphraseThrottle` | two sources, two open transactions, two fingerprints, 3 attempts, 4 instants | `AggregateExact`, `OwnFailuresOnly`, `LockStands`, `CorrectLoginAnswered` hold |
| `p18_windows` | `P18Trigger` | two dispatch failures and one heartbeat failure, windows lost, alert puts failing | `WithinCap`, `AlertsApart`, `RecoveryAnnounced`, `FailureRepeated` hold |
| `p18_state_lost` | `P18Trigger` | the put of the state may fail | `AlertsApart` is violated |
| `sales_funnel` | `MCSalesFunnel` | eleven calls of every operation, two of them edits of the evidence, records entered by hand, two handlers, 3 calls or entries begun, 8 entries kept, handlers cut off | `RecordedStaysProved`, `PaidOnce`, `AnsweredAccounted`, `ActionsAccounted`, `ProvedOnlyIfDone` hold |
| `sales_two_orders` | `MCSalesFunnel` | the events of two orders, one handler, no fault, 4 calls begun | `AnsweredAccounted` is violated |
| `meta_publisher` | `MCMetaPublisher` | publisher: two creatives, two pictures (one with a price, one with its sha256), two certificates, two runs begun, two decisions or replacements, one change; factory: two jobs, two products, two days, two events (requests, decisions, failures, restarts); webhook: two events of one author, two deliveries, two mishaps | `EachNetworkOnce`, `OneCreativePerPicture`, `OneLatePost`, `RecordsTruthful`, `OnlyApprovedPosted`; `MadeOnce`; `SecondReplyExcused`, `AnsweredIsRecorded` hold |
| `edge_worker` | `MCEdgeWorker` | requests: three, two at a time, one fault in a behaviour of two; login: two attempts at once, six guesses, two PINs; cron: two passes, two entries, one malformed, two mishaps; panel: two sessions, one action, two setbacks | `NothingAfterLogout`, `CurrentSnapshotComplete`, `QuietWritesSeen`, `TwiceOnlyIfUnheard`; `PinCounterJust`; `SharedEventuallyRecorded`; `SignedOutStays`, `SessionKept`, `PanelLoads` hold |
| `certification` | `MCCertification` | certification: six cases of two jobs on two products with up to two changes of the world, one process at the server and one at the edge; telemetry: one system, three refreshes, two at a time; trust: two releases, one request under way, time 2, three publications | `RunsTruthful`, `CertifiedByOneRun`, `PanelReadyWasLive`; `OccurrencesTrue`; `GreenWasLive` hold |
| `sale_gate` | `MCCertification` | the same cases | `CertifiedCanSell` is violated |

`MCEdgeWorker`, `MCCertification` and `MCMetaPublisher` hold components that share
no state: the variable `scenario`, chosen at the start, says which one runs, and
the others keep their initial state.

Bounds. One record is enough for the dual store: calls, replays and rows of
different records only share the order of the logs and the batch limit, and with
`Limit = 2` three rows already exceed a batch. Three calls give a live write, a
logged one and an abandoned one at the same time.

`Converges` speaks of a record once it is settled: no call of it is under way and
no row of it is logged. Its three exceptions are what the code cannot undo. A
delete is unconditional at both stores and may be overtaken by an upsert, or be
replayed over one. The primary may hold an older version than it once had
(`SetBack`), because two calls reached it in the other order or a replay overwrote
it, which `dualstore_stale_replay` shows. And nothing mirrors a version whose call
ended unheard and unlogged: cut off by a restart, failed after its commit, or its
log insert failed. A version is excepted by name, so one such write does not
excuse another.

In the throttle, `HotCount = 2`,
`Normal = 2`, `Hot = 1` and `Cap = 2` bring every threshold and saturation within
three attempts; four instants cover a window that ends and a lock that expires.
`passphrase_races` does not check deadlock, because its clock and its number of
attempts end. In the trigger, the delays are scaled (gap 2, repeat 4, daily
repeat 6, hour 4 windows, cap 6) keeping their order; the cap is reached, and no
bound cuts a behaviour.

In the funnel, three calls are a delivery, its redelivery and another writer, two
of them at the same time. The promoted lead has four entries and a call adds
three to five, so with `Keep = 8` the second call pushes entries out and two more
calls push out the marker of the first; the code keeps 20. Handlers are
interchangeable, and so are the ids of the two payments, which no definition
names: both are symmetries. The run does not check deadlock, because the calls
are bounded.

The conditions of the funnel's properties are as informative as the properties.
`PaidOnce` excepts overlapping deliveries, which do record a payment twice:
nothing joins the look-up to the addition. `AnsweredAccounted` excepts a delivery
that was cut off: one that ends between the write of the lead
(`commercial.ts:1083`) and that of the payment (1088) leaves a lead that answers
every redelivery as a duplicate, and the payment is never recorded. It also
excepts an event whose id the owner had typed in before it was ever received,
which is then a duplicate when it first comes, and it
speaks of identified events only. `ActionsAccounted` excepts an action whose
handler ended between the adapter's answer and its last write.
`RecordedStaysProved` speaks of the parts of the proof that an event or a finance
record can show; discovery, contact, offer, follow-up action and qualification
are looked for in the lead alone, and later entries push them out, as does the
owner's edit. `ProvedOnlyIfDone` excepts exactly what the owner typed in: the proof
reads markers in free text, so a list that holds one makes the proof claim it
(`scripts/crm-e2e-isolated.ts:62` replaces the evidence of a lead that way). An
entry typed in after the fact excuses nothing, nor does one of another kind, and
a payment is shown by a finance record only, whatever the lists say.

In the publisher, two runs are two at once or one and its repetition; two edits
are what two records need to be approved, or one decision with another that races
it; one change puts one hold in force at any moment of a run. Nothing more is
needed for a run to find a record written over, a reservation taken or a hold
that came between a check and a post. Runs, handlers, creatives and certificates
are interchangeable; the pictures are not. The run does not check deadlock: runs,
edits and changes are bounded.

`EachNetworkOnce` says what "published at most once" (`worker.ts:681`) depends
on: a picture can be posted twice on a network only if the reservation service
reserves it again for its creative and the record did not tell - another run had
it in hand, an answer was lost, the post was made and not saved, or somebody wrote
the record over. `OneLatePost` is the bound the re-checks give: no more than the
one request whose checks were already passed.

In `edge_worker`, three requests are a mutation, what comes between and a load
that must show it, or two requests around a logout; a fault adds so many orders
that behaviours with one have two requests. `NothingAfterLogout` speaks of requests
that begin after the answer of the logout, once its marker can be read everywhere:
others under way may still finish, and for about a minute another location may
still accept the session, because it missed the marker or remembers having found
none. That minute is a limit of the code, which answers the logout when the put
returns.
`QuietWritesSeen` excepts a load or refresh already under way when a mutation was
answered, and must: `NextLoadReflectsWrites`, defined beside it and part of no run,
says what the comment at `backend/index.ts:3079` promises ("always reflected on
the next load") and TLC refutes it with loads and mutations alone, because a load
is given the refresh in flight, which read the store before the mutation
(`index.ts:3092`). `TwiceOnlyIfUnheard` excepts what a timeout or a failure of the
server makes possible: after a timed-out mutation that only the server has, the
edge's answer "Nada foi alterado" (`worker.ts:1623`) may be wrong.

Two logins are enough for a lost count, and six guesses with `MaxPin = 2` for three
locks in a row. `PinCounterJust` says what is left when attempts overlap: counts
are lost, never invented. Two sessions and one action are an action of the
older session answered in the newer one: `SessionKept` excepts exactly that
(`mixed`; a late 401 of an old closure drops the new session, `App.tsx:757-772`)
and `SignedOutStays` a load begun while a logout waits (`late`), which draws the
panel as ready with no session.

In the factory, two jobs are a tick and anything that overlaps it. `MadeOnce`
excepts products two jobs held at a time, which do get two creatives to approve.
In the webhook, two deliveries and two mishaps are a delivery, its repetition and a
fault in each. `SecondReplyExcused` lists all that lets a repetition answer again:
both passed the check of the marker, the second came within the minute in which
the marker can be missed, the put of the marker failed, or Meta took the reply and
its answer was lost.

Some hazards of `PROJECT.json` name a failure that the property about it excepts:
the write whose log insert fails (`unlogged`), the reservation granted again while
the record was in doubt, the action cut off after the adapter's answer
(`unrecorded`), telemetry refreshes that plan together (`overlap`) and executors
that overlap on one product (`overlapped`). Those failures do happen; what the runs
and theorems say of them is that nothing else has the same effect.

In `certification`, the cases are the pairs of jobs that touch the same records:
two runs of a product, the panel beside a run and beside a sale, a run beside a
sale, a creation and an archiving. The catalogue has a product with a source and
one without; two releases make every reading either of the one live or not. In
`telemetry`, three legacy rows with one merge a refresh bring a refresh that
cannot merge them all. `OccurrencesTrue` excepts refreshes whose plans overlap, and
only those: listing, fetching and writing systems may overlap as they like. The
exception is needed. Two plans made from the same rows count one observation
less; and a plan older than another refresh's merge reopens a row whose
occurrences the merge already added, so the total exceeds what was observed (TLC
finds it with five refreshes, two at a time), against "the panel receives the true
occurrence total" (`incident-lifecycle.ts:13`). In `trust`, the ages keep their
order (1 < 2), and since the first release was proved and signed one unit before
the start, both ages run out within the two units of time.

What the violations show:

* `dualstore_stale_replay`: an edge write waits in the pending-primary queue; the
  server writes the record again; the reconciliation that follows puts the older
  version over it in the primary (`platform.ts:163`) and never repairs it. The
  migration that added the guard announces it for replays in general, and only
  the secondary has it. `Converges` excepts a primary set back in this way.
* `p18_state_lost`: the alert is sent, the state that remembers it is not stored,
  and the next window sends it again, five minutes later instead of thirty
  (`p18-dispatch.ts:46` and `366`). `AlertsApart` and `WithinCap` hold when this
  fault is left out, and the theorems state that assumption.

* `sales_two_orders`: a customer pays two orders. Once the first payment and any
  event with the second order's id are in the evidence of the lead, the payment
  of the second order is answered as a duplicate and gets no finance record
  (`commercial.ts:1061`): the marker of the one event and the id of the other are
  looked up apart, while the comment above speaks of the same event with the same
  id. With ids that are not shared between kinds of events the property holds
  (`sales_funnel`), and `AnswersKept` states that assumption as `IdsApart`.
* `sale_gate`: nothing fails, and a product that is ready, commercially complete
  and certified in the panel is refused when its sale is turned on. The update
  stamps the product anew before it is judged, so stored evidence no longer matches
  its fingerprint, and it never asks for the read-backs the panel counts
  (`index.ts:3193-3202`), against what the panel tells the owner (`App.tsx:908`).

## 5. Fairness

* `DualStore`: the server runs any step it can take, and every call ends because
  its request carries a time limit (weak fairness). `RecStart` is weakly fair
  because every successful read or write of the server starts a reconciliation,
  and the panel and the cron jobs never stop reading. Strong fairness of the
  reconciler's own call and of the delete that follows says that a call repeated
  for ever is answered again and again; without it no replication makes progress.
  Nothing is assumed of live calls, which may all fail.
* `PassphraseThrottle`: only transactions with the correct passphrase are
  scheduled; all others may stall holding their locks. That is what makes
  `CorrectLoginAnswered` worth checking.
* `P18Trigger`: the cron goes on. Which windows are lost is not constrained,
  except that a property about a lasting state of a check speaks of the windows
  that ran.

* `SalesFunnel`: none, and no liveness property: a handler may end anywhere and
  nothing starts it again.
* `MetaPublisher`: none, and no liveness property: the certifier, the switch and
  the reservation service may refuse for ever.
* `CreativeFactory`: none, and no liveness property: the picture of a product may
  fail for ever, and then keeps the products after it waiting.
* `MetaWebhook`: each cron pass is weakly fair, because the trigger fires every
  five minutes; failed calls are bounded by `MaxMishaps`, so `SharedEventuallyRecorded`
  says that entries survive them. Deliveries have no fairness: Meta stops repeating.
* `AdminPanel`: the load under way, its timer and the logout under way are weakly
  fair: a `fetch` ends, aborted or not, and timers fire. The owner owes nothing.
* `EdgeRequests`, `PinLogin`, `Incidents`, `Certification`, `Trust`: none.

## 6. Proofs

All proofs are checked by TLAPS for every value of the constants that satisfies
the named assumption of the module, and for any bounds: the runs' instances are
the smallest in which the exceptions of the properties occur. Every invariant and
action property of a passing run is the subject of a theorem.

| Module of proofs | Theorems (property) |
|---|---|
| `DualStore_proofs` | `TypeCorrect`, `AckedWritesReachSecondary` (`AckedReachSecondary`), `SecondaryMonotone` (`SecondaryNeverRegresses`), `MirrorImplemented` (`ImplementsMirror`), `StoresConverge` (`Converges`) |
| `PassphraseThrottle_proofs` | `TypeCorrect`, `SourceAnswersForItself` (`OwnFailuresOnly`), `LockInForceStands` (`LockStands`), `AggregateCounts` (`AggregateExact`) |
| `P18Trigger_proofs` | `TypeCorrect`, `WritesWithinCap` (`WithinCap`), `AlertGapKept` (`AlertsApart`) |
| `SalesFunnel_proofs` | `TypeCorrect`, `RecordedProved` (`RecordedStaysProved`), `PaymentsOnce` (`PaidOnce`), `AnswersKept` (`AnsweredAccounted`), `ProofTruthful` (`ProvedOnlyIfDone`), `ActionsRecorded` (`ActionsAccounted`) |
| `MetaPublisher_proofs` | `TypeCorrect`, `OneCreative` (`OneCreativePerPicture`), `OnlyApproved` (`OnlyApprovedPosted`), `RecordsTrue` (`RecordsTruthful`), `OneLate` (`OneLatePost`), `NetworkOnce` (`EachNetworkOnce`), `FactoryMadeOnce` (`MadeOnce` of `CreativeFactory`) |
| `EdgeRequests_proofs` | `EdgeNothingAfterLogout`, `EdgeSnapshotComplete`, `EdgeQuietWritesSeen`, `EdgeTwiceOnlyIfUnheard` (the four properties of `EdgeRequests`) |
| `EdgeWorker_proofs` | `CounterJust` (`PinCounterJust`), `SecondReply` (`SecondReplyExcused`), `Recorded` (`AnsweredIsRecorded`), `SignedOut` (`SignedOutStays`), `SessionDropped` (`SessionKept`) |
| `Evidence_proofs` | `CertRunsTruthful`, `CertOneRun` (`CertifiedByOneRun`), `CertPanelWasLive` (`PanelReadyWasLive`), `TrustGreenWasLive` (`GreenWasLive`), `TotalsShown` (`OccurrencesTrue`) |

### Hypotheses

Three groups of theorems assume more than their module does; each hypothesis is a
fact about the environment or the configuration, and dropping it makes the
property false.

* `P18Trigger_proofs`: no put of the state is lost. `p18_state_lost` shows that
  `AlertsApart` fails otherwise.
* `AnswersKept`: `IdsApart`, an external id belongs to one kind of event.
  `sales_two_orders` shows the failure without it.
* `CertPanelWasLive`: `SomePillarLive`, at least one of P03, P05, P09, P11, P13 is
  not concluded from the evidence lines of the source alone. If all five are, and
  the page is fast, nothing the panel reads back has to name the release in
  production: with such lines TLC finds a panel ready for a release that a
  deployment had replaced before the panel was asked for.

Assumptions of the modules that only the proofs need: the handlers of the funnel
are finitely many, an inbound message names no event and the owner types lists of
entries, the five a handler adds being kept (`FunnelAssumption`), the
factory's limit is a number (`FactoryAssumption`), every event has an author
(`BatchesAssumption`), and the worlds a certification starts from have the parts
the verifiers read (`ProcAssumption`).

### Arguments

* **Dual store.** `AckedWritesReachSecondary` needs more than
  `AckedReachSecondary`, because an acknowledgement follows an answer that may
  come long before: `IInv` adds that a live request is exactly the one its caller
  waits for and that no caller has two (`WireMatches`), that an answered call has
  reached the secondary (`AnsweredReached`), and that no delete is under way, in a
  log or in a batch for a record nobody asked to delete (`DeletesErased`).
  `SecondaryMonotone` follows from `DeletesErased` and the guard of the upsert.
  `MirrorImplemented` maps the outstanding promises to the logged upserts the
  secondary has not reached (`Owed`) and shows, action by action, that a step of
  the code makes one, keeps one, or drops those just reached (`MirrorStep`).
  `StoresConverge` rests on `ConvInv`, which follows each version of a record on
  both its ways. What the primary holds it was given by a call (`PrimaryKnown`);
  what is mirrored, logged, replayed or acknowledged to the log of missed writes
  the primary has had (`WritersHad`, `WireHad`, `RowsHad`), and what waits for the
  primary has reached the secondary (`QueueReached`). So what the secondary holds
  the primary has had, or it waits for it (`SecondaryKnown`), and what the primary
  has had the secondary has, or a row or a caller still holds it, or it is
  unlogged or forgotten (`SeenAccounted`). For a settled record both alternatives
  are gone, and the two stamps bound each other.
* **Throttle.** `SourceAnswersForItself` and `LockInForceStands` rest on `IInv`:
  the source lock is exclusive (`LocksExclusive`), so what an open transaction read
  is still what is committed (`ReadsCurrent`), so what it will write follows from
  what is committed (`WritesFollow`). `AggregateCounts` has the same shape for the
  second lock (`AggregateExclusive`, `AggregateCurrent`); that counting one more in
  a window agrees with the set of failures needs that none fell out of the window
  open when it was counted (`FailuresInWindow`).
* **Trigger.** The state remembers exactly the alerts put (`AlertsRemembered`) and
  counts at least the puts of this hour (`PutsCounted`).
* **Funnel.** `RecordedProved` rests on `IInv`: what a handler is about to do fits
  its call (`RequestFits`), every event record shows what its call tells
  (`EventsProve`), and every call carried out has left its records
  (`RecordedKept`), which no step removes. `PaymentsOnce` adds `PaidInv`: as long
  as deliveries of a payment do not overlap, what a handler found when it looked
  is what is there when it adds. `AnswersKept` adds `AnswersInv`: while a marker
  and an id of one event are in the lead, or in the lead as a handler read it,
  its records exist or a handler of it is under way or was cut off, or the owner
  typed the id in before it was heard; and every event heard is accounted for in
  the same way, so that an id typed in after that hides nothing. `ProofTruthful`
  rests on `EvidenceInv`: every entry in the lead, in a lead a handler read and in
  an event record, entered by hand or not, stands for something that happened
  (`Happened`) or was typed in before it had (`invented`), so writing an old lead
  back, or pushing entries out, cannot make the proof claim more.
  `ActionsRecorded` follows the handlers one at a time: those still to write the
  record of an action are finitely many, and each step adds or removes one.
* **Publisher.** `TypeCorrect`, whose invariant `Typed` adds that a record with
  the ids of both networks is dated (`Full`), so that a run never takes one that
  has nothing left to post. `OneCreative` rests on `ClaimInv`: a run past the
  reservation, and every post, belong to the creative the picture is reserved for,
  and a reservation never changes hands. `OnlyApproved` rests on `ApprovedInv`:
  records that say approved or published, what runs past the list have in hand,
  and posts are of approved pictures, and a decision writes the picture it read.
  `RecordsTrue` rests on `TruthInv`: records, the items runs hold and the records
  decisions read tell of posts made, which no write-back undoes. `OneLate` rests on
  `LateInv`: after a late post the run stands between the post and the check that
  stops it, and the hold is still in force. `NetworkOnce` has two halves. Unless a
  reservation was granted again, a run works on its picture alone and knows every
  post of it (`GrantedInv`); unless the record was in doubt, a post is told by the
  record or about to be saved, and no run knows less than the record
  (`DoubtInv`), for which waiting records must be unposted (`WaitingUnposted`).
* **Factory.** `FactoryInv`: a product outside `crossed` has one waiting creative
  at most and one job that holds it (`Apart`), and what that job read of waiting
  creatives and briefs is still so (`Knows`).
* **Requests.** `EdgeInv`. `Life` fixes, for each request, which places at the
  edge, at the server and in the background go together, how often its mutation
  was applied there, and that a request begun once its session's marker was visible
  passes no check (`Barred`), since markers stay and visible ones stay visible
  (`MarkersKept`): the first and last theorem follow. `Kept` says that what the
  server ended is in the store, and in the snapshot and the refresh under way if
  they are of the current generation; that is the argument for raising the
  generation twice. `Shown` says that what was answered with no load under way is
  in the copy, in the refresh and in every answer that is still to be given.
* **Login.** `PinInv`: the stored record, and every record an attempt is about to
  judge by, count no more than the wrong guesses of their PIN (`NeverMore`;
  `CountOf` counts a lock as `MaxPin` guesses), and as long as no two attempts were
  under way together, at most one is busy and what it read is what is stored
  (`Alone`). The length of a lock plays no part.
* **Webhook.** `SecondReply` rests on `OneReply`: unless excused, an event is in
  the hands of one delivery before its marker is put, and once answered it is
  marked or about to be; a delivery that misses a marker finds it fresh, and is
  excused. `Recorded` rests on `RecordsInv`: the support record and
  alert of an answered event, and the lead of its author, are there or still to be
  written by a delivery (`Told`, `Known`), the alert comes before the support
  record (`AlertDone`) and the marker of an author before the lead (`Marked`).
* **Panel.** `SignedOut` rests on `LoadsHeld`: unless one was started late, a load
  or a timer belongs to the session held, and none runs beside a logout.
  `SessionDropped` rests on `SessionsHeld`: unless a session began with callbacks
  of another pending, every call under way is of the session held, and whatever
  says a session is gone says so of one that was refused or left.
* **Certification.** `RunsInv`: a process executing a run is at the quarter its
  record says, has found exactly the pillars of the quarters passed (`Sits`), and
  no two processes execute the same run. `OneInv`: two runs of a product under way
  together are on record; otherwise what a run will replace is already dead
  (`PriorDead`), so at most one stored run counts (`OneLive`). `LiveInv`: while the
  panel is computed, each proof that production itself answered names a release
  that was live since it began.
* **Trust.** `TrustInv`: each of the three documents, wherever it is held, claims
  nothing later than the last time its release was live, proved or signed
  (`TrueCore`, `TrueProof`, `TrueQuorum`), and a green document expires within what
  its release can still claim (`TrueDoc`).
* **Incidents.** `IncInv`: without overlap one refresh at most is between its plan
  and its last write (`OneWrites`), what it will update still follows from the rows
  (`PlansCurrent`), and the totals are right (`TotalsTrue`). The total is a
  recursive function over the rows; that merging moves occurrences without
  changing the sum (`SumsMerge`) is an induction over their number, carried out
  with sets of naturals that have a least element (`LeastNat`, `NatSet`), because
  the library's induction rules take an operator as parameter.

### Only model-checked

The temporal properties `EventuallyMirrored`, `CorrectLoginAnswered`,
`RecoveryAnnounced`, `FailureRepeated`, `SharedEventuallyRecorded` and
`PanelLoads`: they need fairness or reachability of a later state, which the
prover does not handle. The four runs that expect a violation show single
behaviours. Type correctness is proved where a theorem says so and is checked by
no run.

## 7. Not modelled

The components marked `not_modelled` in `PROJECT.json`, each with its reason.
Inside the modelled ones: record contents and identities, writes of several
records in one call (each item is one row of the log, and a batch is applied item
by item), reads, wording, and the arithmetic of dates. Records whose `updatedAt`
their writer does not renew are outside the model of `DualStore`: for them the
guard of the secondary compares equal stamps and lets the later one through.

* CFO model: sums over finance records, planned as operators checked against a
  reference definition.
* HMAC and adapter authentication, the signature of a session: functions of bytes.
* Voice, ads readiness, prospect signals, entry points: no state a step could race.
* The disaster-recovery script: planned as a writer of `DualStore`.
* Of the panel: forms, rendering, and the fast overview's load. Of the robot's
  tick: everything but the daily briefs. A rediscovery by the robot puts an
  archived or edited discovery back to its raw status; discoveries have no module.
* Of certification: the batch executor (a loop over the single one), ARBM ONE (a
  target without a product record) and the fast overview's copy of the data.
