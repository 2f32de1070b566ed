------------------------------- MODULE Incidents ------------------------------
(***************************************************************************)
(* Telemetry refreshes and what they keep of the systems and incidents     *)
(* (refreshTelemetry of backend/index.ts and of cf-worker/backend-index.ts,*)
(* planIncidentWrites and activeIncidents of incident-lifecycle.ts).  A    *)
(* refresh lists the systems, reads the private feed, writes the systems   *)
(* one by one from that list, then reads the incidents, plans its writes   *)
(* and performs them in two calls; refreshes of the panel, the audit and a *)
(* certification may overlap.                                              *)
(*                                                                         *)
(* A key is a system with a title (a legacy title counts as the one that   *)
(* replaced it, so legacy rows are rows of the same key).  The rows of a   *)
(* key keep the order in which they were created.                          *)
(***************************************************************************)
EXTENDS Naturals, FiniteSets, Sequences

CONSTANTS System,     \* the systems of acs_systems
          Canonical,  \* ZEVANORY, which the Control Core can vouch for
          AtServer,   \* the server's copy, which has that fallback; the edge's has not
          Legacy,     \* rows of the unavailable title that earlier versions left behind
          MaxMerges,  \* MAX_MERGES_PER_REFRESH (150)
          Refresh,    \* refreshes that may be under way together
          MaxRefreshes

ASSUME IncAssumption == /\ Canonical \in System /\ AtServer \in BOOLEAN
                        /\ {Legacy, MaxMerges, MaxRefreshes} \subseteq Nat

Unavailable == <<"control", "unavailable">>
Key == {Unavailable} \union (System \X {"incomplete", "down"})
\* TELEMETRY_INCIDENT_TITLES: what a live reading closes.
LiveCloses == {Unavailable} \union (System \X {"incomplete"})

VARIABLES
  status,    \* acs_systems: "healthy", "attention" or "integration"
  rows,      \* acs_incidents: the rows of each key in the order of their creation
  proven,    \* whether a last proven telemetry snapshot is stored
  refresh,   \* where each refresh stands and what it has read
  started,   \* refreshes started
  overlap,   \* ghost: whether a refresh planned while another still had its plan to write
  episode    \* ghost: how often each key was observed and written since it was last closed

incVars == <<status, rows, proven, refresh, started, overlap, episode>>

\* Rows of one key that are not resolved, as activeIncidents groups them.
Active(rs) == {i \in DOMAIN rs : rs[i].active}
\* The sum of the occurrences of rows S, as a recursive function over the rows.
Occurrences(rs, S) ==
  LET sum[n \in 0..Len(rs)] == IF n = 0 THEN 0
                               ELSE sum[n - 1] + IF n \in S THEN rs[n].occ ELSE 0
  IN  sum[Len(rs)]
\* The oldest active row and the rows merged into it in one refresh.
Merged(rs) == {i \in Active(rs) : Cardinality({j \in Active(rs) : j < i}) <= MaxMerges}
Keeper(rs) == CHOOSE i \in Active(rs) : \A j \in Active(rs) : i <= j

(***************************************************************************)
(* planIncidentWrites, for one key: an observed key keeps its oldest row   *)
(* with the occurrences of those merged into it plus one; live telemetry   *)
(* closes the telemetry rows not observed in this very refresh.  A key     *)
(* with no active row is added.                                            *)
(***************************************************************************)
\* Mutant: the keeper takes the occurrences of rows left for the next refresh, too.
PlanOfAllRows(k, rs, keys, live) ==
  IF k \in keys
    THEN [i \in Merged(rs) |->
            IF i = Keeper(rs) THEN [rs[i] EXCEPT !.occ = Occurrences(rs, Active(rs)) + 1]
                              ELSE [rs[i] EXCEPT !.active = FALSE]]
    ELSE [i \in {j \in Active(rs) : live /\ k \in LiveCloses} |-> [rs[i] EXCEPT !.active = FALSE]]
PlanOf(k, rs, keys, live) ==
  IF k \in keys
    THEN [i \in Merged(rs) |->
            IF i = Keeper(rs) THEN [rs[i] EXCEPT !.occ = Occurrences(rs, Merged(rs)) + 1]
                              ELSE [rs[i] EXCEPT !.active = FALSE]]
    ELSE [i \in {j \in Active(rs) : live /\ k \in LiveCloses} |-> [rs[i] EXCEPT !.active = FALSE]]

Rested == [at |-> "idle", list |-> <<>>, live |-> FALSE, seen |-> FALSE, green |-> FALSE,
          feed |-> <<>>, left |-> {}, plan |-> <<>>, add |-> {}]

\* The incidents a refresh observes: the feed's, and that it could not be read.
Keys(r) == {<<s, "incomplete">> : s \in {t \in DOMAIN r.feed : r.feed[t] \in {"error", "both"}}}
             \union {<<s, "down">> : s \in {t \in DOMAIN r.feed : r.feed[t] \in {"down", "both"}}}
             \union IF r.live THEN {} ELSE {Unavailable}

-----------------------------------------------------------------------------
\* The systems are listed before anything is fetched.
ListSystems(f) ==
  /\ refresh[f].at = "idle"
  /\ started < MaxRefreshes /\ started' = started + 1
  /\ refresh' = [refresh EXCEPT ![f] = [Rested EXCEPT !.at = "fetch", !.list = status]]
  /\ UNCHANGED <<status, rows, proven, overlap, episode>>

(***************************************************************************)
(* fetchPrivateTelemetry: live, or after its retries (or without a         *)
(* credential) the last proven snapshot, if there is one; on the server a  *)
(* stale reading asks the Control Core about ZEVANORY.  Of each system the *)
(* feed says "ok", "error" (repository), "down" (production), "both" or    *)
(* nothing ("unmapped").                                                   *)
(***************************************************************************)
FetchTelemetry(f) ==
  /\ refresh[f].at = "fetch"
  /\ \E live \in BOOLEAN, green \in BOOLEAN,
        feed \in [System -> {"ok", "error", "down", "both", "unmapped"}] :
       /\ green => ~live /\ AtServer
       /\ ~live /\ ~proven => \A s \in System : feed[s] = "unmapped"
       /\ proven' = (proven \/ live)
       /\ refresh' = [refresh EXCEPT ![f] = [@ EXCEPT !.at = "systems", !.live = live,
            !.seen = live \/ proven, !.green = green, !.feed = feed, !.left = System]]
  /\ UNCHANGED <<status, rows, started, overlap, episode>>

\* One system's record, from the status listed: never raised but by the Control Core.
WriteSystem(f, s) ==
  /\ refresh[f].at = "systems" /\ s \in refresh[f].left
  /\ LET r == refresh[f]
         vouched == r.green /\ s = Canonical
         bad == \/ r.feed[s] \in {"error", "down", "both"}
                \/ r.list[s] # "integration" /\ (~r.live \/ (r.seen /\ r.feed[s] = "unmapped"))
     IN  /\ status' = [status EXCEPT ![s] = IF vouched THEN "healthy"
                                            ELSE IF bad THEN "attention" ELSE r.list[s]]
         /\ refresh' = [refresh EXCEPT ![f] = [@ EXCEPT !.left = @ \ {s},
              !.at = IF r.left = {s} THEN "list" ELSE "systems"]]
  /\ UNCHANGED <<rows, proven, started, overlap, episode>>

Plan(f) ==
  /\ refresh[f].at = "list"
  /\ LET keys == Keys(refresh[f])
     IN  refresh' = [refresh EXCEPT ![f] = [@ EXCEPT !.at = "update",
           !.plan = [k \in Key |-> PlanOf(k, rows[k], keys, refresh[f].live)],
           !.add = {k \in keys : Active(rows[k]) = {}}]]
  /\ overlap' = (overlap \/ \E g \in Refresh \ {f} : refresh[g].at \in {"update", "add"})
  /\ UNCHANGED <<status, rows, proven, started, episode>>

\* db.update writes all its rows in one transaction; it overwrites what others wrote
\* since the rows were read.
Update(f) ==
  /\ refresh[f].at = "update"
  /\ LET plan == refresh[f].plan
         written == Keys(refresh[f]) \ refresh[f].add
         closed == IF refresh[f].live THEN LiveCloses \ Keys(refresh[f]) ELSE {}
     IN  /\ rows' = [k \in Key |-> [i \in DOMAIN rows[k] |->
                       IF i \in DOMAIN plan[k] THEN plan[k][i] ELSE rows[k][i]]]
         /\ episode' = [k \in Key |-> IF k \in closed THEN 0
                                      ELSE episode[k] + IF k \in written THEN 1 ELSE 0]
  /\ refresh' = [refresh EXCEPT ![f] = [Rested EXCEPT !.at = "add", !.add = refresh[f].add]]
  /\ UNCHANGED <<status, proven, started, overlap>>

\* db.add of the new rows.
Add(f) ==
  /\ refresh[f].at = "add"
  /\ LET new(k) == IF k \in refresh[f].add THEN 1 ELSE 0
     IN  /\ rows' = [k \in Key |-> IF new(k) = 0 THEN rows[k]
                                   ELSE Append(rows[k], [occ |-> 1, active |-> TRUE])]
         /\ episode' = [k \in Key |-> episode[k] + new(k)]
  /\ refresh' = [refresh EXCEPT ![f] = Rested]
  /\ UNCHANGED <<status, proven, started, overlap>>

\* The process stops, or a call fails, between the steps.
Abandon(f) ==
  /\ refresh[f].at # "idle"
  /\ refresh' = [refresh EXCEPT ![f] = Rested]
  /\ UNCHANGED <<status, rows, proven, started, overlap, episode>>

\* ensureSeed has written the systems; earlier versions left rows of one incident.
IncInit ==
  /\ status \in [System -> {"healthy", "integration"}]
  /\ rows = [k \in Key |-> [i \in 1..(IF k = Unavailable THEN Legacy ELSE 0)
                              |-> [occ |-> 1, active |-> TRUE]]]
  /\ proven \in BOOLEAN
  /\ refresh = [f \in Refresh |-> Rested]
  /\ started = 0 /\ overlap = FALSE
  /\ episode = [k \in Key |-> Len(rows[k])]

IncNext ==
  \E f \in Refresh :
    \/ ListSystems(f) \/ FetchTelemetry(f)
    \/ \E s \in System : WriteSystem(f, s)
    \/ Plan(f) \/ Update(f) \/ Add(f) \/ Abandon(f)

IncSpec == IncInit /\ [][IncNext]_incVars

-----------------------------------------------------------------------------
(***************************************************************************)
(* The owner is shown how often an incident was really observed            *)
(* (activeIncidents sums the active rows of a key): unless a refresh ever  *)
(* planned its writes while another still had its own to make, the total   *)
(* is the number of observations since the incident was last closed,       *)
(* merged legacy rows included, wherever refreshes overlap otherwise, fail *)
(* or stop.                                                                *)
(***************************************************************************)
OccurrencesTrue ==
  ~overlap => \A k \in Key : Occurrences(rows[k], Active(rows[k])) = episode[k]
=============================================================================
