----------------------------- MODULE P18Trigger -----------------------------
(***************************************************************************)
(* The external trigger of the P18 monitor (cf-worker/p18-dispatch.ts).    *)
(* Every cron window asks GitHub to run the monitor, reads the monitor's   *)
(* heartbeat, and decides from the state the last windows left in the KV   *)
(* store whether the owner is alerted; the alert entry is put in the KV    *)
(* store first, the new state second.                                      *)
(*                                                                         *)
(* The unit of time is the window, and a date is kept as its age: ages and *)
(* the position in the clock hour move on by one with every window, ages   *)
(* up to the longest delay anything compares them with.                    *)
(***************************************************************************)
EXTENDS Integers, FiniteSets

CONSTANTS DispatchFailures,   \* DispatchOutcome other than "accepted"
          HeartbeatFailures,  \* HeartbeatState other than "FRESH"
          Gap,                \* MIN_ALERT_GAP (30 min)
          Realert,            \* REALERT (60 min)
          Unconfigured,       \* UNCONFIGURED_REALERT (24 h)
          OnChange,           \* STATE_WRITE_ON_CHANGE_MIN (15 min)
          Checkpoint,         \* CHECKPOINT (60 min)
          Hour,               \* windows in a clock hour (12)
          WriteCap,           \* WRITE_CAP_PER_HOUR (6)
          Faults              \* what may go wrong with a window

FaultKinds == {"lost",   \* the trigger does not fire or the KV read fails
               "alert",  \* the KV put of the alert entry fails
               "state"}  \* the KV put of the state fails or is cut off

ASSUME TriggerAssumption ==
  /\ Faults \subseteq FaultKinds
  /\ {Gap, Realert, Unconfigured, OnChange, Checkpoint, Hour} \subseteq Nat \ {0}
  /\ Gap <= Realert /\ Realert <= Unconfigured
  /\ 1 < Gap /\ Hour <= Checkpoint /\ Checkpoint <= Unconfigured
  /\ WriteCap \in Nat
  /\ {"none", "FRESH"} \intersect DispatchFailures = {}
  /\ {"none", "accepted"} \intersect HeartbeatFailures = {}
  /\ "accepted" \notin DispatchFailures /\ "FRESH" \notin HeartbeatFailures

VARIABLES
  checks,      \* P18State.checks in the KV store
  written,     \* age of the state in the KV store (written_at)
  used,        \* its writes_in_hour
  hourPos,     \* windows since the clock hour began
  seen,        \* what the last window at work observed of each check
  fault,       \* what went wrong with this window
  sinceAlert,  \* history: age of each check's last alert entry in the KV store
  puts         \* history: KV writes done in the last window's clock hour

vars == <<checks, written, used, hourPos, seen, fault, sinceAlert, puts>>

CheckName == {"dispatch", "heartbeat"}
Age == 0..Unconfigured
Detail == [dispatch  |-> DispatchFailures \union {"accepted"},
           heartbeat |-> HeartbeatFailures \union {"FRESH"}]
Details == Detail["dispatch"] \union Detail["heartbeat"]
\* A check's state; the status is a function of the detail.  "none" is what a
\* check without state has, and an age of Unconfigured serves for "never".
CheckState == [detail : Details \union {"none"}, age : Age,
               kind : {"none", "failure", "recovery"},
               alerted : Details \union {"none"}]
Unknown == [detail |-> "none", age |-> Unconfigured, kind |-> "none",
            alerted |-> "none"]

-----------------------------------------------------------------------------
(* decide() *)

Failing(o) == o \notin {"accepted", "FRESH"}
Least(a, b) == IF a <= b THEN a ELSE b

\* Mutants: no flapping guard for a failure that differs from the last one;
\* the same failure is announced once.
NeedUnguarded(p, o) == IF p.kind = "failure" /\ p.alerted = o THEN Realert ELSE 0
NeedOnce(p, o) ==
  IF p.kind = "failure" /\ p.alerted = o THEN Unconfigured + 1 ELSE Gap

\* How old the last alert must be for the failure o to be alerted now.
Need(p, o) ==
  IF p.kind = "failure" /\ p.alerted = o
  THEN IF o = "unconfigured" THEN Unconfigured ELSE Realert
  ELSE Gap

\* Mutant: a recovery is announced in the window it happens in, or never.
KindUndeferred(p, o) ==
  IF Failing(o) THEN IF p.age >= Need(p, o) THEN "failure" ELSE "none"
  ELSE IF Failing(p.detail) /\ p.kind = "failure" /\ p.age >= Gap
       THEN "recovery" ELSE "none"

\* The alert a check that observed o calls for.
Kind(p, o) ==
  IF Failing(o) THEN IF p.age >= Need(p, o) THEN "failure" ELSE "none"
  ELSE IF p.kind = "failure" /\ p.age >= Gap THEN "recovery" ELSE "none"

\* The check's next state; an alert of this window has age 0.
Checked(p, o) ==
  LET kind == Kind(p, o) IN
  IF kind = "none" THEN [p EXCEPT !.detail = o]
  ELSE [detail |-> o, age |-> 0, kind |-> kind, alerted |-> o]

\* Mutant: the alert entry is not counted.
NeededState(want, alerts) == IF want THEN 1 ELSE 0

\* The KV writes a decision takes, counted against the cap of the clock hour.
Needed(want, alerts) ==
  (IF want THEN 1 ELSE 0) + (IF alerts # {} THEN 1 ELSE 0)
UsedNow == IF written <= hourPos THEN used ELSE 0

WritesState(want, capped) == want /\ ~capped

\* decide() of the observations obs, from the state in the KV store: the checks
\* alerted, whether the state is written, and its writes_in_hour.
Decide(obs) ==
  LET alerts  == {c \in CheckName : Kind(checks[c], obs[c]) # "none"}
      changed == \E c \in CheckName : checks[c].detail # obs[c]
      want    == \/ alerts # {}
                 \/ changed /\ written >= OnChange
                 \/ written >= Checkpoint
      total   == UsedNow + Needed(want, alerts)
      capped  == want /\ total > WriteCap
  IN  [alerts |-> IF capped THEN {} ELSE alerts,
       state  |-> WritesState(want, capped),
       used   |-> total]

-----------------------------------------------------------------------------
(* The windows *)

Older(age)    == Least(age + 1, Unconfigured)
OlderCheck(p) == [p EXCEPT !.age = Older(p.age)]

Init ==
  /\ checks = [c \in CheckName |-> Unknown]
  /\ written = Unconfigured
  /\ used = 0
  /\ hourPos = 0
  /\ seen = [dispatch |-> "accepted", heartbeat |-> "FRESH"]
  /\ fault = "none"
  /\ sinceAlert = [c \in CheckName |-> Unconfigured]
  /\ puts = 0

\* The KV writes already done in the clock hour of this window.
PutsBefore == IF hourPos = 0 THEN 0 ELSE puts

\* Five minutes go by after what the window wrote: the state (or not), and an
\* entry for the checks alerted.
Pass(stateOk, obs, alerted) ==
  /\ checks' = [c \in CheckName |->
                  OlderCheck(IF stateOk THEN Checked(checks[c], obs[c])
                             ELSE checks[c])]
  /\ written' = IF stateOk THEN 1 ELSE Older(written)
  /\ hourPos' = IF hourPos + 1 = Hour THEN 0 ELSE hourPos + 1
  /\ sinceAlert' = [c \in CheckName |->
                      IF c \in alerted THEN 1 ELSE Older(sinceAlert[c])]
  /\ puts' = PutsBefore + (IF alerted # {} THEN 1 ELSE 0)
                         + (IF stateOk THEN 1 ELSE 0)

\* runP18ExternalTrigger with the state at hand: the alert entry, then the
\* state.  A put that fails ends the window.
Window(obs, f) ==
  \E d \in {Decide(obs)} :
    \E stateOk \in {d.state /\ f # "state" /\ (d.alerts # {} => f # "alert")} :
      /\ seen' = obs
      /\ fault' = f
      /\ Pass(stateOk, obs, IF f = "alert" THEN {} ELSE d.alerts)
      /\ used' = IF stateOk THEN d.used ELSE used

\* The trigger did not fire, or the state could not be read: nothing is put.
LostWindow ==
  /\ "lost" \in Faults
  /\ fault' = "lost"
  /\ Pass(FALSE, seen, {})
  /\ UNCHANGED <<used, seen>>

Next ==
  \/ \E d \in Detail["dispatch"], h \in Detail["heartbeat"],
        f \in (Faults \ {"lost"}) \union {"none"} :
       Window([dispatch |-> d, heartbeat |-> h], f)
  \/ LostWindow

Spec == Init /\ [][Next]_vars
FairSpec == Spec /\ WF_vars(Next)

-----------------------------------------------------------------------------
(* Properties *)

\* Every variable has its type.
TypeOK ==
  /\ checks \in [CheckName -> CheckState]
  /\ written \in Age
  /\ used \in 0..WriteCap
  /\ hourPos \in 0..(Hour - 1)
  /\ seen \in [CheckName -> Details]
  /\ fault \in Faults \union {"none"}
  /\ sinceAlert \in [CheckName -> Age]
  /\ puts \in Nat

\* "Never more than WRITE_CAP_PER_HOUR writes (state + alert entries) per
\* hour", however the two checks flap and whichever windows are lost.
WithinCap == puts <= WriteCap

\* "Never two alerts of the same check < 30 min apart": an alert entry names a
\* check only if the last one naming it is Gap windows old.
AlertsApart ==
  [][\A c \in CheckName : sinceAlert'[c] = 1 => sinceAlert[c] >= Gap]_vars

\* What the KV state says of the last alerts is what was put: an alert is never
\* recorded without having been sent, nor sent without being recorded.
AlertsRemembered == \A c \in CheckName : checks[c].age = sinceAlert[c]

Well(c)   == fault = "none" /\ ~Failing(seen[c])
Unwell(c) == fault = "none" /\ Failing(seen[c])

\* "An announced failure always gets its recovery line (deferred while < 30
\* min)", though the other check goes on flapping and takes from the write cap.
RecoveryAnnounced ==
  \A c \in CheckName : <>[]Well(c) => <>[](checks[c].kind # "failure")

\* A check that stays failing is alerted again and again, though its failure
\* changes and the other check takes from the write cap.
FailureRepeated ==
  \A c \in CheckName : <>[]Unwell(c) => []<>(sinceAlert[c] = 1)

-----------------------------------------------------------------------------
(* The inductive invariant behind WithinCap and AlertsApart, when no put of *)
(* the state is lost                                                        *)

\* The writes done in this hour are those the KV state counts.
PutsCounted == PutsBefore <= UsedNow

\* Every age is of an earlier window.
Aged == written >= 1 /\ \A c \in CheckName : sinceAlert[c] >= 1

IInv == TypeOK /\ AlertsRemembered /\ PutsCounted /\ WithinCap /\ Aged
=============================================================================
