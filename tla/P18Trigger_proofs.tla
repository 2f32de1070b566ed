-------------------------- MODULE P18Trigger_proofs --------------------------
(***************************************************************************)
(* Proofs about P18Trigger: type correctness, and, as long as no put of    *)
(* the state is lost, the write cap and the gap between two alerts.        *)
(***************************************************************************)
EXTENDS P18Trigger, TLAPS

USE TriggerAssumption

-----------------------------------------------------------------------------
(* decide() *)

LEMMA NeedAtLeastGap ==
  ASSUME NEW p \in CheckState, NEW o
  PROVE  Need(p, o) \in Nat /\ Need(p, o) >= Gap
  BY DEF Need

\* A check is alerted only if its last alert is Gap old.
LEMMA KindAfterGap ==
  ASSUME NEW p \in CheckState, NEW o, Kind(p, o) # "none"
  PROVE  p.age >= Gap
  BY NeedAtLeastGap DEF Kind, CheckState, Age

LEMMA KindType ==
  ASSUME NEW p, NEW o
  PROVE  Kind(p, o) \in {"none", "failure", "recovery"}
  BY DEF Kind

LEMMA CheckedType ==
  ASSUME NEW p \in CheckState, NEW o \in Details
  PROVE  Checked(p, o) \in CheckState
<1>1. CASE Kind(p, o) = "none"
  BY <1>1 DEF Checked, CheckState
<1>2. CASE Kind(p, o) # "none"
  BY <1>2, KindType DEF Checked, CheckState, Age
<1>. QED
  BY <1>1, <1>2

LEMMA CheckedAge ==
  ASSUME NEW p \in CheckState, NEW o
  PROVE  Checked(p, o).age = IF Kind(p, o) = "none" THEN p.age ELSE 0
  BY DEF Checked, CheckState

LEMMA OlderType ==
  ASSUME NEW age \in Age
  PROVE  /\ Older(age) \in Age
         /\ Older(age) >= 1
         /\ age >= 1 => Older(age) >= 2
  BY DEF Older, Age, Least

LEMMA OlderCheckType ==
  ASSUME NEW p \in CheckState
  PROVE  OlderCheck(p) \in CheckState /\ OlderCheck(p).age = Older(p.age)
<1>1. Older(p.age) \in Age
  BY OlderType DEF CheckState
<1>. QED
  BY <1>1 DEF OlderCheck, CheckState

LEMMA NeededType ==
  ASSUME NEW want \in BOOLEAN, NEW alerts
  PROVE  Needed(want, alerts) \in Nat
  BY DEF Needed

\* What the decisions come to.
LEMMA Decision ==
  ASSUME TypeOK, NEW obs
  PROVE  LET d == Decide(obs) IN
         /\ d.state \in BOOLEAN
         /\ d.used \in Nat
         /\ d.state => d.used <= WriteCap
         /\ d.state => d.used = UsedNow + 1 + (IF d.alerts # {} THEN 1 ELSE 0)
         /\ d.alerts # {} => d.state
         /\ \A c \in d.alerts : c \in CheckName /\ Kind(checks[c], obs[c]) # "none"
         /\ d.state => \A c \in CheckName \ d.alerts : Kind(checks[c], obs[c]) = "none"
<1>. DEFINE alerts  == {c \in CheckName : Kind(checks[c], obs[c]) # "none"}
            changed == \E c \in CheckName : checks[c].detail # obs[c]
            want    == \/ alerts # {}
                       \/ changed /\ written >= OnChange
                       \/ written >= Checkpoint
            total   == UsedNow + Needed(want, alerts)
            capped  == want /\ total > WriteCap
            d       == Decide(obs)
<1>1. UsedNow \in Nat
  BY DEF TypeOK, UsedNow
<1>2. want \in BOOLEAN
  OBVIOUS
<1>3. /\ d.alerts = IF capped THEN {} ELSE alerts
      /\ d.state = (want /\ ~capped)
      /\ d.used = total
  BY Zenon DEF Decide, WritesState
<1>4. alerts # {} => want
  OBVIOUS
<1>5. \A c \in alerts : c \in CheckName /\ Kind(checks[c], obs[c]) # "none"
  OBVIOUS
<1>6. \A c \in CheckName \ alerts : Kind(checks[c], obs[c]) = "none"
  OBVIOUS
<1>. HIDE DEF alerts, want, d
<1>7. total \in Nat /\ (~capped /\ want => total <= WriteCap)
  BY <1>1, <1>2, NeededType
<1>8. want => Needed(want, alerts) = 1 + (IF alerts # {} THEN 1 ELSE 0)
  BY DEF Needed
<1>. HIDE DEF capped
<1>9. d.state => d.alerts = alerts /\ want /\ ~capped
  BY <1>3
<1>10. d.state \in BOOLEAN /\ d.used \in Nat
  BY <1>3, <1>7
<1>11. d.state => d.used = UsedNow + 1 + (IF d.alerts # {} THEN 1 ELSE 0)
  BY <1>1, <1>3, <1>8, <1>9
<1>12. d.alerts # {} => d.state
  BY <1>3, <1>4
<1>13. d.state => d.used <= WriteCap
  BY <1>3, <1>7, <1>9
<1>14. \A c \in d.alerts : c \in CheckName /\ Kind(checks[c], obs[c]) # "none"
  BY <1>3, <1>5
<1>15. d.state => \A c \in CheckName \ d.alerts : Kind(checks[c], obs[c]) = "none"
  BY <1>6, <1>9
<1>. QED
  BY <1>10, <1>11, <1>12, <1>13, <1>14, <1>15 DEF d

-----------------------------------------------------------------------------
(* The invariant *)

NoLostState == "state" \notin Faults

LEMMA DetailType ==
  ASSUME NEW d \in Detail["dispatch"], NEW h \in Detail["heartbeat"]
  PROVE  LET obs == [dispatch |-> d, heartbeat |-> h] IN
         /\ obs \in [CheckName -> Details]
         /\ \A c \in CheckName : obs[c] \in Details
  BY DEF Details, CheckName

LEMMA InitIInv == Init => IInv
<1>. SUFFICES ASSUME Init PROVE IInv
  OBVIOUS
<1>1. Unknown \in CheckState
  BY DEF Unknown, CheckState, Age
<1>2. seen \in [CheckName -> Details]
  BY DEF Init, CheckName, Details, Detail
<1>3. TypeOK
  BY <1>1, <1>2 DEF TypeOK, Init, Age
<1>. QED
  BY <1>3 DEF Init, IInv, AlertsRemembered, PutsCounted, PutsBefore, UsedNow,
              WithinCap, Aged, Unknown

\* What five minutes and a window's writes do to the ages.
LEMMA PassAges ==
  ASSUME TypeOK, AlertsRemembered, Aged,
         NEW stateOk \in BOOLEAN, NEW obs, \A c \in CheckName : obs[c] \in Details,
         NEW alerted \in SUBSET CheckName,
         \A c \in alerted : Kind(checks[c], obs[c]) # "none",
         stateOk => \A c \in CheckName \ alerted : Kind(checks[c], obs[c]) = "none",
         ~stateOk => alerted = {},
         Pass(stateOk, obs, alerted)
  PROVE  /\ checks' \in [CheckName -> CheckState]
         /\ written' \in Age /\ hourPos' \in 0..(Hour - 1)
         /\ sinceAlert' \in [CheckName -> Age]
         /\ AlertsRemembered' /\ Aged'
         /\ \A c \in CheckName : sinceAlert'[c] = 1 => sinceAlert[c] >= Gap
<1>. DEFINE next(c) == IF stateOk THEN Checked(checks[c], obs[c]) ELSE checks[c]
<1>1. ASSUME NEW c \in CheckName
      PROVE  /\ next(c) \in CheckState
             /\ next(c).age = IF c \in alerted THEN 0 ELSE sinceAlert[c]
             /\ c \in alerted => sinceAlert[c] >= Gap
  <2>1. checks[c] \in CheckState /\ checks[c].age = sinceAlert[c]
    BY DEF TypeOK, AlertsRemembered
  <2>. QED
    BY <2>1, CheckedType, CheckedAge, KindAfterGap
<1>2. checks' = [c \in CheckName |-> OlderCheck(next(c))]
  BY DEF Pass
<1>3. sinceAlert' = [c \in CheckName |->
                       IF c \in alerted THEN 1 ELSE Older(sinceAlert[c])]
  BY DEF Pass
<1>. HIDE DEF next
<1>4. checks' \in [CheckName -> CheckState]
  BY <1>1, <1>2, OlderCheckType
<1>5. 0 \in Age /\ 1 \in Age /\ Older(0) = 1
  BY DEF Age, Older, Least
<1>6. ASSUME NEW c \in CheckName
      PROVE  /\ sinceAlert'[c] \in Age /\ sinceAlert'[c] >= 1
             /\ checks'[c].age = sinceAlert'[c]
             /\ sinceAlert'[c] = 1 => sinceAlert[c] >= Gap
  <2>1. sinceAlert[c] \in Age /\ sinceAlert[c] >= 1
    BY DEF TypeOK, Aged
  <2>2. checks'[c].age = Older(next(c).age)
    BY <1>1, <1>2, OlderCheckType
  <2>3. CASE c \in alerted
    BY <1>1, <1>3, <1>5, <2>2, <2>3
  <2>4. CASE c \notin alerted
    <3>1. sinceAlert'[c] = Older(sinceAlert[c])
      BY <1>3, <2>4
    <3>2. Older(sinceAlert[c]) \in Age /\ Older(sinceAlert[c]) >= 2
      BY <2>1, OlderType
    <3>3. Older(sinceAlert[c]) # 1
      BY <3>2 DEF Age
    <3>4. Older(sinceAlert[c]) >= 1
      BY <3>2 DEF Age
    <3>. QED
      BY <1>1, <2>2, <2>4, <3>1, <3>2, <3>3, <3>4
  <2>. QED
    BY <2>3, <2>4
<1>7. written' \in Age /\ written' >= 1
  BY <1>5, OlderType DEF Pass, TypeOK
<1>8. hourPos' \in 0..(Hour - 1)
  BY DEF Pass, TypeOK
<1>9. sinceAlert' \in [CheckName -> Age]
  BY <1>3, <1>6
<1>. QED
  BY <1>4, <1>6, <1>7, <1>8, <1>9 DEF AlertsRemembered, Aged

\* The writes of an hour stay counted through a window without writes.
LEMMA PutsKept ==
  ASSUME TypeOK, PutsCounted, NEW obs, Pass(FALSE, obs, {}), used' = used
  PROVE  puts' \in Nat /\ PutsCounted' /\ WithinCap'
<1>1. /\ written \in 0..Unconfigured /\ hourPos \in 0..(Hour - 1)
      /\ used \in 0..WriteCap /\ puts \in Nat /\ PutsBefore <= UsedNow
  BY DEF TypeOK, Age, PutsCounted
<1>2. /\ written' = Older(written)
      /\ hourPos' = IF hourPos + 1 = Hour THEN 0 ELSE hourPos + 1
      /\ puts' = PutsBefore + 0 + 0
  BY DEF Pass
<1>3. PutsBefore \in Nat /\ UsedNow \in 0..WriteCap
  BY <1>1 DEF PutsBefore, UsedNow
<1>4. puts' = PutsBefore /\ puts' <= WriteCap
  BY <1>1, <1>2, <1>3
<1>5. CASE hourPos + 1 = Hour
  <2>1. hourPos' = 0
    BY <1>2, <1>5
  <2>2. PutsBefore' = 0
    BY <2>1 DEF PutsBefore
  <2>3. UsedNow' \in Nat
    BY <1>1 DEF UsedNow
  <2>. QED
    BY <1>3, <1>4, <2>2, <2>3 DEF PutsCounted, WithinCap
<1>6. CASE hourPos + 1 # Hour
  <2>1. hourPos' = hourPos + 1
    BY <1>2, <1>6
  <2>2. written <= hourPos => written' <= hourPos'
    <3>1. Unconfigured \in Nat
      OBVIOUS
    <3>2. Older(written) <= written + 1 /\ Older(written) \in Int
      BY <1>1, <3>1 DEF Older, Least
    <3>. QED
      BY <1>1, <1>2, <2>1, <3>2
  <2>3. PutsBefore' = puts'
    BY <1>1, <2>1 DEF PutsBefore
  <2>4. UsedNow <= UsedNow'
    <3>1. CASE written <= hourPos
      BY <1>1, <2>2, <3>1 DEF UsedNow
    <3>2. CASE ~(written <= hourPos)
      BY <1>1, <3>2 DEF UsedNow
    <3>. QED
      BY <3>1, <3>2
  <2>5. UsedNow' \in Nat
    BY <1>1 DEF UsedNow
  <2>. QED
    BY <1>1, <1>3, <1>4, <2>3, <2>4, <2>5 DEF PutsCounted, WithinCap
<1>. QED
  BY <1>5, <1>6

LEMMA WindowStep ==
  ASSUME IInv, NoLostState,
         NEW d \in Detail["dispatch"], NEW h \in Detail["heartbeat"],
         NEW f \in (Faults \ {"lost"}) \union {"none"},
         Window([dispatch |-> d, heartbeat |-> h], f)
  PROVE  /\ IInv'
         /\ \A c \in CheckName : sinceAlert'[c] = 1 => sinceAlert[c] >= Gap
<1>. USE DEF IInv
<1>. DEFINE obs     == [dispatch |-> d, heartbeat |-> h]
            dec     == Decide(obs)
            stateOk == dec.state /\ f # "state" /\ (dec.alerts # {} => f # "alert")
            alerted == IF f = "alert" THEN {} ELSE dec.alerts
<1>1. obs \in [CheckName -> Details] /\ \A c \in CheckName : obs[c] \in Details
  BY DetailType
<1>2. /\ seen' = obs /\ fault' = f
      /\ Pass(stateOk, obs, alerted)
      /\ used' = IF stateOk THEN dec.used ELSE used
  BY DEF Window
<1>. HIDE DEF obs
<1>3. /\ dec.state \in BOOLEAN /\ dec.used \in Nat
      /\ dec.state => dec.used <= WriteCap
      /\ dec.state => dec.used = UsedNow + 1 + (IF dec.alerts # {} THEN 1 ELSE 0)
      /\ dec.alerts # {} => dec.state
      /\ \A c \in dec.alerts : c \in CheckName /\ Kind(checks[c], obs[c]) # "none"
      /\ dec.state => \A c \in CheckName \ dec.alerts : Kind(checks[c], obs[c]) = "none"
  BY Decision
<1>. HIDE DEF dec
<1>4. f # "state"
  BY DEF NoLostState
<1>5. ~stateOk => alerted = {}
  BY <1>3, <1>4
<1>6. stateOk => alerted = dec.alerts
  BY <1>3
<1>7. /\ alerted \in SUBSET CheckName
      /\ \A c \in alerted : Kind(checks[c], obs[c]) # "none"
      /\ stateOk => \A c \in CheckName \ alerted : Kind(checks[c], obs[c]) = "none"
  BY <1>3, <1>6
<1>8. stateOk \in BOOLEAN
  OBVIOUS
<1>9. stateOk => dec.state
  OBVIOUS
<1>. HIDE DEF stateOk, alerted
<1>10. /\ checks' \in [CheckName -> CheckState]
       /\ written' \in Age /\ hourPos' \in 0..(Hour - 1)
       /\ sinceAlert' \in [CheckName -> Age]
       /\ AlertsRemembered' /\ Aged'
       /\ \A c \in CheckName : sinceAlert'[c] = 1 => sinceAlert[c] >= Gap
  BY <1>1, <1>2, <1>5, <1>7, <1>8, PassAges
<1>11. used' \in 0..WriteCap /\ puts' \in Nat /\ PutsCounted' /\ WithinCap'
  <2>1. CASE stateOk
    <3>1. used' = dec.used /\ dec.used \in 0..WriteCap
      BY <1>2, <1>3, <1>9, <2>1
    <3>2. dec.used = UsedNow + 1 + (IF alerted # {} THEN 1 ELSE 0)
      BY <1>3, <1>6, <1>9, <2>1
    <3>3. /\ written' = 1
          /\ hourPos' = IF hourPos + 1 = Hour THEN 0 ELSE hourPos + 1
          /\ puts' = PutsBefore + (IF alerted # {} THEN 1 ELSE 0) + 1
      BY <1>2, <2>1 DEF Pass
    <3>4. /\ PutsBefore \in Nat /\ UsedNow \in Nat /\ PutsBefore <= UsedNow
          /\ hourPos \in Nat
      BY DEF TypeOK, PutsCounted, PutsBefore, UsedNow
    <3>5. puts' \in Nat /\ puts' <= dec.used
      BY <3>2, <3>3, <3>4
    <3>6. UsedNow' = IF hourPos + 1 = Hour THEN 0 ELSE dec.used
      BY <3>1, <3>3, <3>4 DEF UsedNow
    <3>7. PutsBefore' = IF hourPos + 1 = Hour THEN 0 ELSE puts'
      <4>1. PutsBefore' = IF hourPos' = 0 THEN 0 ELSE puts'
        BY DEF PutsBefore
      <4>2. hourPos' = 0 <=> hourPos + 1 = Hour
        BY <3>3, <3>4
      <4>. QED
        BY <4>1, <4>2
    <3>8. PutsCounted'
      BY <3>1, <3>5, <3>6, <3>7 DEF PutsCounted
    <3>9. WithinCap'
      BY <3>1, <3>5 DEF WithinCap
    <3>. QED
      BY <3>1, <3>5, <3>8, <3>9
  <2>2. CASE ~stateOk
    <3>1. stateOk = FALSE /\ alerted = {} /\ used' = used
      BY <1>2, <1>5, <1>8, <2>2
    <3>2. Pass(FALSE, obs, {})
      BY <1>2, <3>1
    <3>. QED
      BY <3>1, <3>2, PutsKept DEF TypeOK
  <2>. QED
    BY <2>1, <2>2
<1>12. TypeOK'
  BY <1>1, <1>2, <1>10, <1>11 DEF TypeOK
<1>. QED
  BY <1>10, <1>11, <1>12

LEMMA LostStep ==
  ASSUME IInv, LostWindow
  PROVE  /\ IInv'
         /\ \A c \in CheckName : sinceAlert'[c] = 1 => sinceAlert[c] >= Gap
<1>. USE DEF IInv
<1>1. /\ \A c \in CheckName : seen[c] \in Details
      /\ Pass(FALSE, seen, {})
      /\ used' = used /\ seen' = seen /\ fault' \in Faults
  BY DEF TypeOK, LostWindow
<1>2. /\ checks' \in [CheckName -> CheckState]
      /\ written' \in Age /\ hourPos' \in 0..(Hour - 1)
      /\ sinceAlert' \in [CheckName -> Age]
      /\ AlertsRemembered' /\ Aged'
      /\ \A c \in CheckName : sinceAlert'[c] = 1 => sinceAlert[c] >= Gap
  <2>. DEFINE alerted == {}
  <2>1. alerted \in SUBSET CheckName /\ FALSE \in BOOLEAN
    OBVIOUS
  <2>. QED
    BY <1>1, <2>1, PassAges
<1>3. puts' \in Nat /\ PutsCounted' /\ WithinCap'
  BY <1>1, PutsKept
<1>. QED
  BY <1>1, <1>2, <1>3 DEF TypeOK

LEMMA Step ==
  ASSUME IInv, NoLostState, [Next]_vars
  PROVE  /\ IInv'
         /\ [\A c \in CheckName : sinceAlert'[c] = 1 => sinceAlert[c] >= Gap]_vars
<1>1. CASE Next
  BY <1>1, WindowStep, LostStep DEF Next
<1>2. CASE UNCHANGED vars
  BY <1>2 DEF vars, IInv, TypeOK, AlertsRemembered, PutsCounted, PutsBefore,
              UsedNow, WithinCap, Aged
<1>. QED
  BY <1>1, <1>2

-----------------------------------------------------------------------------
(* The theorems *)

LEMMA Invariance ==
  ASSUME NoLostState
  PROVE  Spec => []IInv
<1>1. IInv /\ [Next]_vars => IInv'
  BY Step
<1>. QED
  BY <1>1, InitIInv, PTL DEF Spec

\* If no put of the state is lost, every state of the trigger has its type.
THEOREM TypeCorrect ==
  ASSUME NoLostState
  PROVE  Spec => []TypeOK
<1>1. IInv => TypeOK
  BY DEF IInv
<1>. QED
  BY <1>1, Invariance, PTL

\* If no put of the state is lost, the KV writes of a clock hour stay within
\* WRITE_CAP_PER_HOUR, whatever the checks observe.
THEOREM WritesWithinCap ==
  ASSUME NoLostState
  PROVE  Spec => []WithinCap
<1>1. IInv => WithinCap
  BY DEF IInv
<1>. QED
  BY <1>1, Invariance, PTL

\* If no put of the state is lost, two alerts of a check are MIN_ALERT_GAP
\* apart, whatever other windows are lost and whatever the checks observe.
THEOREM AlertGapKept ==
  ASSUME NoLostState
  PROVE  Spec => AlertsApart
<1>1. IInv /\ [Next]_vars =>
        [\A c \in CheckName : sinceAlert'[c] = 1 => sinceAlert[c] >= Gap]_vars
  BY Step
<1>. QED
  BY <1>1, Invariance, PTL DEF Spec, AlertsApart
=============================================================================
