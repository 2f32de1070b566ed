------------------------- MODULE EdgeWorker_proofs -------------------------
(***************************************************************************)
(* Proofs about the legacy login (PinLogin), the deliveries of the webhook *)
(* (MetaWebhook) and the browser (AdminPanel), for any number of attempts, *)
(* PINs, events, authors and actions, and any limits.  The three share no  *)
(* state, and no proof is about two of them.                               *)
(***************************************************************************)
EXTENDS PinLogin, MetaWebhook, AdminPanel, TLAPS

-----------------------------------------------------------------------------
(* Types.  The length of a lock is left open: nothing below depends on it. *)

LockRow(s) ==
  /\ s = [failed |-> s.failed, locks |-> s.locks, lock |-> s.lock, pin |-> s.pin]
  /\ s.failed \in Nat /\ s.locks \in Nat /\ s.pin \in 0..MaxPins
AttemptRow(x) ==
  /\ x = [at |-> x.at, valid |-> x.valid, pin |-> x.pin, read |-> x.read]
  /\ x.at \in {"idle", "list", "reset", "judge"} /\ x.valid \in BOOLEAN
  /\ LockRow(x.read)
  /\ x.at # "idle" => x.pin \in 1..MaxPins

PinTyped ==
  /\ LockRow(security) /\ pin \in 1..MaxPins
  /\ attempt = [a \in Attempt |-> attempt[a]] /\ \A a \in Attempt : AttemptRow(attempt[a])
  /\ wrong \in [1..MaxPins -> Nat] /\ since \in Nat /\ overlapped \in BOOLEAN

LEMMA Limits == MaxPin \in Nat \ {0} /\ MaxPins \in Nat \ {0}
BY PinAssumption

LEMMA ResetRow ==
  ASSUME NEW p \in 0..MaxPins
  PROVE  /\ LockRow(Reset(p)) /\ Reset(p).failed = 0 /\ Reset(p).locks = 0 /\ Reset(p).pin = p
         /\ LockRow(Unset) /\ Unset.failed = 0 /\ Unset.locks = 0 /\ Unset.pin = 0
BY Limits DEF LockRow, Reset, Unset

\* What a guess adds to a record: one, or what is missing to the next lock.
CountOf(s) == MaxPin * s.locks + s.failed

LEMMA JudgedRow ==
  ASSUME NEW s, LockRow(s)
  PROVE  /\ LockRow(Judged(s)) /\ Judged(s).pin = s.pin
         /\ CountOf(Judged(s)) <= CountOf(s) + 1
         /\ s.failed < MaxPin => CountOf(Judged(s)) = CountOf(s) + 1 /\ Judged(s).failed < MaxPin
<1>0. s.failed \in Nat /\ s.locks \in Nat /\ MaxPin \in Nat \ {0}
  BY Limits DEF LockRow
<1>1. MaxPin * s.locks \in Nat /\ MaxPin * (s.locks + 1) = MaxPin * s.locks + MaxPin
  BY <1>0
<1>2. CASE s.failed + 1 >= MaxPin
  <2>1. Judged(s) = [failed |-> 0, locks |-> s.locks + 1, lock |-> LockFor(s.locks + 1), pin |-> s.pin]
    BY <1>2 DEF Judged, LockRow
  <2>2. CountOf(Judged(s)) = MaxPin * s.locks + MaxPin
    BY <1>0, <1>1, <2>1 DEF CountOf
  <2>3. CountOf(s) + 1 = MaxPin * s.locks + (s.failed + 1)
    BY <1>0, <1>1 DEF CountOf
  <2> QED BY <1>0, <1>1, <1>2, <2>1, <2>2, <2>3 DEF LockRow
<1>3. CASE s.failed + 1 < MaxPin
  <2>1. Judged(s) = [failed |-> s.failed + 1, locks |-> s.locks, lock |-> 0, pin |-> s.pin]
    <3>1. Judged(s) = [s EXCEPT !.failed = @ + 1, !.lock = 0]
      BY <1>0, <1>3 DEF Judged
    <3> QED BY <3>1 DEF LockRow
  <2>2. CountOf(Judged(s)) = CountOf(s) + 1
    BY <1>0, <1>1, <2>1 DEF CountOf
  <2> QED BY <1>0, <1>1, <1>3, <2>1, <2>2 DEF LockRow, CountOf
<1> QED BY <1>0, <1>2, <1>3

-----------------------------------------------------------------------------
(* What the record, and what an attempt has read of it, says of the guesses. *)

Covered(s) == s.pin # 0 => CountOf(s) <= wrong[s.pin]
NeverMore ==
  /\ Covered(security)
  /\ \A a \in Attempt : attempt[a].at = "judge" =>
       attempt[a].read.pin = attempt[a].pin /\ Covered(attempt[a].read)

\* As long as attempts come one after another, what was read is what is stored.
Alone ==
  /\ \A a, b \in Attempt : Busy(a) /\ Busy(b) => a = b
  /\ CountOf(security) = since /\ security.failed < MaxPin
  /\ \A a \in Attempt : attempt[a].at = "judge" =>
       attempt[a].read.failed = security.failed /\ attempt[a].read.locks = security.locks

PinInv == PinTyped /\ NeverMore /\ (overlapped \/ Alone)

LEMMA PinInvInit == PinInit => PinInv
<1> SUFFICES ASSUME PinInit PROVE PinInv
  OBVIOUS
<1>1. AttemptRow(IdleAttempt) /\ IdleAttempt.at = "idle"
  BY ResetRow, Limits DEF AttemptRow, IdleAttempt
<1>2. PinTyped
  <2>1. attempt = [a \in Attempt |-> attempt[a]] /\ \A a \in Attempt : AttemptRow(attempt[a])
    BY <1>1 DEF PinInit
  <2>2. LockRow(security) /\ pin \in 1..MaxPins
    BY ResetRow, Limits DEF PinInit
  <2>3. wrong \in [1..MaxPins -> Nat] /\ since \in Nat /\ overlapped \in BOOLEAN
    BY DEF PinInit
  <2> QED BY <2>1, <2>2, <2>3 DEF PinTyped
<1>3. NeverMore
  BY <1>1, ResetRow, Limits DEF PinInit, NeverMore, Covered
<1>4. Alone
  <2>1. CountOf(Unset) = 0
    BY Limits DEF CountOf, Unset
  <2> QED BY <1>1, <2>1, ResetRow, Limits DEF PinInit, Alone, Busy
<1> QED BY <1>2, <1>3, <1>4 DEF PinInv

-----------------------------------------------------------------------------
(* Every step of an attempt changes that attempt only. *)

Changes(a, x) ==
  /\ attempt' = [attempt EXCEPT ![a] = x] /\ AttemptRow(x)
  /\ attempt'[a] = x /\ \A b \in Attempt : b # a => attempt'[b] = attempt[b]

LEMMA ChangesTyped ==
  ASSUME PinTyped, NEW a \in Attempt, NEW x, attempt' = [attempt EXCEPT ![a] = x], AttemptRow(x)
  PROVE  /\ Changes(a, x)
         /\ attempt' = [b \in Attempt |-> attempt'[b]] /\ \A b \in Attempt : AttemptRow(attempt'[b])
<1>1. attempt'[a] = x /\ \A b \in Attempt : b # a => attempt'[b] = attempt[b]
  BY DEF PinTyped
<1>2. attempt' = [b \in Attempt |-> attempt'[b]]
  BY DEF PinTyped
<1> QED BY <1>1, <1>2 DEF PinTyped, Changes

\* What an attempt has read is renewed.
LEMMA HoldingRow ==
  ASSUME NEW x, AttemptRow(x), x.at # "idle", NEW s, LockRow(s), NEW place \in {"reset", "judge"}
  PROVE  /\ AttemptRow(Holding(x, s, place))
         /\ Holding(x, s, place).at = place /\ Holding(x, s, place).pin = x.pin
         /\ Holding(x, s, place).read = s
<1>1. PICK v, p : v = x.valid /\ p = x.pin
  OBVIOUS
<1>2. PICK y : y = Holding(x, s, place)
  OBVIOUS
<1>3. y = [at |-> place, valid |-> v, pin |-> p, read |-> s]
  BY <1>1, <1>2 DEF Holding
<1>4. v \in BOOLEAN /\ p \in 1..MaxPins
  BY <1>1 DEF AttemptRow
<1>5. AttemptRow(y) /\ y.at = place /\ y.pin = p /\ y.read = s
  BY <1>3, <1>4 DEF AttemptRow
<1> QED BY <1>1, <1>2, <1>5

LEMMA DoneChanges ==
  ASSUME PinTyped, NEW a \in Attempt, Done(a)
  PROVE  /\ Changes(a, IdleAttempt) /\ IdleAttempt.at = "idle"
         /\ attempt' = [b \in Attempt |-> attempt'[b]] /\ \A b \in Attempt : AttemptRow(attempt'[b])
<1>1. AttemptRow(IdleAttempt) /\ IdleAttempt.at = "idle"
  BY ResetRow, Limits DEF AttemptRow, IdleAttempt
<1> QED BY <1>1, ChangesTyped DEF Done

\* An attempt that ends without a write.
LEMMA DoneKeeps ==
  ASSUME PinInv, NEW a \in Attempt, Done(a), UNCHANGED <<security, pin, wrong, since, overlapped>>
  PROVE  PinInv'
<1> USE DEF PinInv
<1>1. Changes(a, IdleAttempt) /\ IdleAttempt.at = "idle"
  BY DoneChanges
<1>2. PinTyped'
  BY DoneChanges DEF PinTyped
<1>3. NeverMore'
  BY <1>1 DEF NeverMore, Covered, Changes
<1>4. overlapped \/ Alone'
  BY <1>1 DEF Alone, Busy, Changes
<1> QED BY <1>2, <1>3, <1>4

LEMMA VerifyPinKeeps ==
  ASSUME PinInv, NEW a \in Attempt, NEW valid \in BOOLEAN, VerifyPin(a, valid)
  PROVE  PinInv'
<1> USE DEF PinInv
<1>1. PICK x : x = [at |-> "list", valid |-> valid, pin |-> pin, read |-> Unset]
  OBVIOUS
<1>2. x.at = "list" /\ AttemptRow(x)
  BY <1>1, ResetRow, Limits DEF AttemptRow, PinTyped
<1>3. attempt' = [attempt EXCEPT ![a] = x] /\ ~Busy(a) /\ UNCHANGED <<security, pin, wrong, since>>
  BY <1>1 DEF VerifyPin
<1>4. overlapped' = (overlapped \/ \E b \in Attempt \ {a} : Busy(b))
  BY DEF VerifyPin
<1>5. Changes(a, x)
  BY <1>2, <1>3, ChangesTyped
<1>6. overlapped' \in BOOLEAN
  BY <1>4
<1>7. PinTyped'
  BY <1>2, <1>3, <1>6, ChangesTyped DEF PinTyped
<1>8. NeverMore'
  BY <1>2, <1>3, <1>5 DEF NeverMore, Covered, Changes
<1>9. ASSUME ~overlapped' PROVE Alone'
  <2>1. Alone /\ \A b \in Attempt : b # a => ~Busy(b)
    BY <1>4, <1>9
  <2>2. \A b \in Attempt : b # a => ~Busy(b)'
    BY <1>5, <2>1 DEF Busy, Changes
  <2> QED BY <1>2, <1>3, <1>5, <2>1, <2>2 DEF Alone, Changes
<1> QED BY <1>7, <1>8, <1>9

LEMMA ReadSecurityKeeps ==
  ASSUME PinInv, NEW a \in Attempt, ReadSecurity(a)
  PROVE  PinInv'
<1> USE DEF PinInv
<1>0. PICK place : place = IF security.pin = attempt[a].pin THEN "judge" ELSE "reset"
  OBVIOUS
<1>1. PICK x : x = Holding(attempt[a], security, place)
  OBVIOUS
<1>2. /\ x.at = (IF security.pin = attempt[a].pin THEN "judge" ELSE "reset")
      /\ x.pin = attempt[a].pin /\ x.read = security /\ AttemptRow(x)
  <2>1. AttemptRow(attempt[a]) /\ LockRow(security) /\ attempt[a].at # "idle" /\ place \in {"reset", "judge"}
    BY <1>0 DEF PinTyped, ReadSecurity
  <2> QED BY <1>0, <1>1, <2>1, HoldingRow
<1>3. /\ attempt' = [attempt EXCEPT ![a] = x] /\ attempt[a].at = "list"
      /\ UNCHANGED <<security, pin, wrong, since, overlapped>>
  BY <1>0, <1>1 DEF ReadSecurity
<1>4. Changes(a, x)
  BY <1>2, <1>3, ChangesTyped
<1>5. PinTyped'
  BY <1>2, <1>3, ChangesTyped DEF PinTyped
<1>6. NeverMore'
  BY <1>2, <1>3, <1>4 DEF NeverMore, Covered, Changes
<1>7. overlapped \/ Alone'
  BY <1>2, <1>3, <1>4 DEF Alone, Busy, Changes
<1> QED BY <1>3, <1>5, <1>6, <1>7

\* A step that stores a record and ends, or goes on to be judged by it.
LEMMA ResetSecurityKeeps ==
  ASSUME PinInv, NEW a \in Attempt, ResetSecurity(a)
  PROVE  PinInv'
<1> USE DEF PinInv
<1>0. attempt[a].pin \in 1..MaxPins /\ attempt[a].at = "reset"
  BY DEF ResetSecurity, PinTyped, AttemptRow
<1>1. PICK s : s = Reset(attempt[a].pin)
  OBVIOUS
<1>2. LockRow(s) /\ s.failed = 0 /\ s.locks = 0 /\ s.pin = attempt[a].pin /\ CountOf(s) = 0
  BY <1>0, <1>1, ResetRow, Limits DEF CountOf
<1>3. PICK x : x = Holding(attempt[a], s, "judge")
  OBVIOUS
<1>4. x.at = "judge" /\ x.pin = attempt[a].pin /\ x.read = s /\ AttemptRow(x)
  <2>1. AttemptRow(attempt[a]) /\ attempt[a].at # "idle"
    BY <1>0 DEF PinTyped
  <2> QED BY <1>2, <1>3, <2>1, HoldingRow
<1>5. /\ attempt' = [attempt EXCEPT ![a] = x] /\ security' = s /\ since' = 0
      /\ UNCHANGED <<pin, wrong, overlapped>>
  BY <1>1, <1>3 DEF ResetSecurity
<1>6. Changes(a, x)
  BY <1>4, <1>5, ChangesTyped
<1>7. PinTyped'
  BY <1>2, <1>4, <1>5, ChangesTyped DEF PinTyped
<1>8. Covered(s)
  BY <1>0, <1>2 DEF Covered, PinTyped
<1>9. NeverMore'
  <2>1. Covered(security)'
    BY <1>5, <1>8 DEF Covered, CountOf
  <2>2. attempt'[a].read.pin = attempt'[a].pin /\ Covered(attempt[a].read)'
    BY <1>2, <1>4, <1>5, <1>6, <1>8 DEF Covered, CountOf, Changes
  <2>3. ASSUME NEW b \in Attempt, b # a, attempt'[b].at = "judge"
        PROVE  attempt'[b].read.pin = attempt'[b].pin /\ Covered(attempt[b].read)'
    BY <1>5, <1>6, <2>3 DEF NeverMore, Covered, CountOf, Changes
  <2> QED BY <2>1, <2>2, <2>3 DEF NeverMore
<1>10. overlapped \/ Alone'
  <2>1. CASE Alone
    <3>1. \A b \in Attempt : b # a => ~Busy(b) /\ ~Busy(b)'
      BY <1>0, <1>6, <2>1 DEF Alone, Busy, Changes
    <3> QED BY <1>2, <1>4, <1>5, <1>6, <3>1, Limits DEF Alone, Busy, Changes
  <2> QED BY <2>1
<1> QED BY <1>5, <1>7, <1>9, <1>10

LEMMA AdmitKeeps ==
  ASSUME PinInv, NEW a \in Attempt, Admit(a)
  PROVE  PinInv'
<1> USE DEF PinInv
<1>0. attempt[a].pin \in 1..MaxPins /\ attempt[a].at = "judge"
  BY DEF Admit, PinTyped, AttemptRow
<1>1. CASE ~(attempt[a].read.failed # 0 \/ attempt[a].read.locks # 0)
  BY <1>1, DoneKeeps DEF Admit
<1>2. CASE attempt[a].read.failed # 0 \/ attempt[a].read.locks # 0
  <2>1. PICK s : s = Reset(attempt[a].pin)
    OBVIOUS
  <2>2. LockRow(s) /\ s.failed = 0 /\ s.locks = 0 /\ s.pin = attempt[a].pin /\ CountOf(s) = 0
    BY <1>0, <2>1, ResetRow, Limits DEF CountOf
  <2>3. Done(a) /\ security' = s /\ since' = 0 /\ UNCHANGED <<pin, wrong, overlapped>>
    BY <1>2, <2>1 DEF Admit
  <2>4. Changes(a, IdleAttempt) /\ IdleAttempt.at = "idle"
    BY <2>3, DoneChanges
  <2>5. PinTyped'
    BY <2>2, <2>3, DoneChanges DEF PinTyped
  <2>6. Covered(s)
    BY <1>0, <2>2 DEF Covered, PinTyped
  <2>7. NeverMore'
    BY <2>3, <2>4, <2>6 DEF NeverMore, Covered, Changes
  <2>8. overlapped \/ Alone'
    <3>1. CASE Alone
      <4>1. \A b \in Attempt : ~Busy(b)'
        BY <1>0, <2>4, <3>1 DEF Alone, Busy, Changes
      <4> QED BY <2>2, <2>3, <4>1, Limits DEF Alone, Busy
    <3> QED BY <3>1
  <2> QED BY <2>3, <2>5, <2>7, <2>8
<1> QED BY <1>1, <1>2

LEMMA CountWrongKeeps ==
  ASSUME PinInv, NEW a \in Attempt, CountWrong(a)
  PROVE  PinInv'
<1> USE DEF PinInv
<1>0. attempt[a].pin \in 1..MaxPins /\ attempt[a].at = "judge" /\ LockRow(attempt[a].read)
  BY DEF CountWrong, PinTyped, AttemptRow
<1>1. PICK p, s : p = attempt[a].pin /\ s = Judged(attempt[a].read)
  OBVIOUS
<1>2. /\ Done(a) /\ security' = s /\ wrong' = [wrong EXCEPT ![p] = @ + 1] /\ since' = since + 1
      /\ UNCHANGED <<pin, overlapped>>
  BY <1>1 DEF CountWrong
<1>3. Changes(a, IdleAttempt) /\ IdleAttempt.at = "idle"
  BY <1>2, DoneChanges
<1>4. LockRow(s) /\ s.pin = attempt[a].read.pin /\ CountOf(s) <= CountOf(attempt[a].read) + 1
  BY <1>0, <1>1, JudgedRow
<1>5. p \in 1..MaxPins /\ wrong \in [1..MaxPins -> Nat] /\ since \in Nat
  BY <1>0, <1>1 DEF PinTyped
<1>6. wrong' \in [1..MaxPins -> Nat] /\ since' \in Nat
  BY <1>2, <1>5
<1>7. PinTyped'
  BY <1>2, <1>4, <1>6, DoneChanges DEF PinTyped
<1>8. wrong'[p] = wrong[p] + 1 /\ \A q \in 1..MaxPins : wrong[q] <= wrong'[q]
  BY <1>2, <1>5
<1>9. s.pin = p /\ CountOf(attempt[a].read) <= wrong[p]
  BY <1>0, <1>1, <1>4 DEF NeverMore, Covered
<1>10. \A r : LockRow(r) => CountOf(r) \in Nat
  BY Limits DEF LockRow, CountOf
<1>11. Covered(security)'
  <2>1. CountOf(s) \in Nat /\ CountOf(attempt[a].read) \in Nat /\ wrong[p] \in Nat
    BY <1>0, <1>4, <1>5, <1>10
  <2>2. CountOf(s) <= wrong'[s.pin]
    BY <1>4, <1>8, <1>9, <2>1
  <2> QED BY <1>2, <2>2 DEF Covered, CountOf
<1>12. ASSUME NEW b \in Attempt, attempt'[b].at = "judge"
       PROVE  attempt'[b].read.pin = attempt'[b].pin /\ Covered(attempt[b].read)'
  <2>1. b # a /\ attempt'[b] = attempt[b] /\ attempt[b].at = "judge"
    BY <1>3, <1>12 DEF Changes
  <2>2. PICK r : r = attempt[b].read
    OBVIOUS
  <2>3. r.pin = attempt[b].pin /\ Covered(r) /\ LockRow(r)
    BY <2>1, <2>2 DEF NeverMore, PinTyped, AttemptRow
  <2>4. r.pin # 0 => r.pin \in 1..MaxPins
    BY <2>3, Limits DEF LockRow
  <2>5. r.pin # 0 => CountOf(r) <= wrong'[r.pin]
    BY <1>5, <1>6, <1>8, <1>10, <2>3, <2>4 DEF Covered
  <2> QED BY <2>1, <2>2, <2>3, <2>5 DEF Covered, CountOf
<1>13. NeverMore'
  BY <1>11, <1>12 DEF NeverMore
<1>14. ASSUME Alone PROVE Alone'
  <2>1. \A b \in Attempt : ~Busy(b)'
    BY <1>0, <1>3, <1>14 DEF Alone, Busy, Changes
  <2>2. attempt[a].read.failed = security.failed /\ attempt[a].read.locks = security.locks
    BY <1>0, <1>14 DEF Alone
  <2>3. CountOf(attempt[a].read) = since /\ attempt[a].read.failed < MaxPin
    BY <1>14, <2>2 DEF Alone, CountOf
  <2>4. CountOf(s) = since + 1 /\ s.failed < MaxPin
    BY <1>0, <1>1, <2>3, JudgedRow
  <2> QED BY <1>2, <2>1, <2>4 DEF Alone, Busy, CountOf
<1> QED BY <1>2, <1>7, <1>13, <1>14

\* Time changes no count.
LEMMA LockRunsDownKeeps == PinInv /\ LockRunsDown => PinInv'
<1> SUFFICES ASSUME PinInv, LockRunsDown PROVE PinInv'
  OBVIOUS
<1> USE DEF PinInv
<1> DEFINE Down(s) == [s EXCEPT !.lock = IF @ > 0 THEN @ - 1 ELSE 0]
<1>1. ASSUME NEW s, LockRow(s)
      PROVE  LockRow(Down(s)) /\ Down(s).failed = s.failed /\ Down(s).locks = s.locks /\ Down(s).pin = s.pin
  BY <1>1 DEF LockRow
<1>2. /\ security' = Down(security)
      /\ attempt' = [a \in Attempt |-> [attempt[a] EXCEPT !.read = Down(@)]]
      /\ UNCHANGED <<pin, wrong, since, overlapped>>
  BY DEF LockRunsDown
<1> HIDE DEF Down
<1>3. /\ LockRow(security') /\ security'.failed = security.failed
      /\ security'.locks = security.locks /\ security'.pin = security.pin
  BY <1>1, <1>2 DEF PinTyped
<1>4. ASSUME NEW a \in Attempt
      PROVE  /\ AttemptRow(attempt'[a])
             /\ attempt'[a].at = attempt[a].at /\ attempt'[a].pin = attempt[a].pin
             /\ attempt'[a].read.failed = attempt[a].read.failed
             /\ attempt'[a].read.locks = attempt[a].read.locks
             /\ attempt'[a].read.pin = attempt[a].read.pin
  <2>1. PICK x, s : x = attempt[a] /\ s = Down(x.read)
    OBVIOUS
  <2>2. AttemptRow(x) /\ LockRow(x.read)
    BY <2>1 DEF PinTyped, AttemptRow
  <2>3. LockRow(s) /\ s.failed = x.read.failed /\ s.locks = x.read.locks /\ s.pin = x.read.pin
    BY <1>1, <2>1, <2>2
  <2>4. attempt'[a] = [x EXCEPT !.read = s]
    BY <1>2, <2>1, <2>2 DEF AttemptRow
  <2>5. attempt'[a] = [at |-> x.at, valid |-> x.valid, pin |-> x.pin, read |-> s]
    BY <2>2, <2>4 DEF AttemptRow
  <2> QED BY <2>1, <2>2, <2>3, <2>5 DEF AttemptRow
<1>5. attempt' = [a \in Attempt |-> attempt'[a]]
  BY <1>2
<1>6. PinTyped'
  BY <1>2, <1>3, <1>4, <1>5 DEF PinTyped
<1>7. NeverMore'
  BY <1>2, <1>3, <1>4 DEF NeverMore, Covered, CountOf
<1>8. overlapped \/ Alone'
  <2>1. CountOf(security)' = CountOf(security)
    BY <1>3 DEF CountOf
  <2>2. \A a \in Attempt : Busy(a)' <=> Busy(a)
    BY <1>4 DEF Busy
  <2> QED BY <1>2, <1>3, <1>4, <2>1, <2>2 DEF Alone
<1> QED BY <1>2, <1>6, <1>7, <1>8

LEMMA PinInvNext == PinInv /\ [PinNext]_pinVars => PinInv'
<1> SUFFICES ASSUME PinInv, [PinNext]_pinVars PROVE PinInv'
  OBVIOUS
<1>1. ASSUME NEW a \in Attempt, RefuseLocked(a) PROVE PinInv'
  BY <1>1, DoneKeeps DEF RefuseLocked
<1>2. CASE ChangePin
  <2>1. pin' \in 1..MaxPins
    BY <1>2, Limits DEF ChangePin, PinInv, PinTyped
  <2> QED BY <1>2, <2>1 DEF ChangePin, PinInv, PinTyped, NeverMore, Covered, Alone, Busy, CountOf
<1>3. CASE UNCHANGED pinVars
  BY <1>3 DEF pinVars, PinInv, PinTyped, NeverMore, Covered, Alone, Busy, CountOf
<1> QED
  BY <1>1, <1>2, <1>3, VerifyPinKeeps, ReadSecurityKeeps, ResetSecurityKeeps, AdmitKeeps,
     CountWrongKeeps, LockRunsDownKeeps DEF PinNext

(***************************************************************************)
(* The record of pinLogin never counts more wrong guesses than were made   *)
(* under its PIN, and loses none while attempts come one after another,    *)
(* for any number of attempts that overlap, PINs and limits.               *)
(***************************************************************************)
THEOREM CounterJust == PinSpec => []PinCounterJust
<1>1. PinInv => PinCounterJust
  BY DEF PinInv, NeverMore, Covered, Alone, CountOf, PinCounterJust, Counted
<1> QED BY <1>1, PinInvInit, PinInvNext, PTL DEF PinSpec

-----------------------------------------------------------------------------
(* Types *)

USE DEF hookMarkers, PutSeen, PutLeadSeen

InHand == {"compose", "send", "mark", "alert", "record", "lead", "leadmark", "leadrecord"}
DeliveryState == [at : {"idle", "next"} \union InHand, todo : Seq(Event), grounded : BOOLEAN]

\* A delivery past the check of the marker has an event in hand.
DeliveriesTyped ==
  /\ delivery \in [Delivery -> DeliveryState]
  /\ \A d \in Delivery : delivery[d].at \in InHand => delivery[d].todo # <<>>
RecordsTyped ==
  /\ replies \in [Event -> Nat] /\ support \in [Event -> Nat] /\ lead \in [Author -> Nat]

HookTyped == DeliveriesTyped /\ RecordsTyped

LEMMA EventInHand ==
  ASSUME HookTyped, NEW d \in Delivery, delivery[d].todo # <<>>
  PROVE  /\ Event1(d) \in Event /\ AuthorOf[Event1(d)] \in Author
         /\ Tail(delivery[d].todo) \in Seq(Event)
<1>1. delivery[d].todo \in Seq(Event)
  BY DEF HookTyped, DeliveriesTyped, DeliveryState
<1> QED BY <1>1, BatchesAssumption DEF Event1

\* The two ways a delivery goes on: with the event in hand, or past it.
Keeps(d, place) ==
  /\ delivery' = [delivery EXCEPT ![d] = delivery'[d]]
  /\ delivery'[d] \in DeliveryState
  /\ delivery'[d].at = place /\ delivery'[d].todo = delivery[d].todo
Leaves(d) ==
  /\ delivery' = [delivery EXCEPT ![d] = delivery'[d]]
  /\ delivery'[d] \in DeliveryState
  /\ delivery'[d].at \notin InHand

LEMMA ToKeeps ==
  ASSUME HookTyped, NEW d \in Delivery, NEW place \in InHand, To(d, place)
  PROVE  Keeps(d, place)
BY DEF HookTyped, DeliveriesTyped, DeliveryState, To, Keeps

LEMMA NextLeaves ==
  ASSUME HookTyped, NEW d \in Delivery, delivery[d].todo # <<>>, NextEvent(d)
  PROVE  Leaves(d)
<1>1. Tail(delivery[d].todo) \in Seq(Event)
  BY EventInHand
<1> QED BY <1>1 DEF HookTyped, DeliveriesTyped, DeliveryState, NextEvent, Leaves, InHand

LEMMA GiveUpLeaves ==
  ASSUME HookTyped, NEW d \in Delivery, GiveUp(d)
  PROVE  Leaves(d)
<1>1. <<>> \in Seq(Event)
  OBVIOUS
<1> QED BY <1>1 DEF HookTyped, DeliveriesTyped, DeliveryState, GiveUp, Leaves, InHand

LEMMA RestingLeaves ==
  ASSUME HookTyped, NEW d \in Delivery, delivery' = [delivery EXCEPT ![d] = Resting]
  PROVE  Leaves(d)
<1>1. Resting \in DeliveryState /\ Resting.at \notin InHand
  BY DEF Resting, DeliveryState, InHand
<1> QED BY <1>1 DEF HookTyped, DeliveriesTyped, Leaves

\* Every step of a delivery is one of the two.
Moves(d) ==
  \/ Leaves(d)
  \/ delivery[d].todo # <<>> /\ \E place \in InHand : Keeps(d, place)

DeliveryStep(d) ==
  \/ \E batch \in Batches : Deliver(d, batch)
  \/ CheckSeen(d) \/ Finish(d) \/ Compose(d) \/ Reply(d) \/ MarkSeen(d) \/ AlertOwner(d)
  \/ RecordSupport(d) \/ CheckLead(d) \/ MarkLead(d) \/ RecordLead(d) \/ Stop(d)

LEMMA DeliverLeaves ==
  ASSUME HookTyped, NEW d \in Delivery, NEW batch \in Batches, Deliver(d, batch)
  PROVE  Leaves(d)
<1>1. CASE open
  <2>1. batch \in Seq(Event)
    BY BatchesAssumption
  <2>2. [Resting EXCEPT !.at = "next", !.todo = batch] \in DeliveryState
    BY <2>1 DEF Resting, DeliveryState
  <2>3. delivery' = [delivery EXCEPT ![d] = [Resting EXCEPT !.at = "next", !.todo = batch]]
    BY <1>1 DEF Deliver
  <2> QED BY <2>2, <2>3 DEF HookTyped, DeliveriesTyped, Leaves, Resting, InHand
<1>2. CASE ~open
  BY <1>2, RestingLeaves DEF Deliver
<1> QED BY <1>1, <1>2

LEMMA ComposeKeeps ==
  ASSUME HookTyped, NEW d \in Delivery, Compose(d)
  PROVE  Keeps(d, "send") \/ Leaves(d)
<1>0. delivery[d].todo # <<>>
  BY DEF Compose, HookTyped, DeliveriesTyped, InHand
<1>1. CASE open
  <2>1. PICK grounded \in BOOLEAN :
          delivery' = [delivery EXCEPT ![d].at = "send", ![d].grounded = grounded]
    BY <1>1 DEF Compose
  <2> QED BY <2>1 DEF HookTyped, DeliveriesTyped, DeliveryState, Keeps, InHand
<1>2. CASE ~open
  BY <1>0, <1>2, NextLeaves DEF Compose
<1> QED BY <1>1, <1>2

LEMMA StepMoves ==
  ASSUME HookTyped, NEW d \in Delivery, DeliveryStep(d)
  PROVE  Moves(d)
<1>0. delivery[d].at \in InHand => delivery[d].todo # <<>>
  BY DEF HookTyped, DeliveriesTyped
<1> USE <1>0 DEF Moves, InHand
<1>1. ASSUME NEW batch \in Batches, Deliver(d, batch) PROVE Moves(d)
  BY <1>1, DeliverLeaves
<1>2. CASE CheckSeen(d)
  BY <1>2, ToKeeps, NextLeaves, GiveUpLeaves DEF CheckSeen
<1>3. CASE Finish(d) \/ Stop(d)
  BY <1>3, RestingLeaves DEF Finish, Stop
<1>4. CASE Compose(d)
  BY <1>4, ComposeKeeps DEF Compose
<1>5. CASE Reply(d)
  BY <1>5, ToKeeps, GiveUpLeaves DEF Reply
<1>6. CASE MarkSeen(d) \/ AlertOwner(d) \/ RecordSupport(d)
  BY <1>6, ToKeeps DEF MarkSeen, AlertOwner, RecordSupport
<1>7. CASE CheckLead(d)
  BY <1>7, ToKeeps, NextLeaves, GiveUpLeaves DEF CheckLead
<1>8. CASE MarkLead(d)
  BY <1>8, ToKeeps DEF MarkLead
<1>9. CASE RecordLead(d)
  BY <1>9, NextLeaves DEF RecordLead
<1> QED BY <1>1, <1>2, <1>3, <1>4, <1>5, <1>6, <1>7, <1>8, <1>9 DEF DeliveryStep

LEMMA MovesTyped ==
  ASSUME HookTyped, NEW d \in Delivery, Moves(d)
  PROVE  DeliveriesTyped'
<1>1. delivery' \in [Delivery -> DeliveryState] /\ \A b \in Delivery \ {d} : delivery'[b] = delivery[b]
  BY DEF Moves, Leaves, Keeps, HookTyped, DeliveriesTyped
<1>2. delivery'[d].at \in InHand => delivery'[d].todo # <<>>
  BY DEF Moves, Leaves, Keeps
<1> QED BY <1>1, <1>2 DEF HookTyped, DeliveriesTyped

LEMMA StepRecordsTyped ==
  ASSUME HookTyped, NEW d \in Delivery, DeliveryStep(d)
  PROVE  RecordsTyped'
<1> USE DEF RecordsTyped, HookTyped, records
<1>0. delivery[d].at \in InHand => Event1(d) \in Event /\ AuthorOf[Event1(d)] \in Author
  BY EventInHand DEF DeliveriesTyped
<1>1. ASSUME NEW batch \in Batches, Deliver(d, batch) PROVE RecordsTyped'
  BY <1>1 DEF Deliver
<1>2. CASE CheckSeen(d) \/ Finish(d) \/ Compose(d) \/ Stop(d) \/ MarkSeen(d) \/ CheckLead(d) \/ MarkLead(d)
  BY <1>2 DEF CheckSeen, Finish, Compose, Stop, MarkSeen, CheckLead, MarkLead
<1>3. CASE Reply(d)
  BY <1>3 DEF Reply
<1>4. CASE AlertOwner(d)
  BY <1>4 DEF AlertOwner
<1>5. CASE RecordSupport(d)
  BY <1>5 DEF RecordSupport
<1>6. CASE RecordLead(d)
  BY <1>6 DEF RecordLead
<1> QED BY <1>1, <1>2, <1>3, <1>4, <1>5, <1>6 DEF DeliveryStep

\* What the deliveries share, which the cron passes leave alone.
hookState == <<delivery, replies, support, lead, alerts, seen, leadSeen, excused, spoiled>>

LEMMA BridgeApart ==
  BridgeNext \/ Gate \/ (\E x \in Event \union Author : Settle(x)) \/ UNCHANGED hookVars
    => UNCHANGED hookState
<1>1. ASSUME NEW n \in Entry, LeaveEntry(n) PROVE UNCHANGED hookState
  BY <1>1 DEF LeaveEntry, hookState, records
<1>2. ASSUME NEW c \in Cron, CronStep(c) PROVE UNCHANGED hookState
  BY <1>2 DEF CronStep, ListEntries, ReadEntry, RecordEntry, DeleteEntry, hookState, records
<1>3. CASE Gate
  BY <1>3 DEF Gate, hookState, records
<1>4. CASE UNCHANGED hookVars
  BY <1>4 DEF hookVars, hookState, records
<1>5. ASSUME NEW x, Settle(x) PROVE UNCHANGED hookState
  BY <1>5 DEF Settle, hookState, records
<1> QED BY <1>1, <1>2, <1>3, <1>4, <1>5 DEF BridgeNext

LEMMA HookSteps ==
  ASSUME [HookNext]_hookVars
  PROVE  UNCHANGED hookState \/ \E d \in Delivery : DeliveryStep(d)
BY BridgeApart DEF HookNext, WebhookNext, DeliveryStep

LEMMA HookTypedInit == HookInit => HookTyped
<1>1. Resting \in DeliveryState /\ Resting.at \notin InHand
  BY DEF Resting, DeliveryState, InHand
<1> QED BY <1>1 DEF HookInit, HookTyped, DeliveriesTyped, RecordsTyped

LEMMA HookTypedNext == HookTyped /\ [HookNext]_hookVars => HookTyped'
<1> SUFFICES ASSUME HookTyped, [HookNext]_hookVars PROVE HookTyped'
  OBVIOUS
<1>1. CASE UNCHANGED hookState
  BY <1>1 DEF hookState, HookTyped, DeliveriesTyped, RecordsTyped
<1>2. ASSUME NEW d \in Delivery, DeliveryStep(d) PROVE HookTyped'
  BY <1>2, StepMoves, MovesTyped, StepRecordsTyped DEF HookTyped
<1> QED BY <1>1, <1>2, HookSteps

-----------------------------------------------------------------------------
(* One reply, unless it is excused *)

\* An event is in the hands of one delivery before its marker, and its reply is
\* followed by the marker.
OneReply(e) ==
  /\ \A b, d \in Delivery : Past(b, e) /\ Past(d, e) => b = d
  /\ \A d \in Delivery : Past(d, e) /\ delivery[d].at # "mark" => replies[e] = 0
  /\ replies[e] <= 1
  /\ \/ replies[e] = 0
     \/ e \in seen
     \/ \E d \in Delivery : delivery[d].at = "mark" /\ Event1(d) = e

RepliesInv == \A e \in Event : e \notin excused => OneReply(e)
HookInv == HookTyped /\ RepliesInv

\* A delivery that goes no further than before the marker, or past it, takes no
\* other event in hand.
LEMMA OthersStay ==
  ASSUME HookTyped, NEW d \in Delivery, Moves(d), NEW b \in Delivery, b # d, NEW e
  PROVE  delivery'[b] = delivery[b] /\ Event1(b)' = Event1(b) /\ (Past(b, e)' <=> Past(b, e))
<1>1. delivery'[b] = delivery[b]
  BY DEF Moves, Leaves, Keeps, HookTyped, DeliveriesTyped
<1> QED BY <1>1 DEF Past, Event1

LEMMA LeavesPast ==
  ASSUME NEW d \in Delivery, Leaves(d), NEW e
  PROVE  ~Past(d, e)'
BY DEF Leaves, Past, InHand

LEMMA KeepsPast ==
  ASSUME NEW d \in Delivery, NEW place, Keeps(d, place), NEW e
  PROVE  /\ delivery'[d].at = place /\ Event1(d)' = Event1(d)
         /\ Past(d, e)' <=> place \in {"compose", "send", "mark"} /\ Event1(d) = e
BY DEF Keeps, Past, Event1

LEMMA RepliesStep ==
  ASSUME HookInv, NEW d \in Delivery, DeliveryStep(d), NEW e \in Event, e \notin excused'
  PROVE  OneReply(e)'
<1>0. Moves(d)
  BY StepMoves DEF HookInv
<1>1. ASSUME NEW b \in Delivery, b # d
      PROVE  delivery'[b] = delivery[b] /\ Event1(b)' = Event1(b) /\ (Past(b, e)' <=> Past(b, e))
  BY <1>0, <1>1, OthersStay DEF HookInv
<1>2. Keeps(d, delivery'[d].at) \/ Leaves(d)
  BY <1>0 DEF Moves, Keeps
<1>3. delivery[d].at \in InHand => delivery[d].todo # <<>> /\ Event1(d) \in Event
  BY EventInHand DEF HookInv, HookTyped, DeliveriesTyped
\* A step that neither replies nor marks, nor takes an event in hand.
<1>4. ASSUME UNCHANGED <<replies, seen, excused>>, delivery[d].at # "mark",
             Past(d, e)' => Past(d, e) /\ delivery'[d].at # "mark"
      PROVE  OneReply(e)'
  <2>1. OneReply(e)
    BY <1>4 DEF HookInv, RepliesInv
  <2>2. \A b, c \in Delivery : Past(b, e)' /\ Past(c, e)' => b = c
    BY <1>1, <1>4, <2>1 DEF OneReply
  <2>3. \A b \in Delivery : Past(b, e)' /\ delivery'[b].at # "mark" => replies'[e] = 0
    BY <1>1, <1>4, <2>1 DEF OneReply, Past
  <2>4. \A b \in Delivery : delivery[b].at = "mark" => delivery'[b].at = "mark" /\ Event1(b)' = Event1(b)
    BY <1>1, <1>4
  <2> QED BY <1>4, <2>1, <2>2, <2>3, <2>4 DEF OneReply
<1>5. ASSUME NEW batch \in Batches, Deliver(d, batch) PROVE OneReply(e)'
  <2>1. ~Past(d, e)' /\ delivery[d].at # "mark"
    BY <1>1, <1>5, DeliverLeaves, LeavesPast, KeepsPast DEF Deliver, HookInv
  <2>2. UNCHANGED <<replies, seen, excused>>
    BY <1>5 DEF Deliver
  <2> QED BY <1>4, <2>1, <2>2
<1>6. CASE CheckSeen(d)
  <2>1. delivery[d].todo # <<>> /\ UNCHANGED <<seen, replies>> /\ delivery[d].at = "next"
    BY <1>6 DEF CheckSeen
  <2>2. CASE (NextEvent(d) \/ GiveUp(d)) /\ UNCHANGED excused
    <3>1. Leaves(d)
      BY <2>1, <2>2, NextLeaves, GiveUpLeaves DEF HookInv
    <3> QED BY <1>4, <2>1, <2>2, <3>1, LeavesPast
  <2>3. CASE /\ Event1(d) \notin seen \ fresh /\ To(d, "compose")
             /\ Excuse({x \in {Event1(d)} : x \in fresh \/ \E b \in Delivery \ {d} : Past(b, x)})
    <3>1. Keeps(d, "compose") /\ ~Past(d, e)
      BY <2>1, <2>3, ToKeeps DEF HookInv, InHand, Past
    <3>2. /\ e \notin excused
          /\ Event1(d) = e => e \notin seen /\ \A b \in Delivery \ {d} : ~Past(b, e)
      BY <2>3 DEF Excuse
    <3>3. OneReply(e)
      BY <3>2 DEF HookInv, RepliesInv
    <3>4. Past(d, e)' <=> Event1(d) = e
      BY <1>1, <3>1, LeavesPast, KeepsPast DEF InHand
    <3>5. Event1(d) = e => replies[e] = 0
      BY <2>1, <2>3, <3>2, <3>3 DEF OneReply, Past
    <3>6. \A b \in Delivery : delivery[b].at = "mark" => delivery'[b].at = "mark" /\ Event1(b)' = Event1(b)
      BY <1>1, <2>1
    <3>7. \A b, c \in Delivery : Past(b, e)' /\ Past(c, e)' => b = c
      BY <1>1, <3>2, <3>3, <3>4 DEF OneReply
    <3>8. \A b \in Delivery : Past(b, e)' /\ delivery'[b].at # "mark" => replies'[e] = 0
      BY <1>1, <2>1, <3>3, <3>4, <3>5 DEF OneReply
    <3> QED BY <2>1, <3>3, <3>6, <3>7, <3>8 DEF OneReply
  <2> QED BY <1>6, <2>2, <2>3 DEF CheckSeen
<1>7. CASE Finish(d)
  <2>1. Leaves(d) /\ delivery[d].at # "mark" /\ UNCHANGED <<replies, seen, excused>>
    BY <1>7, RestingLeaves DEF Finish, HookInv
  <2> QED BY <1>1, <1>4, <2>1, LeavesPast, KeepsPast
<1>8. CASE Compose(d)
  <2>1. Keeps(d, "send") \/ Leaves(d)
    BY <1>8, ComposeKeeps DEF HookInv
  <2>2. delivery[d].at = "compose" /\ UNCHANGED <<replies, seen, excused>>
    BY <1>8 DEF Compose
  <2>3. Past(d, e)' => Past(d, e) /\ delivery'[d].at # "mark"
    BY <1>1, <2>1, <2>2, LeavesPast, KeepsPast DEF Past, Keeps, InHand
  <2> QED BY <1>4, <2>2, <2>3
<1>9. CASE Reply(d)
  <2>1. delivery[d].at = "send" /\ UNCHANGED seen /\ Event1(d) \in Event
    BY <1>3, <1>9 DEF Reply, InHand
  <2>2. CASE To(d, "mark") /\ replies' = [replies EXCEPT ![Event1(d)] = @ + 1] /\ UNCHANGED excused
    <3>1. Keeps(d, "mark") /\ OneReply(e)
      BY <2>2, ToKeeps DEF HookInv, InHand, RepliesInv
    <3>2. Past(d, e)' <=> Past(d, e)
      BY <1>1, <2>1, <3>1, LeavesPast, KeepsPast DEF InHand, Past
    <3>3. delivery'[d].at = "mark" /\ Event1(d)' = Event1(d)
      BY <1>1, <3>1, LeavesPast, KeepsPast DEF Keeps, InHand
    <3>4. CASE Event1(d) = e
      <4>1. replies[e] = 0 /\ replies'[e] = 1 /\ Past(d, e)
        BY <2>1, <2>2, <3>1, <3>4 DEF OneReply, Past, HookInv, HookTyped, RecordsTyped
      <4>2. \A b \in Delivery : Past(b, e)' => b = d
        BY <1>1, <3>1, <4>1 DEF OneReply
      <4> QED BY <3>3, <3>4, <4>1, <4>2 DEF OneReply
    <3>5. CASE Event1(d) # e
      <4>1. replies'[e] = replies[e] /\ ~Past(d, e) /\ ~Past(d, e)'
        BY <2>2, <3>2, <3>5 DEF Past, HookInv, HookTyped, RecordsTyped
      <4>2. \A b \in Delivery : delivery[b].at = "mark" => delivery'[b].at = "mark" /\ Event1(b)' = Event1(b)
        BY <1>1, <2>1
      <4>3. \A b \in Delivery : Past(b, e)' => Past(b, e) /\ delivery'[b] = delivery[b]
        BY <1>1, <4>1
      <4> QED BY <2>1, <3>1, <4>1, <4>2, <4>3 DEF OneReply
    <3> QED BY <3>4, <3>5
  <2>3. CASE GiveUp(d) /\ replies' = [replies EXCEPT ![Event1(d)] = @ + 1] /\ Excuse({Event1(d)})
    <3>1. Event1(d) # e /\ e \notin excused
      BY <2>3 DEF Excuse
    <3>2. replies'[e] = replies[e] /\ OneReply(e)
      BY <2>3, <3>1 DEF HookInv, HookTyped, RecordsTyped, RepliesInv
    <3>3. Leaves(d)
      BY <2>3, GiveUpLeaves DEF HookInv
    <3>4. \A b \in Delivery : Past(b, e)' => Past(b, e) /\ delivery'[b] = delivery[b]
      BY <1>1, <3>3, LeavesPast, KeepsPast
    <3>5. \A b \in Delivery : delivery[b].at = "mark" => delivery'[b].at = "mark" /\ Event1(b)' = Event1(b)
      BY <1>1, <2>1
    <3> QED BY <2>1, <3>2, <3>4, <3>5 DEF OneReply
  <2>4. CASE GiveUp(d) /\ UNCHANGED <<replies, excused>>
    <3>1. Leaves(d)
      BY <2>4, GiveUpLeaves DEF HookInv
    <3> QED BY <1>1, <1>4, <2>1, <2>4, <3>1, LeavesPast, KeepsPast
  <2> QED BY <1>9, <2>2, <2>3, <2>4 DEF Reply
<1>10. CASE MarkSeen(d)
  <2>1. delivery[d].at = "mark" /\ UNCHANGED replies /\ e \notin excused
    BY <1>10 DEF MarkSeen, Excuse
  <2>2. Keeps(d, "alert") /\ OneReply(e)
    BY <1>10, <2>1, ToKeeps DEF MarkSeen, HookInv, InHand, RepliesInv
  <2>3. (Event1(d) = e => e \in seen') /\ seen \subseteq seen'
    BY <1>10, <2>1 DEF MarkSeen, Excuse
  <2>4. \A b \in Delivery : Past(b, e)' => Past(b, e) /\ delivery'[b] = delivery[b]
    BY <1>1, <2>2, LeavesPast, KeepsPast DEF InHand
  <2>5. \A b \in Delivery : delivery[b].at = "mark" /\ Event1(b) = e =>
            \/ e \in seen'
            \/ delivery'[b].at = "mark" /\ Event1(b)' = e
    BY <1>1, <2>3
  <2> QED BY <2>1, <2>2, <2>3, <2>4, <2>5 DEF OneReply
<1>11. CASE AlertOwner(d) \/ RecordSupport(d) \/ CheckLead(d) \/ MarkLead(d) \/ RecordLead(d)
  <2>1. /\ delivery[d].at \in {"alert", "record", "lead", "leadmark", "leadrecord"}
        /\ UNCHANGED <<replies, seen, excused>>
    BY <1>11 DEF AlertOwner, RecordSupport, CheckLead, MarkLead, RecordLead
  <2>2. Leaves(d) \/ \E place \in {"record", "lead", "leadmark", "leadrecord"} : Keeps(d, place)
    BY <1>3, <1>11, ToKeeps, NextLeaves, GiveUpLeaves
       DEF AlertOwner, RecordSupport, CheckLead, MarkLead, RecordLead, HookInv, InHand
  <2>3. ~Past(d, e)'
    BY <1>1, <2>2, LeavesPast, KeepsPast DEF InHand
  <2> QED BY <1>4, <2>1, <2>3
<1>12. CASE Stop(d)
  <2>1. Leaves(d) /\ UNCHANGED <<replies, seen>>
    BY <1>12, RestingLeaves DEF Stop, HookInv
  <2>2. e \notin excused /\ (delivery[d].at = "mark" => Event1(d) # e)
    BY <1>12 DEF Stop, Excuse
  <2>3. OneReply(e)
    BY <2>2 DEF HookInv, RepliesInv
  <2>4. \A b \in Delivery : Past(b, e)' => Past(b, e) /\ delivery'[b] = delivery[b]
    BY <1>1, <2>1, LeavesPast, KeepsPast
  <2>5. \A b \in Delivery : delivery[b].at = "mark" /\ Event1(b) = e =>
            delivery'[b].at = "mark" /\ Event1(b)' = e
    BY <1>1, <2>2
  <2> QED BY <2>1, <2>3, <2>4, <2>5 DEF OneReply
<1> QED BY <1>5, <1>6, <1>7, <1>8, <1>9, <1>10, <1>11, <1>12 DEF DeliveryStep

LEMMA RepliesNext == HookInv /\ [HookNext]_hookVars => RepliesInv'
<1> SUFFICES ASSUME HookInv, [HookNext]_hookVars, NEW e \in Event, e \notin excused'
             PROVE  OneReply(e)'
  BY DEF RepliesInv
<1>1. CASE UNCHANGED hookState
  BY <1>1 DEF hookState, HookInv, RepliesInv, OneReply, Past, Event1
<1>2. ASSUME NEW d \in Delivery, DeliveryStep(d) PROVE OneReply(e)'
  BY <1>2, RepliesStep
<1> QED BY <1>1, <1>2, HookSteps

LEMMA RepliesInit == HookInit => RepliesInv
BY DEF HookInit, RepliesInv, OneReply, Past, Resting

LEMMA HookInductive == HookSpec => []HookInv
<1>1. HookInit => HookInv
  BY HookTypedInit, RepliesInit DEF HookInv
<1>2. HookInv /\ [HookNext]_hookVars => HookInv'
  BY HookTypedNext, RepliesNext DEF HookInv
<1> QED BY <1>1, <1>2, PTL DEF HookSpec

(***************************************************************************)
(* handleMetaWebhook answers an event a second time only if two deliveries *)
(* passed the check of its marker together, the second came before the     *)
(* marker was read everywhere, the marker was not stored or the answer of  *)
(* the first reply was lost, for any events and deliveries.                *)
(***************************************************************************)
THEOREM SecondReply == HookSpec => []SecondReplyExcused
<1>1. HookInv => SecondReplyExcused
  BY DEF HookInv, HookTyped, RecordsTyped, RepliesInv, OneReply, SecondReplyExcused
<1> QED BY <1>1, HookInductive, PTL

-----------------------------------------------------------------------------
(* An answered event is recorded, unless a call failed on the way *)

Alerted(e) == e \in Sensitive => e \in alerts
Telling == {"mark", "alert", "record"}
Leading == Telling \union {"lead", "leadmark", "leadrecord"}

\* The records of an answered event, and the lead of its author, are there or to come.
Told(e) ==
  replies[e] > 0 =>
    \/ e \in spoiled
    \/ support[e] > 0 /\ Alerted(e)
    \/ \E d \in Delivery : delivery[d].at \in Telling /\ Event1(d) = e
Known(e) ==
  replies[e] > 0 =>
    \/ AuthorOf[e] \in spoiled
    \/ lead[AuthorOf[e]] > 0
    \/ \E d \in Delivery : delivery[d].at \in Leading /\ AuthorOf[Event1(d)] = AuthorOf[e]

\* The alert comes before the support record, the marker of an author before the lead.
AlertDone(d) ==
  delivery[d].at = "record" => Event1(d) \in spoiled \/ Alerted(Event1(d))
Marked(a) ==
  a \in leadSeen =>
    \/ a \in spoiled
    \/ lead[a] > 0
    \/ \E d \in Delivery : delivery[d].at = "leadrecord" /\ AuthorOf[Event1(d)] = a

RecordsInv ==
  /\ \A e \in Event : Told(e) /\ Known(e)
  /\ \A d \in Delivery : AlertDone(d)
  /\ \A a \in Author : Marked(a)
RInv == HookTyped /\ RecordsInv

\* Nothing that is recorded is undone, and only a reply answers an event.
LEMMA RecordsGrow ==
  ASSUME HookTyped, NEW d \in Delivery, DeliveryStep(d)
  PROVE  /\ spoiled \subseteq spoiled' /\ alerts \subseteq alerts'
         /\ \A e \in Event : support[e] > 0 => support'[e] > 0
         /\ \A a \in Author : lead[a] > 0 => lead'[a] > 0
<1>0. delivery[d].at \in InHand => Event1(d) \in Event /\ AuthorOf[Event1(d)] \in Author
  BY EventInHand DEF HookTyped, DeliveriesTyped
<1>1. spoiled \subseteq spoiled'
  BY DEF DeliveryStep, Deliver, CheckSeen, Finish, Compose, Reply, MarkSeen, AlertOwner,
         RecordSupport, CheckLead, MarkLead, RecordLead, Stop, Spoil
<1>2. alerts \subseteq alerts'
  BY DEF DeliveryStep, Deliver, CheckSeen, Finish, Compose, Reply, MarkSeen, AlertOwner,
         RecordSupport, CheckLead, MarkLead, RecordLead, Stop, records
<1>3. UNCHANGED support \/ support' = [support EXCEPT ![Event1(d)] = @ + 1]
  BY DEF DeliveryStep, Deliver, CheckSeen, Finish, Compose, Reply, MarkSeen, AlertOwner,
         RecordSupport, CheckLead, MarkLead, RecordLead, Stop, records
<1>4. UNCHANGED lead \/ lead' = [lead EXCEPT ![AuthorOf[Event1(d)]] = @ + 1]
  BY DEF DeliveryStep, Deliver, CheckSeen, Finish, Compose, Reply, MarkSeen, AlertOwner,
         RecordSupport, CheckLead, MarkLead, RecordLead, Stop, records
<1>5. \A e \in Event : support[e] > 0 => support'[e] > 0
  BY <1>3 DEF HookTyped, RecordsTyped
<1>6. \A a \in Author : lead[a] > 0 => lead'[a] > 0
  BY <1>4 DEF HookTyped, RecordsTyped
<1> QED BY <1>1, <1>2, <1>5, <1>6

\* Where a delivery can go from each place.
LEMMA StepPlaces ==
  ASSUME HookTyped, NEW d \in Delivery, DeliveryStep(d)
  PROVE  /\ delivery[d].at = "send" \/ UNCHANGED replies
         /\ \/ Stop(d)
            \/ delivery[d].at = "send" /\ Reply(d)
            \/ delivery[d].at = "mark" /\ Keeps(d, "alert")
            \/ delivery[d].at = "alert" /\ AlertOwner(d) /\ Keeps(d, "record")
            \/ delivery[d].at = "record" /\ RecordSupport(d) /\ Keeps(d, "lead")
            \/ delivery[d].at = "lead" /\ CheckLead(d)
            \/ delivery[d].at = "leadmark" /\ MarkLead(d) /\ Keeps(d, "leadrecord")
            \/ delivery[d].at = "leadrecord" /\ RecordLead(d)
            \/ delivery[d].at \in {"idle", "next", "compose"} /\ (Leaves(d) \/ Keeps(d, "compose") \/ Keeps(d, "send"))
<1>1. delivery[d].at = "send" \/ UNCHANGED replies
  BY DEF DeliveryStep, Deliver, CheckSeen, Finish, Compose, Reply, MarkSeen, AlertOwner,
         RecordSupport, CheckLead, MarkLead, RecordLead, Stop
<1>2. ASSUME NEW batch \in Batches, Deliver(d, batch)
      PROVE  delivery[d].at = "idle" /\ Leaves(d)
  BY <1>2, DeliverLeaves DEF Deliver
<1>3. Finish(d) => delivery[d].at = "next" /\ Leaves(d)
  BY RestingLeaves DEF Finish
<1>4. CheckSeen(d) => delivery[d].at = "next" /\ (Leaves(d) \/ Keeps(d, "compose"))
  BY ToKeeps, NextLeaves, GiveUpLeaves DEF CheckSeen, InHand
<1>5. Compose(d) => delivery[d].at = "compose" /\ (Leaves(d) \/ Keeps(d, "send"))
  BY ComposeKeeps DEF Compose
<1>6. MarkSeen(d) => delivery[d].at = "mark" /\ Keeps(d, "alert")
  BY ToKeeps DEF MarkSeen, InHand
<1>7. AlertOwner(d) => delivery[d].at = "alert" /\ Keeps(d, "record")
  BY ToKeeps DEF AlertOwner, InHand
<1>8. RecordSupport(d) => delivery[d].at = "record" /\ Keeps(d, "lead")
  BY ToKeeps DEF RecordSupport, InHand
<1>9. MarkLead(d) => delivery[d].at = "leadmark" /\ Keeps(d, "leadrecord")
  BY ToKeeps DEF MarkLead, InHand
<1>10. /\ Reply(d) => delivery[d].at = "send"
       /\ CheckLead(d) => delivery[d].at = "lead"
       /\ RecordLead(d) => delivery[d].at = "leadrecord"
  BY DEF Reply, CheckLead, RecordLead
<1> QED BY <1>1, <1>2, <1>3, <1>4, <1>5, <1>6, <1>7, <1>8, <1>9, <1>10 DEF DeliveryStep

\* A delivery that is stopped, or whose reply's answer is lost, spoils its event.
LEMMA StopSpoils ==
  ASSUME NEW d \in Delivery, Stop(d)
  PROVE  Event1(d) \in spoiled' /\ AuthorOf[Event1(d)] \in spoiled'
BY DEF Stop, Spoil

LEMMA ReplyCases ==
  ASSUME HookTyped, NEW d \in Delivery, Reply(d)
  PROVE  /\ delivery[d].at = "send"
         /\ \A e \in Event : e # Event1(d) => replies'[e] = replies[e]
         /\ \/ Keeps(d, "mark")
            \/ Event1(d) \in spoiled' /\ AuthorOf[Event1(d)] \in spoiled'
            \/ UNCHANGED replies
BY ToKeeps DEF Reply, HookTyped, RecordsTyped, InHand, Spoil

LEMMA ToldStep ==
  ASSUME RInv, NEW d \in Delivery, DeliveryStep(d), NEW e \in Event
  PROVE  Told(e)'
<1>0. Moves(d) /\ HookTyped /\ Told(e) /\ AlertDone(d)
  BY StepMoves DEF RInv, RecordsInv
<1>1. ASSUME NEW b \in Delivery, b # d PROVE delivery'[b] = delivery[b] /\ Event1(b)' = Event1(b)
  BY <1>0, <1>1, OthersStay
<1>2. spoiled \subseteq spoiled' /\ alerts \subseteq alerts' /\ (support[e] > 0 => support'[e] > 0)
  BY <1>0, RecordsGrow
\* If the event was told of and d, should it be telling, goes on or is done.
<1>3. ASSUME replies'[e] = replies[e],
             delivery[d].at \in Telling /\ Event1(d) = e =>
               \/ delivery'[d].at \in Telling /\ Event1(d)' = e
               \/ e \in spoiled'
               \/ support'[e] > 0 /\ Alerted(e)'
      PROVE  Told(e)'
  BY <1>0, <1>1, <1>2, <1>3 DEF Told, Alerted
<1>4. CASE Stop(d)
  <2>1. replies'[e] = replies[e]
    BY <1>4 DEF Stop
  <2> QED BY <1>3, <1>4, <2>1, StopSpoils
<1>5. CASE Reply(d)
  <2>1. delivery[d].at = "send" /\ "send" \notin Telling
    BY <1>0, <1>5, ReplyCases DEF Telling
  <2>2. CASE e # Event1(d) \/ UNCHANGED replies
    <3>1. replies'[e] = replies[e]
      BY <1>0, <1>5, <2>2, ReplyCases
    <3> QED BY <1>3, <2>1, <3>1
  <2>3. CASE e = Event1(d) /\ Keeps(d, "mark")
    BY <2>3, KeepsPast DEF Told, Telling
  <2>4. CASE e = Event1(d) /\ Event1(d) \in spoiled'
    BY <2>4 DEF Told
  <2> QED BY <1>0, <1>5, <2>2, <2>3, <2>4, ReplyCases
<1>6. CASE \/ delivery[d].at = "mark" /\ Keeps(d, "alert")
           \/ delivery[d].at = "alert" /\ Keeps(d, "record")
  <2>1. replies'[e] = replies[e]
    BY <1>0, <1>6, StepPlaces
  <2> QED BY <1>3, <1>6, <2>1, KeepsPast DEF Telling
<1>7. CASE RecordSupport(d)
  <2>1. delivery[d].at = "record" /\ UNCHANGED replies
    BY <1>7 DEF RecordSupport
  <2>2. Event1(d) = e => e \in spoiled' \/ support'[e] > 0
    BY <1>7 DEF RecordSupport, Spoil, RInv, HookTyped, RecordsTyped
  <2>3. Event1(d) = e => e \in spoiled' \/ Alerted(e)'
    BY <1>0, <1>2, <2>1 DEF AlertDone, Alerted
  <2> QED BY <1>3, <2>1, <2>2, <2>3
<1>8. CASE delivery[d].at \notin Telling \union {"send"}
  <2>1. UNCHANGED replies
    BY <1>0, <1>8, StepPlaces
  <2> QED BY <1>3, <1>8, <2>1
<1>9. delivery[d].at \in Telling \union {"send"} =>
        \/ Stop(d) \/ Reply(d) \/ RecordSupport(d)
        \/ delivery[d].at = "mark" /\ Keeps(d, "alert")
        \/ delivery[d].at = "alert" /\ Keeps(d, "record")
  BY <1>0, StepPlaces DEF Telling
<1> QED BY <1>4, <1>5, <1>6, <1>7, <1>8, <1>9

LEMMA AlertDoneStep ==
  ASSUME RInv, NEW d \in Delivery, DeliveryStep(d), NEW b \in Delivery
  PROVE  AlertDone(b)'
<1>0. Moves(d) /\ HookTyped /\ AlertDone(b)
  BY StepMoves DEF RInv, RecordsInv
<1>1. spoiled \subseteq spoiled' /\ alerts \subseteq alerts'
  BY <1>0, RecordsGrow
<1>2. CASE b # d
  BY <1>0, <1>1, <1>2, OthersStay DEF AlertDone, Alerted
<1>3. CASE b = d /\ AlertOwner(d)
  <2>1. Event1(d) \in spoiled' \/ (Event1(d) \in Sensitive => Event1(d) \in alerts')
    BY <1>3 DEF AlertOwner, Spoil
  <2>2. Event1(d)' = Event1(d)
    BY <1>0, <1>3, ToKeeps, KeepsPast DEF AlertOwner, InHand
  <2> QED BY <1>3, <2>1, <2>2 DEF AlertDone, Alerted
<1>4. CASE b = d /\ ~AlertOwner(d)
  <2>1. delivery'[d].at # "record"
    <3>1. Stop(d) \/ Reply(d) \/ CheckLead(d) \/ RecordLead(d) => delivery'[d].at # "record"
      BY <1>0 DEF Stop, Reply, CheckLead, RecordLead, To, NextEvent, GiveUp, Resting, HookTyped, DeliveriesTyped, DeliveryState
    <3> QED BY <1>0, <1>4, <3>1, StepPlaces DEF Keeps, Leaves, InHand
  <2> QED BY <1>4, <2>1 DEF AlertDone
<1> QED BY <1>2, <1>3, <1>4

LEMMA MarkedStep ==
  ASSUME RInv, NEW d \in Delivery, DeliveryStep(d), NEW a \in Author
  PROVE  Marked(a)'
<1>0. Moves(d) /\ HookTyped /\ Marked(a)
  BY StepMoves DEF RInv, RecordsInv
<1>1. ASSUME NEW b \in Delivery, b # d PROVE delivery'[b] = delivery[b] /\ Event1(b)' = Event1(b)
  BY <1>0, <1>1, OthersStay
<1>2. spoiled \subseteq spoiled' /\ (lead[a] > 0 => lead'[a] > 0)
  BY <1>0, RecordsGrow
<1>3. ASSUME a \in leadSeen' => a \in leadSeen,
             delivery[d].at = "leadrecord" /\ AuthorOf[Event1(d)] = a =>
               a \in spoiled' \/ lead'[a] > 0
      PROVE  Marked(a)'
  BY <1>0, <1>1, <1>2, <1>3 DEF Marked
<1>4. CASE Stop(d)
  <2>1. UNCHANGED leadSeen
    BY <1>4 DEF Stop
  <2> QED BY <1>3, <1>4, <2>1, StopSpoils
<1>5. CASE MarkLead(d)
  <2>1. delivery[d].at = "leadmark" /\ leadSeen' \subseteq leadSeen \union {AuthorOf[Event1(d)]}
    BY <1>5 DEF MarkLead
  <2>2. delivery'[d].at = "leadrecord" /\ Event1(d)' = Event1(d)
    BY <1>0, <1>5, ToKeeps, KeepsPast DEF MarkLead, InHand
  <2>3. CASE AuthorOf[Event1(d)] = a
    BY <2>2, <2>3 DEF Marked
  <2> QED BY <1>3, <2>1, <2>3
<1>6. CASE RecordLead(d)
  <2>1. AuthorOf[Event1(d)] = a => a \in spoiled' \/ lead'[a] > 0
    BY <1>6 DEF RecordLead, Spoil, RInv, HookTyped, RecordsTyped
  <2> QED BY <1>3, <1>6, <2>1 DEF RecordLead
<1>7. CASE ~Stop(d) /\ ~MarkLead(d) /\ ~RecordLead(d)
  <2>1. UNCHANGED leadSeen
    BY <1>7 DEF DeliveryStep, Deliver, CheckSeen, Finish, Compose, Reply, MarkSeen, AlertOwner,
         RecordSupport, CheckLead
  <2>2. delivery[d].at # "leadrecord"
    BY <1>0, <1>7, StepPlaces
  <2> QED BY <1>3, <2>1, <2>2
<1> QED BY <1>4, <1>5, <1>6, <1>7

LEMMA KnownStep ==
  ASSUME RInv, NEW d \in Delivery, DeliveryStep(d), NEW e \in Event
  PROVE  Known(e)'
<1> DEFINE a == AuthorOf[e]
<1>0. Moves(d) /\ HookTyped /\ Known(e) /\ a \in Author /\ Marked(a)
  BY StepMoves, BatchesAssumption DEF RInv, RecordsInv
<1>1. ASSUME NEW b \in Delivery, b # d PROVE delivery'[b] = delivery[b] /\ Event1(b)' = Event1(b)
  BY <1>0, <1>1, OthersStay
<1>2. spoiled \subseteq spoiled' /\ (lead[a] > 0 => lead'[a] > 0)
  BY <1>0, RecordsGrow
<1> HIDE DEF a
<1>3. ASSUME replies'[e] = replies[e],
             delivery[d].at \in Leading /\ AuthorOf[Event1(d)] = a =>
               \/ \E b \in Delivery : delivery'[b].at \in Leading /\ AuthorOf[Event1(b)'] = a
               \/ a \in spoiled'
               \/ lead'[a] > 0
      PROVE  Known(e)'
  BY <1>0, <1>1, <1>2, <1>3 DEF Known, a
<1>4. CASE Stop(d)
  <2>1. replies'[e] = replies[e]
    BY <1>4 DEF Stop
  <2> QED BY <1>3, <1>4, <2>1, StopSpoils
<1>5. CASE Reply(d)
  <2>1. delivery[d].at = "send" /\ "send" \notin Leading
    BY <1>0, <1>5, ReplyCases DEF Leading, Telling
  <2>2. CASE e # Event1(d) \/ UNCHANGED replies
    <3>1. replies'[e] = replies[e]
      BY <1>0, <1>5, <2>2, ReplyCases
    <3> QED BY <1>3, <2>1, <3>1
  <2>3. CASE e = Event1(d) /\ Keeps(d, "mark")
    BY <2>3, KeepsPast DEF Known, Leading, Telling
  <2>4. CASE e = Event1(d) /\ AuthorOf[Event1(d)] \in spoiled'
    BY <2>4 DEF Known
  <2> QED BY <1>0, <1>5, <2>2, <2>3, <2>4, ReplyCases
<1>6. ASSUME NEW place \in Leading, Keeps(d, place), UNCHANGED replies
      PROVE  Known(e)'
  <2>1. delivery'[d].at = place /\ Event1(d)' = Event1(d)
    BY <1>6, KeepsPast
  <2> QED BY <1>3, <1>6, <2>1
<1>7. CASE CheckLead(d)
  <2>1. UNCHANGED replies /\ delivery[d].at = "lead"
    BY <1>7 DEF CheckLead
  <2>2. CASE To(d, "leadmark")
    <3>1. Keeps(d, "leadmark")
      BY <1>0, <2>2, ToKeeps DEF InHand
    <3> QED BY <1>6, <2>1, <3>1 DEF Leading
  <2>3. CASE AuthorOf[Event1(d)] \in leadSeen
    <3>1. AuthorOf[Event1(d)] = a =>
            \/ a \in spoiled \/ lead[a] > 0
            \/ \E b \in Delivery : delivery[b].at = "leadrecord" /\ AuthorOf[Event1(b)] = a
      BY <1>0, <2>3 DEF Marked
    <3>2. AuthorOf[Event1(d)] = a =>
            \/ a \in spoiled' \/ lead'[a] > 0
            \/ \E b \in Delivery : delivery'[b].at \in Leading /\ AuthorOf[Event1(b)'] = a
      BY <1>1, <1>2, <2>1, <3>1 DEF Leading
    <3> QED BY <1>3, <2>1, <3>2
  <2>4. CASE AuthorOf[Event1(d)] \in spoiled'
    BY <1>3, <2>1, <2>4
  <2> QED BY <1>7, <2>2, <2>3, <2>4 DEF CheckLead, Spoil
<1>8. CASE RecordLead(d)
  <2>1. AuthorOf[Event1(d)] = a => a \in spoiled' \/ lead'[a] > 0
    BY <1>0, <1>8 DEF RecordLead, Spoil, HookTyped, RecordsTyped
  <2> QED BY <1>3, <1>8, <2>1 DEF RecordLead
<1>9. CASE delivery[d].at \in {"idle", "next", "compose"}
  <2>1. UNCHANGED replies
    BY <1>0, <1>9, StepPlaces
  <2> QED BY <1>3, <1>9, <2>1 DEF Leading, Telling
<1> QED BY <1>0, <1>4, <1>5, <1>6, <1>7, <1>8, <1>9, StepPlaces DEF Leading, Telling

LEMMA RecordsNext == RInv /\ [HookNext]_hookVars => RecordsInv'
<1> SUFFICES ASSUME RInv, [HookNext]_hookVars PROVE RecordsInv'
  OBVIOUS
<1>1. CASE UNCHANGED hookState
  BY <1>1 DEF hookState, RInv, RecordsInv, Told, Known, AlertDone, Marked, Alerted, Event1
<1>2. ASSUME NEW d \in Delivery, DeliveryStep(d) PROVE RecordsInv'
  BY <1>2, ToldStep, KnownStep, AlertDoneStep, MarkedStep DEF RecordsInv
<1> QED BY <1>1, <1>2, HookSteps

LEMMA RecordsInit == HookInit => RecordsInv
BY DEF HookInit, RecordsInv, Told, Known, AlertDone, Marked, Resting

(***************************************************************************)
(* Every event handleMetaWebhook answered leaves its support record, its   *)
(* author a lead, and a sensitive one an alert, unless a call failed or    *)
(* the worker was stopped on the way, however many deliveries overlap.     *)
(***************************************************************************)
THEOREM Recorded == HookSpec => []AnsweredIsRecorded
<1>1. HookInit => RInv
  BY HookTypedInit, RecordsInit DEF RInv
<1>2. RInv /\ [HookNext]_hookVars => RInv'
  BY HookTypedNext, RecordsNext DEF RInv
<1>3. RInv => AnsweredIsRecorded
  <2> SUFFICES ASSUME RInv, NEW e \in Event, replies[e] > 0,
                      \A d \in Delivery : delivery[d].at = "idle"
               PROVE  /\ e \in spoiled \/ (support[e] > 0 /\ (e \in Sensitive => e \in alerts))
                      /\ AuthorOf[e] \in spoiled \/ lead[AuthorOf[e]] > 0
    BY DEF AnsweredIsRecorded
  <2>1. "idle" \notin Leading
    BY DEF Leading, Telling
  <2> QED BY <2>1 DEF RInv, RecordsInv, Told, Known, Alerted, Leading
<1> QED BY <1>1, <1>2, <1>3, PTL DEF HookSpec

HIDE DEF hookMarkers, PutSeen, PutLeadSeen

-----------------------------------------------------------------------------
(* Types *)

Answer == {"none", "ok", "unauthorized", "failed"}
Call   == [of : Nat, by : Who \union {"nobody"}, answer : Answer]
Place  == {"rest", "sent", "ask", "verify", "gone", "done", "loading"}

StateTyped ==
  /\ auth \in {"checking", "signedout", "ready"}
  /\ token \in Nat /\ storage \in Nat /\ drawn \in Nat
CallsTyped ==
  /\ boot \in Call /\ retry \in Nat /\ login \in {"idle", "sent"}
  /\ action \in [Slot -> [of : Nat, at : Place]]
  /\ leave \in [Who -> Nat]
RestTyped ==
  /\ marked \subseteq Nat /\ leaving \subseteq Nat /\ ended \subseteq Nat
  /\ spent \in [{"logins", "actions", "setbacks"} -> Nat]
  /\ mixed \in BOOLEAN /\ late \in BOOLEAN

PanelTyped == StateTyped /\ CallsTyped /\ RestTyped

LEMMA NoCallType == NoCall \in Call
BY DEF NoCall, Call, Answer

LEMMA RestType == Rest \in [of : Nat, at : Place]
BY DEF Rest, Place

LEMMA SpendType ==
  ASSUME RestTyped, NEW what \in {"logins", "actions", "setbacks"}, NEW limit,
         Spend(what, limit) \/ Unspent
  PROVE  spent' \in [{"logins", "actions", "setbacks"} -> Nat]
BY DEF RestTyped, Spend, Unspent

LEMMA LoadForType ==
  ASSUME PanelTyped, NEW s \in Nat, NEW by \in Who \union {"nobody"}, NEW stale \in BOOLEAN,
         LoadFor(s, by, stale)
  PROVE  boot' \in Call /\ retry' \in Nat /\ late' \in BOOLEAN
BY NoCallType DEF LoadFor, Call, Answer, PanelTyped, RestTyped, LoggingOut

LEMMA StartLeavingType ==
  ASSUME PanelTyped, NEW w \in Who, NEW s \in Nat, StartLeaving(w, s)
  PROVE  StateTyped' /\ boot' \in Call /\ retry' \in Nat
           /\ leave' \in [Who -> Nat] /\ leaving' \subseteq Nat
BY NoCallType DEF StartLeaving, Clear, PanelTyped, StateTyped, CallsTyped, RestTyped, panelState

LEMMA PanelTypedInit == PanelInit => PanelTyped
<1> SUFFICES ASSUME PanelInit PROVE PanelTyped
  OBVIOUS
<1>1. storage \in {0, 1}
  BY DEF PanelInit
<1>2. StateTyped
  BY <1>1 DEF PanelInit, StateTyped
<1>3. boot \in Call
  BY <1>1, NoCallType DEF PanelInit, Call
<1>4. CallsTyped
  BY <1>3, RestType DEF PanelInit, CallsTyped
<1>5. RestTyped
  BY DEF PanelInit, RestTyped
<1> QED BY <1>2, <1>4, <1>5 DEF PanelTyped

LEMMA PanelTypedNext == PanelTyped /\ [PanelNext]_panelVars => PanelTyped'
<1> SUFFICES ASSUME PanelTyped, [PanelNext]_panelVars PROVE PanelTyped'
  OBVIOUS
<1> USE NoCallType, RestType DEF PanelTyped
<1>1. CASE BootServed
  BY <1>1 DEF BootServed, Answers, Spend, Unspent, StateTyped, CallsTyped, RestTyped, Call, Answer,
         panelState, panelEdge
<1>2. CASE BootDrawn
  BY <1>2 DEF BootDrawn, StateTyped, CallsTyped, RestTyped, Call, panelEdge, panelGhosts
<1>3. CASE BootFailed
  BY <1>3 DEF BootFailed, StateTyped, CallsTyped, RestTyped, Call, panelState, panelEdge, panelGhosts
<1>4. CASE BootRefused
  BY <1>4 DEF BootRefused, StateTyped, CallsTyped, RestTyped, panelEdge
<1>5. CASE RetryFires
  <2>1. LoadFor(retry, "nobody", retry # token) /\ retry \in Nat
    BY <1>5 DEF RetryFires, CallsTyped
  <2>2. boot' \in Call /\ retry' \in Nat /\ late' \in BOOLEAN
    BY <2>1, LoadForType
  <2> QED BY <1>5, <2>2 DEF RetryFires, StateTyped, CallsTyped, RestTyped, panelState, panelEdge
<1>6. CASE Sync
  <2>1. LoadFor(token, "nobody", FALSE) /\ token \in Nat
    BY <1>6 DEF Sync, StateTyped
  <2>2. boot' \in Call /\ retry' \in Nat /\ late' \in BOOLEAN
    BY <2>1, LoadForType
  <2>3. spent' \in [{"logins", "actions", "setbacks"} -> Nat]
    BY <1>6, SpendType DEF Sync
  <2> QED BY <1>6, <2>2, <2>3 DEF Sync, StateTyped, CallsTyped, RestTyped, panelEdge
<1>7. CASE Reload
  <2>1. spent' \in [{"logins", "actions", "setbacks"} -> Nat]
    BY <1>7, SpendType DEF Reload
  <2> QED BY <1>7, <2>1 DEF Reload, StateTyped, CallsTyped, RestTyped, Call, Answer, NoCall,
            panelEdge, panelGhosts
<1>8. CASE SendLogin
  BY <1>8 DEF SendLogin, StateTyped, CallsTyped, RestTyped, panelState, panelEdge, panelGhosts
<1>9. CASE Enter
  <2> DEFINE s == spent["logins"] + 1
  <2>1. s \in Nat
    BY DEF RestTyped
  <2>2. LoadFor(s, "nobody", FALSE)
    BY <1>9 DEF Enter
  <2>3. boot' \in Call /\ retry' \in Nat /\ late' \in BOOLEAN
    BY <2>1, <2>2, LoadForType
  <2>4. spent' \in [{"logins", "actions", "setbacks"} -> Nat]
    BY <1>9, SpendType DEF Enter
  <2>5. mixed' \in BOOLEAN
    BY <1>9 DEF Enter, RestTyped, LoggingOut
  <2> QED BY <1>9, <2>1, <2>3, <2>4, <2>5 DEF Enter, StateTyped, CallsTyped, RestTyped, panelEdge
<1>10. CASE Logout
  <2>1. StartLeaving("owner", token) /\ token \in Nat /\ "owner" \in Who
    BY <1>10 DEF Logout, StateTyped, Who
  <2>2. StateTyped' /\ boot' \in Call /\ retry' \in Nat /\ leave' \in [Who -> Nat] /\ leaving' \subseteq Nat
    BY <2>1, StartLeavingType
  <2> QED BY <1>10, <2>1, <2>2 DEF Logout, CallsTyped, RestTyped
<1>11. ASSUME NEW s \in Token, EdgeRevokes(s) PROVE PanelTyped'
  <2>1. spent' \in [{"logins", "actions", "setbacks"} -> Nat]
    BY <1>11, SpendType DEF EdgeRevokes
  <2>2. marked' \subseteq Nat /\ leaving' \subseteq Nat
    BY <1>11 DEF EdgeRevokes, RestTyped
  <2> QED BY <1>11, <2>1, <2>2 DEF EdgeRevokes, StateTyped, CallsTyped, RestTyped,
            panelState, panelCalls, panelGhosts
<1>12. ASSUME NEW w \in Who, Left(w) PROVE PanelTyped'
  BY <1>12 DEF Left, Clear, Spend, Unspent, StateTyped, CallsTyped, RestTyped, panelEdge
<1>13. ASSUME NEW a \in Slot, Act(a) PROVE PanelTyped'
  <2>1. spent' \in [{"logins", "actions", "setbacks"} -> Nat]
    BY <1>13, SpendType DEF Act
  <2>2. [Rest EXCEPT !.of = token, !.at = "sent"] \in [of : Nat, at : Place]
    BY DEF StateTyped, Place, Rest
  <2> QED BY <1>13, <2>1, <2>2 DEF Act, StateTyped, CallsTyped, RestTyped, panelState, panelEdge, panelGhosts
<1>14. ASSUME NEW a \in Slot, ActServed(a) PROVE PanelTyped'
  <2>1. PICK answer \in {"ok", "unauthorized", "failed"} :
          /\ \/ action[a].of # 0 /\ Answers(action[a].of, answer)
             \/ action[a].of = 0 /\ answer = "unauthorized" /\ Unspent
          /\ \E at \in AfterAnswer(action[a].at, answer) :
               action' = [action EXCEPT ![a] = IF at = "rest" THEN Rest ELSE [@ EXCEPT !.at = at]]
          /\ ended' = IF answer = "unauthorized" THEN ended \union {action[a].of} ELSE ended
    BY <1>14 DEF ActServed
  <2>2. AfterAnswer(action[a].at, answer) \subseteq Place
    BY DEF AfterAnswer, Place
  <2>3. action' \in [Slot -> [of : Nat, at : Place]]
    BY <2>1, <2>2 DEF CallsTyped
  <2>4. ended' \subseteq Nat
    BY <2>1 DEF CallsTyped, RestTyped
  <2>5. spent' \in [{"logins", "actions", "setbacks"} -> Nat]
    BY <2>1, SpendType DEF Answers
  <2> QED BY <1>14, <2>3, <2>4, <2>5 DEF ActServed, StateTyped, CallsTyped, RestTyped, panelState, panelEdge
<1>15. ASSUME NEW a \in Slot, ActAsks(a) PROVE PanelTyped'
  BY <1>15 DEF ActAsks, Place, StateTyped, CallsTyped, RestTyped, panelState, panelEdge, panelGhosts
<1>16. ASSUME NEW a \in Slot, ActLoads(a) PROVE PanelTyped'
  <2>1. LoadFor(action[a].of, a, action[a].of # token) /\ action[a].of \in Nat /\ a \in Who
    BY <1>16 DEF ActLoads, CallsTyped, Who
  <2>2. boot' \in Call /\ retry' \in Nat /\ late' \in BOOLEAN
    BY <2>1, LoadForType
  <2>3. action' \in [Slot -> [of : Nat, at : Place]]
    BY <1>16 DEF ActLoads, CallsTyped, Place
  <2> QED BY <1>16, <2>2, <2>3 DEF ActLoads, StateTyped, CallsTyped, RestTyped, panelState, panelEdge
<1>17. ASSUME NEW a \in Slot, ActEnds(a) PROVE PanelTyped'
  BY <1>17 DEF ActEnds, StateTyped, CallsTyped, RestTyped, panelState, panelEdge, panelGhosts
<1>18. ASSUME NEW a \in Slot, ActLeaves(a) PROVE PanelTyped'
  <2>1. StartLeaving(a, action[a].of) /\ action[a].of \in Nat /\ a \in Who
    BY <1>18 DEF ActLeaves, CallsTyped, Who
  <2>2. StateTyped' /\ boot' \in Call /\ retry' \in Nat /\ leave' \in [Who -> Nat] /\ leaving' \subseteq Nat
    BY <2>1, StartLeavingType
  <2> QED BY <1>18, <2>2 DEF ActLeaves, CallsTyped, RestTyped
<1>19. CASE UNCHANGED panelVars
  BY <1>19 DEF panelVars, panelState, panelCalls, panelEdge, panelGhosts, StateTyped, CallsTyped, RestTyped
<1> QED
  BY <1>1, <1>2, <1>3, <1>4, <1>5, <1>6, <1>7, <1>8, <1>9, <1>10, <1>11, <1>12, <1>13, <1>14,
     <1>15, <1>16, <1>17, <1>18, <1>19 DEF PanelNext, Loading, Leaving, Acting

-----------------------------------------------------------------------------
(* What is under way belongs to a panel that holds a session. *)

\* No load waits with a timer set, and unless one was started late, neither outlives
\* the session nor runs beside a logout.
LoadsHeld ==
  /\ boot # NoCall => retry = 0
  /\ \/ late
     \/ /\ auth = "ready" => token # 0
        /\ boot # NoCall \/ retry # 0 => token # 0
        /\ LoggingOut => boot = NoCall /\ retry = 0

PanelInv == PanelTyped /\ LoadsHeld

LEMMA LoadsHeldInit == PanelInit => LoadsHeld
BY DEF PanelInit, LoadsHeld, LoggingOut

LEMMA LoadsHeldLoad ==
  ASSUME PanelInv, NEW s, NEW by, NEW stale \in BOOLEAN, LoadFor(s, by, stale),
         UNCHANGED leave, stale \/ LoggingOut \/ token' = s,
         auth' = "ready" => token' # 0 \/ late
  PROVE  LoadsHeld'
BY DEF PanelInv, PanelTyped, RestTyped, LoadsHeld, LoadFor, LoggingOut, NoCall

\* A logout aborts what is under way before it waits for the edge.
LEMMA LoadsHeldLeave ==
  ASSUME PanelInv, NEW w \in Who, NEW s, StartLeaving(w, s), UNCHANGED late
  PROVE  LoadsHeld'
<1>1. boot' = NoCall /\ retry' = 0
  BY DEF StartLeaving
<1>2. late \/ (auth' = "ready" => token' # 0)
  BY DEF PanelInv, LoadsHeld, StartLeaving, Clear, panelState
<1> QED BY <1>1, <1>2 DEF LoadsHeld

LEMMA LoadsHeldNext == PanelInv /\ [PanelNext]_panelVars => LoadsHeld'
<1> SUFFICES ASSUME PanelInv, [PanelNext]_panelVars PROVE LoadsHeld'
  OBVIOUS
<1>1. CASE BootServed
  BY <1>1 DEF BootServed, PanelInv, LoadsHeld, LoggingOut, panelState
<1>2. CASE BootDrawn
  <2>1. boot # NoCall
    BY <1>2 DEF BootDrawn, NoCall
  <2> QED BY <1>2, <2>1 DEF BootDrawn, PanelInv, LoadsHeld, LoggingOut, panelGhosts
<1>3. CASE BootFailed
  <2>1. boot # NoCall
    BY <1>3 DEF BootFailed, NoCall
  <2> QED BY <1>3, <2>1 DEF BootFailed, PanelInv, LoadsHeld, LoggingOut, panelState, panelGhosts
<1>4. CASE BootRefused
  <2>1. boot # NoCall
    BY <1>4 DEF BootRefused, NoCall
  <2> QED BY <1>4, <2>1 DEF BootRefused, PanelInv, LoadsHeld, LoggingOut
<1>5. CASE RetryFires
  <2>1. LoadFor(retry, "nobody", retry # token)
    BY <1>5 DEF RetryFires
  <2>2. UNCHANGED leave /\ UNCHANGED <<auth, token>>
    BY <1>5 DEF RetryFires, panelState
  <2>3. (retry # token) \/ token' = retry
    BY <2>2
  <2>4. auth' = "ready" => token' # 0 \/ late
    BY <2>2 DEF PanelInv, LoadsHeld
  <2> QED BY <2>1, <2>2, <2>3, <2>4, LoadsHeldLoad
<1>6. CASE Sync
  <2>1. LoadFor(token, "nobody", FALSE) /\ UNCHANGED <<leave, token>>
    BY <1>6 DEF Sync
  <2>2. auth' = "ready" => token' # 0 \/ late
    BY <1>6 DEF Sync, PanelInv, LoadsHeld
  <2> QED BY <2>1, <2>2, LoadsHeldLoad
<1>7. CASE Reload
  BY <1>7 DEF Reload, LoadsHeld, LoggingOut, NoCall, panelGhosts
<1>8. CASE SendLogin
  BY <1>8 DEF SendLogin, PanelInv, LoadsHeld, LoggingOut, panelState, panelGhosts
<1>9. CASE Enter
  <2> DEFINE s == spent["logins"] + 1
  <2>1. s # 0
    BY DEF PanelInv, PanelTyped, RestTyped
  <2>2. LoadFor(s, "nobody", FALSE) /\ UNCHANGED leave /\ token' = s
    BY <1>9 DEF Enter
  <2> QED BY <2>1, <2>2, LoadsHeldLoad
<1>10. CASE Logout
  BY <1>10, LoadsHeldLeave DEF Logout, Who
<1>11. ASSUME NEW s \in Token, EdgeRevokes(s) PROVE LoadsHeld'
  BY <1>11 DEF EdgeRevokes, PanelInv, LoadsHeld, LoggingOut, panelState, panelCalls, panelGhosts
<1>12. ASSUME NEW w \in Who, Left(w) PROVE LoadsHeld'
  <2>1. LoggingOut
    BY <1>12 DEF Left, LoggingOut
  <2> QED BY <1>12, <2>1 DEF Left, Clear, PanelInv, LoadsHeld
<1>13. ASSUME NEW a \in Slot, Act(a) PROVE LoadsHeld'
  BY <1>13 DEF Act, PanelInv, LoadsHeld, LoggingOut, panelState, panelGhosts
<1>14. ASSUME NEW a \in Slot, ActServed(a) PROVE LoadsHeld'
  BY <1>14 DEF ActServed, PanelInv, LoadsHeld, LoggingOut, panelState
<1>15. ASSUME NEW a \in Slot, ActAsks(a) PROVE LoadsHeld'
  BY <1>15 DEF ActAsks, PanelInv, LoadsHeld, LoggingOut, panelState, panelGhosts
<1>16. ASSUME NEW a \in Slot, ActLoads(a) PROVE LoadsHeld'
  <2>1. LoadFor(action[a].of, a, action[a].of # token)
    BY <1>16 DEF ActLoads
  <2>2. UNCHANGED leave /\ UNCHANGED <<auth, token>>
    BY <1>16 DEF ActLoads, panelState
  <2>3. auth' = "ready" => token' # 0 \/ late
    BY <2>2 DEF PanelInv, LoadsHeld
  <2> QED BY <2>1, <2>2, <2>3, LoadsHeldLoad
<1>17. ASSUME NEW a \in Slot, ActEnds(a) PROVE LoadsHeld'
  BY <1>17 DEF ActEnds, PanelInv, LoadsHeld, LoggingOut, panelState, panelGhosts
<1>18. ASSUME NEW a \in Slot, ActLeaves(a) PROVE LoadsHeld'
  BY <1>18, LoadsHeldLeave DEF ActLeaves, Who
<1>19. CASE UNCHANGED panelVars
  BY <1>19 DEF panelVars, panelState, panelCalls, panelGhosts, PanelInv, LoadsHeld, LoggingOut
<1> QED
  BY <1>1, <1>2, <1>3, <1>4, <1>5, <1>6, <1>7, <1>8, <1>9, <1>10, <1>11, <1>12, <1>13, <1>14,
     <1>15, <1>16, <1>17, <1>18, <1>19 DEF PanelNext, Loading, Leaving, Acting

LEMMA PanelInductive == PanelSpec => []PanelInv
<1>1. PanelInit => PanelInv
  BY PanelTypedInit, LoadsHeldInit DEF PanelInv
<1>2. PanelInv /\ [PanelNext]_panelVars => PanelInv'
  BY PanelTypedNext, LoadsHeldNext DEF PanelInv
<1> QED BY <1>1, <1>2, PTL DEF PanelSpec

(***************************************************************************)
(* The panel (App.tsx) is ready without a session only if a load was       *)
(* started while a logout waited, or by an action of a session the panel   *)
(* no longer held, for any number of actions, logins and failures.         *)
(***************************************************************************)
THEOREM SignedOut == PanelSpec => []SignedOutStays
<1>1. PanelInv => SignedOutStays
  BY DEF PanelInv, LoadsHeld, SignedOutStays
<1> QED BY <1>1, PanelInductive, PTL

-----------------------------------------------------------------------------
(* What the panel learns is about the session it holds. *)

\* Unless a session began with callbacks of another pending.
Own(s) == s = token \/ token = 0
OneSession ==
  /\ boot # NoCall => Own(boot.of)
  /\ retry # 0 => Own(retry)
  /\ \A a \in Slot : action[a].at # "rest" => Own(action[a].of)
  /\ \A w \in Who : leave[w] # 0 => Own(leave[w])

\* A session is given up for a reason.
Refused ==
  /\ boot.answer = "unauthorized" => boot.of \in ended
  /\ \A a \in Slot : action[a].at = "gone" => action[a].of \in ended
  /\ \A w \in Who : leave[w] # 0 => leave[w] \in ended

SessionsHeld == storage = token /\ (mixed \/ OneSession) /\ Refused
SInv == PanelTyped /\ SessionsHeld

LEMMA SessionsHeldInit == PanelInit => SessionsHeld
BY DEF PanelInit, SessionsHeld, OneSession, Refused, Own, NoCall, Rest

\* No action began, none found its session gone.
ActionsKept ==
  \A a \in Slot : /\ action'[a].at # "rest" => /\ action[a].at # "rest"
                                                /\ action'[a].of = action[a].of
                  /\ action'[a].at = "gone" => action[a].at = "gone"

\* A load of the session held, or of one whose callback is pending.
LEMMA SessionsHeldLoad ==
  ASSUME SInv, NEW s, NEW by, NEW stale, LoadFor(s, by, stale), mixed \/ Own(s),
         UNCHANGED <<token, storage, leave, ended, mixed>>, ActionsKept
  PROVE  SessionsHeld'
<1>1. mixed' \/ OneSession'
  BY DEF SInv, SessionsHeld, OneSession, Own, LoadFor, ActionsKept
<1>2. Refused'
  BY DEF SInv, SessionsHeld, Refused, LoadFor, NoCall, ActionsKept
<1> QED BY <1>1, <1>2 DEF SInv, SessionsHeld

LEMMA SessionsHeldLeave ==
  ASSUME SInv, NEW w \in Who, NEW s, StartLeaving(w, s), UNCHANGED mixed,
         mixed \/ Own(s), s \in ended', ended \subseteq ended',
         \A a \in Slot : action'[a] = action[a] \/ action'[a] = Rest
  PROVE  SessionsHeld'
<1>1. leave \in [Who -> Nat]
  BY DEF SInv, PanelTyped, CallsTyped
<1>2. storage' = token' /\ (token' = token \/ token' = 0)
  BY DEF SInv, SessionsHeld, StartLeaving, Clear, panelState
<1>3. mixed' \/ OneSession'
  BY <1>1, <1>2 DEF SInv, SessionsHeld, OneSession, Own, StartLeaving, Rest
<1>4. Refused'
  BY <1>1 DEF SInv, SessionsHeld, Refused, StartLeaving, NoCall, Rest
<1> QED BY <1>2, <1>3, <1>4 DEF SessionsHeld

LEMMA SessionsHeldNext == SInv /\ [PanelNext]_panelVars => SessionsHeld'
<1> SUFFICES ASSUME SInv, [PanelNext]_panelVars PROVE SessionsHeld'
  OBVIOUS
<1>0. /\ action \in [Slot -> [of : Nat, at : Place]]
      /\ leave \in [Who -> Nat] /\ boot \in Call
  BY DEF SInv, PanelTyped, CallsTyped
<1>1. CASE BootServed
  <2>1. mixed' \/ OneSession'
    BY <1>1 DEF BootServed, SInv, SessionsHeld, OneSession, Own, panelState
  <2>2. Refused'
    BY <1>0, <1>1 DEF BootServed, SInv, SessionsHeld, Refused, Call
  <2> QED BY <1>1, <2>1, <2>2 DEF BootServed, SInv, SessionsHeld, panelState
<1>2. CASE BootDrawn
  <2>1. boot # NoCall
    BY <1>2 DEF BootDrawn, NoCall
  <2> QED BY <1>2, <2>1 DEF BootDrawn, SInv, SessionsHeld, OneSession, Own, Refused, NoCall, panelGhosts
<1>3. CASE BootFailed
  <2>1. boot # NoCall
    BY <1>3 DEF BootFailed, NoCall
  <2> QED BY <1>3, <2>1 DEF BootFailed, SInv, SessionsHeld, OneSession, Own, Refused, NoCall,
            panelState, panelGhosts
<1>4. CASE BootRefused
  BY <1>4 DEF BootRefused, SInv, SessionsHeld, OneSession, Own, Refused, NoCall
<1>5. CASE RetryFires
  <2>1. LoadFor(retry, "nobody", retry # token) /\ UNCHANGED <<token, storage, leave, ended, mixed, action>>
    BY <1>5 DEF RetryFires, panelState
  <2>2. mixed \/ Own(retry)
    BY <1>5 DEF RetryFires, SInv, SessionsHeld, OneSession
  <2>3. ActionsKept
    BY <2>1 DEF ActionsKept
  <2> QED BY <2>1, <2>2, <2>3, SessionsHeldLoad
<1>6. CASE Sync
  <2>1. LoadFor(token, "nobody", FALSE) /\ UNCHANGED <<token, storage, leave, ended, mixed, action>>
    BY <1>6 DEF Sync
  <2>2. Own(token)
    BY DEF Own
  <2>3. ActionsKept
    BY <2>1 DEF ActionsKept
  <2> QED BY <2>1, <2>2, <2>3, SessionsHeldLoad
<1>7. CASE Reload
  BY <1>7 DEF Reload, SInv, SessionsHeld, OneSession, Own, Refused, NoCall, Rest, panelGhosts
<1>8. CASE SendLogin
  BY <1>8 DEF SendLogin, SInv, SessionsHeld, OneSession, Own, Refused, panelState, panelGhosts
<1>9. CASE Enter
  <2> DEFINE s == spent["logins"] + 1
  <2>1. LoadFor(s, "nobody", FALSE) /\ token' = s /\ storage' = s /\ UNCHANGED <<action, leave, ended>>
    BY <1>9 DEF Enter
  <2>2. mixed' = (mixed \/ LoggingOut \/ \E a \in Slot : action[a].at # "rest")
    BY <1>9 DEF Enter
  <2>3. boot' # NoCall => boot'.of = s
    BY <2>1 DEF LoadFor
  <2>4. mixed' \/ OneSession'
    BY <2>1, <2>2, <2>3 DEF OneSession, Own, LoadFor, LoggingOut
  <2>5. Refused'
    BY <2>1 DEF SInv, SessionsHeld, Refused, LoadFor, NoCall
  <2> QED BY <2>1, <2>4, <2>5 DEF SessionsHeld
<1>10. CASE Logout
  <2>1. StartLeaving("owner", token) /\ "owner" \in Who /\ token \in ended' /\ ended \subseteq ended'
    BY <1>10 DEF Logout, Who
  <2>2. Own(token)
    BY DEF Own
  <2> QED BY <1>10, <2>1, <2>2, SessionsHeldLeave DEF Logout
<1>11. ASSUME NEW s \in Token, EdgeRevokes(s) PROVE SessionsHeld'
  BY <1>11 DEF EdgeRevokes, SInv, SessionsHeld, OneSession, Own, Refused, panelState, panelCalls, panelGhosts
<1>12. ASSUME NEW w \in Who, Left(w) PROVE SessionsHeld'
  BY <1>0, <1>12 DEF Left, Clear, SInv, SessionsHeld, OneSession, Own, Refused
<1>13. ASSUME NEW a \in Slot, Act(a) PROVE SessionsHeld'
  BY <1>0, <1>13 DEF Act, Rest, SInv, SessionsHeld, OneSession, Own, Refused, panelState, panelGhosts
<1>14. ASSUME NEW a \in Slot, ActServed(a) PROVE SessionsHeld'
  <2>1. PICK answer \in {"ok", "unauthorized", "failed"} :
          /\ \E at \in AfterAnswer(action[a].at, answer) :
               action' = [action EXCEPT ![a] = IF at = "rest" THEN Rest ELSE [@ EXCEPT !.at = at]]
          /\ ended' = IF answer = "unauthorized" THEN ended \union {action[a].of} ELSE ended
    BY <1>14 DEF ActServed
  <2>2. PICK at \in AfterAnswer(action[a].at, answer) :
          action' = [action EXCEPT ![a] = IF at = "rest" THEN Rest ELSE [@ EXCEPT !.at = at]]
    BY <2>1
  <2>3. action[a].at # "rest"
    BY <1>14 DEF ActServed
  <2>4. /\ \A b \in Slot \ {a} : action'[b] = action[b]
        /\ action'[a].at # "rest" => action'[a].of = action[a].of /\ action'[a].at = at
    BY <1>0, <2>2 DEF Rest
  <2>5. at = "gone" => answer = "unauthorized"
    BY <2>2 DEF AfterAnswer
  <2>6. mixed' \/ OneSession'
    BY <1>14, <2>3, <2>4 DEF ActServed, SInv, SessionsHeld, OneSession, Own, panelState
  <2>7. Refused'
    BY <1>14, <2>1, <2>4, <2>5 DEF ActServed, SInv, SessionsHeld, Refused
  <2> QED BY <1>14, <2>6, <2>7 DEF ActServed, SInv, SessionsHeld, panelState
<1>15. ASSUME NEW a \in Slot, ActAsks(a) PROVE SessionsHeld'
  BY <1>0, <1>15 DEF ActAsks, SInv, SessionsHeld, OneSession, Own, Refused, panelState, panelGhosts
<1>16. ASSUME NEW a \in Slot, ActLoads(a) PROVE SessionsHeld'
  <2>1. LoadFor(action[a].of, a, action[a].of # token) /\ UNCHANGED <<token, storage, leave, ended, mixed>>
    BY <1>16 DEF ActLoads, panelState
  <2>2. mixed \/ Own(action[a].of)
    BY <1>16 DEF ActLoads, SInv, SessionsHeld, OneSession
  <2>3. ActionsKept
    BY <1>0, <1>16 DEF ActLoads, ActionsKept
  <2> QED BY <2>1, <2>2, <2>3, SessionsHeldLoad
<1>17. ASSUME NEW a \in Slot, ActEnds(a) PROVE SessionsHeld'
  BY <1>0, <1>17 DEF ActEnds, Rest, SInv, SessionsHeld, OneSession, Own, Refused, panelState, panelGhosts
<1>18. ASSUME NEW a \in Slot, ActLeaves(a) PROVE SessionsHeld'
  <2>1. StartLeaving(a, action[a].of) /\ a \in Who /\ UNCHANGED <<ended, mixed>>
    BY <1>18 DEF ActLeaves, Who
  <2>2. (mixed \/ Own(action[a].of)) /\ action[a].of \in ended
    BY <1>18 DEF ActLeaves, SInv, SessionsHeld, OneSession, Refused
  <2>3. \A b \in Slot : action'[b] = action[b] \/ action'[b] = Rest
    BY <1>0, <1>18 DEF ActLeaves
  <2> QED BY <2>1, <2>2, <2>3, SessionsHeldLeave
<1>19. CASE UNCHANGED panelVars
  BY <1>19 DEF panelVars, panelState, panelCalls, panelGhosts, SInv, SessionsHeld, OneSession, Own, Refused
<1> QED
  BY <1>1, <1>2, <1>3, <1>4, <1>5, <1>6, <1>7, <1>8, <1>9, <1>10, <1>11, <1>12, <1>13, <1>14,
     <1>15, <1>16, <1>17, <1>18, <1>19 DEF PanelNext, Loading, Leaving, Acting

LEMMA SessionsInductive == PanelSpec => []SInv
<1>1. PanelInit => SInv
  BY PanelTypedInit, SessionsHeldInit DEF SInv
<1>2. SInv /\ [PanelNext]_panelVars => SInv'
  BY PanelTypedNext, SessionsHeldNext DEF SInv
<1> QED BY <1>1, <1>2, PTL DEF PanelSpec

\* A logout under way, or one that starts, is of the session it clears.
LEMMA SessionLost ==
  ASSUME SInv, [PanelNext]_panelVars, token # 0, token' = 0
  PROVE  token \in ended \/ mixed
<1> USE DEF SInv, SessionsHeld
<1>1. CASE BootRefused
  <2>1. boot # NoCall /\ boot.of \in ended
    BY <1>1 DEF BootRefused, Refused, NoCall
  <2> QED BY <2>1 DEF OneSession, Own
<1>2. CASE Enter
  BY <1>2 DEF Enter, PanelTyped, RestTyped
<1>3. ASSUME NEW w \in Who, Left(w) PROVE token \in ended \/ mixed
  BY <1>3 DEF Left, OneSession, Own, Refused
<1>4. CASE Logout
  BY <1>4 DEF Logout, StartLeaving, panelState
<1>5. ASSUME NEW a \in Slot, ActLeaves(a) PROVE token \in ended \/ mixed
  BY <1>5 DEF ActLeaves, OneSession, Own, Refused
<1>6. CASE Reload
  BY <1>6 DEF Reload
<1>7. CASE UNCHANGED token
  BY <1>7
<1>8. \/ BootRefused \/ Enter \/ Logout \/ Reload \/ UNCHANGED token
      \/ \E w \in Who : Left(w)
      \/ \E a \in Slot : ActLeaves(a)
  <2>1. ASSUME NEW a \in Slot, Act(a) \/ ActServed(a) \/ ActAsks(a) \/ ActLoads(a) \/ ActEnds(a)
        PROVE  UNCHANGED token
    BY <2>1 DEF Act, ActServed, ActAsks, ActLoads, ActEnds, panelState
  <2>2. ASSUME NEW s \in Token, EdgeRevokes(s) PROVE UNCHANGED token
    BY <2>2 DEF EdgeRevokes, panelState
  <2>3. BootServed \/ BootDrawn \/ BootFailed \/ RetryFires \/ Sync \/ SendLogin => UNCHANGED token
    BY DEF BootServed, BootDrawn, BootFailed, RetryFires, Sync, SendLogin, panelState
  <2>4. UNCHANGED panelVars => UNCHANGED token
    BY DEF panelVars, panelState
  <2> QED BY <2>1, <2>2, <2>3, <2>4 DEF PanelNext, Loading, Leaving, Acting
<1> QED BY <1>1, <1>2, <1>3, <1>4, <1>5, <1>6, <1>7, <1>8

(***************************************************************************)
(* The panel drops a session only when the edge has refused it or the      *)
(* owner has left it, unless callbacks of an older session were pending    *)
(* when it began, for any number of actions, logins and failures.          *)
(***************************************************************************)
THEOREM SessionDropped == PanelSpec => SessionKept
<1>1. SInv /\ [PanelNext]_panelVars => [token # 0 /\ token' = 0 => token \in ended \/ mixed]_panelVars
  BY SessionLost
<1> QED BY <1>1, SessionsInductive, PTL DEF PanelSpec, SessionKept
=============================================================================
