---------------------- MODULE PassphraseThrottle_proofs ----------------------
(***************************************************************************)
(* Proofs about PassphraseThrottle: type correctness, that a source is     *)
(* locked by its own failures only, and that a lock in force stands.       *)
(***************************************************************************)
EXTENDS PassphraseThrottle, FiniteSetTheorems, TLAPS

USE ThrottleAssumption

LEMMA IdleTxType == IdleTx \in TxState
<1>1. PICK s \in Source : TRUE
  OBVIOUS
<1>2. (CHOOSE t \in Source : TRUE) \in Source
  BY <1>1
<1>3. AnyPrint \in Credential
  BY DEF AnyPrint
<1>4. Blank(AnyPrint) \in SourceRow
  BY <1>3 DEF Blank, SourceRow
<1>5. NoFailures \in AggregateRow
  BY DEF NoFailures, AggregateRow
<1>. QED
  BY <1>2, <1>3, <1>4, <1>5 DEF IdleTx, TxState

LEMMA BlankType == ASSUME NEW c \in Credential PROVE Blank(c) \in SourceRow
  BY DEF Blank, SourceRow

LEMMA RowForType ==
  ASSUME NEW row \in SourceRow, NEW c \in Credential
  PROVE  RowFor(row, c) \in SourceRow /\ RowFor(row, c).print = c
  BY BlankType DEF RowFor, Blank

LEMMA CountedType ==
  ASSUME NEW g \in AggregateRow, NEW ts \in Nat
  PROVE  Counted(g, ts) \in AggregateRow
  BY DEF Counted, AggregateRow, Least

LEMMA ThresholdType ==
  ASSUME NEW total \in Nat, NEW trusted \in BOOLEAN
  PROVE  Threshold(total, trusted) \in Hot..Normal
  BY DEF Threshold

LEMMA LockTimeType ==
  ASSUME NEW locks \in Nat \ {0}
  PROVE  LockTime(locks) \in Nat \ {0}
<1>1. <<1, 2, 4, 8>>[Least(4, locks)] \in {1, 2, 4, 8}
  BY DEF Least
<1>2. ASSUME NEW d \in {1, 2, 4, 8}
      PROVE  Base * d \in Nat \ {0}
  OBVIOUS
<1>. QED
  BY <1>1, <1>2 DEF LockTime, Least

\* One more failure keeps the row's type and its passphrase.
LEMMA PunishedType ==
  ASSUME NEW row \in SourceRow, NEW threshold \in Hot..Normal, NEW ts \in Nat
  PROVE  /\ Punished(row, threshold, ts) \in SourceRow
         /\ Punished(row, threshold, ts).print = row.print
<1>. DEFINE more == Least(MaxLocks, row.locks + 1)
<1>1. more \in 1..MaxLocks
  BY DEF Least, SourceRow
<1>2. LockTime(more) \in Nat
  BY <1>1, LockTimeType
<1>. HIDE DEF more
<1>3. CASE row.failures + 1 >= threshold
  <2>1. Punished(row, threshold, ts) =
          [failures |-> 0, locks |-> more, until |-> ts + LockTime(more),
           print |-> row.print]
    BY <1>3 DEF Punished, more
  <2>. QED
    BY <1>1, <1>2, <2>1 DEF SourceRow
<1>4. CASE ~(row.failures + 1 >= threshold)
  <2>1. Punished(row, threshold, ts) =
          [row EXCEPT !.failures = row.failures + 1, !.until = 0]
    BY <1>4 DEF Punished
  <2>2. row.failures + 1 \in 0..(Normal - 1)
    BY <1>4 DEF SourceRow
  <2>3. /\ [row EXCEPT !.failures = row.failures + 1, !.until = 0] \in SourceRow
        /\ [row EXCEPT !.failures = row.failures + 1, !.until = 0].print = row.print
    BY <2>2 DEF SourceRow
  <2>. QED
    BY <2>1, <2>3
<1>. QED
  BY <1>3, <1>4

Accounts(row, count) ==
  /\ Hot * row.locks + row.failures <= count
  /\ row.locks < MaxLocks => count <= Normal * row.locks + row.failures

\* One more failure keeps the account of a source's failures.
LEMMA PunishedAccounts ==
  ASSUME NEW row \in SourceRow, NEW threshold \in Hot..Normal, NEW ts \in Nat,
         NEW count \in Nat, Accounts(row, count)
  PROVE  Accounts(Punished(row, threshold, ts), count + 1)
<1>. DEFINE l == row.locks
            f == row.failures
<1>1. l \in Nat /\ f \in 0..(Normal - 1) /\ l <= MaxLocks
  BY DEF SourceRow
<1>2. CASE f + 1 >= threshold
  <2>1. /\ Punished(row, threshold, ts).locks = Least(MaxLocks, l + 1)
        /\ Punished(row, threshold, ts).failures = 0
    BY <1>2 DEF Punished
  <2>2. Hot * (l + 1) = Hot * l + Hot /\ Normal * (l + 1) = Normal * l + Normal
    BY <1>1
  <2>3. Hot * l \in Nat /\ Normal * l \in Nat
    BY <1>1
  <2>4. Hot * l + f <= count /\ (l < MaxLocks => count <= Normal * l + f)
    BY DEF Accounts
  <2>5. CASE l < MaxLocks
    <3>1. Least(MaxLocks, l + 1) = l + 1
      BY <1>1, <2>5 DEF Least
    <3>. QED
      BY <1>1, <1>2, <2>1, <2>2, <2>3, <2>4, <2>5, <3>1 DEF Accounts
  <2>6. CASE l = MaxLocks
    <3>1. Least(MaxLocks, l + 1) = l
      BY <1>1, <2>6 DEF Least
    <3>. QED
      BY <1>1, <1>2, <2>1, <2>3, <2>4, <2>6, <3>1 DEF Accounts
  <2>. QED
    BY <1>1, <2>5, <2>6
<1>3. CASE ~(f + 1 >= threshold)
  <2>1. /\ Punished(row, threshold, ts).locks = l
        /\ Punished(row, threshold, ts).failures = f + 1
    BY <1>3 DEF Punished, SourceRow
  <2>2. Hot * l \in Nat /\ Normal * l \in Nat
    BY <1>1
  <2>. QED
    BY <1>1, <2>1, <2>2 DEF Accounts
<1>. QED
  BY <1>2, <1>3

-----------------------------------------------------------------------------
(* The shape of a step that concerns one transaction *)

\* A transaction that ends leaves the others as they were.
LEMMA EndedTx ==
  ASSUME TypeOK, NEW a \in Attempt, tx' = [tx EXCEPT ![a] = IdleTx]
  PROVE  /\ tx' \in [Attempt -> TxState]
         /\ tx'[a].pc = "idle"
         /\ \A b \in Attempt \ {a} : tx'[b] = tx[b]
  BY IdleTxType DEF TypeOK, IdleTx

-----------------------------------------------------------------------------
(* The initial state *)

LEMMA InitIInv == Init => IInv
<1>. SUFFICES ASSUME Init PROVE IInv
  OBVIOUS
<1>1. AnyPrint \in Credential
  BY DEF AnyPrint
<1>2. TypeOK
  BY <1>1, BlankType, IdleTxType DEF TypeOK, Init, NoFailures, AggregateRow
<1>3. \A a \in Attempt : tx[a].pc = "idle"
  BY DEF Init, IdleTx
<1>4. OwnFailuresOnly
  BY DEF Init, OwnFailuresOnly, Blank
<1>. QED
  BY <1>2, <1>3, <1>4
     DEF IInv, LocksExclusive, HoldsSource, ReadsCurrent, WritesFollow

-----------------------------------------------------------------------------
(* Type correctness *)

LEMMA TypeStep == IInv /\ [Next]_vars => TypeOK'
<1>. SUFFICES ASSUME IInv, [Next]_vars PROVE TypeOK'
  OBVIOUS
<1>. USE DEF IInv
<1>1. ASSUME NEW a \in Attempt, NEW s \in Source,
             NEW valid \in BOOLEAN, NEW trusted \in BOOLEAN,
             Begin(a, s, valid, trusted)
      PROVE  TypeOK'
  <2>1. [IdleTx EXCEPT !.pc = "source", !.source = s, !.valid = valid,
                       !.trusted = trusted, !.print = credential] \in TxState
    BY IdleTxType DEF TypeOK, TxState
  <2>. QED
    BY <1>1, <2>1 DEF Begin, TypeOK
<1>2. ASSUME NEW a \in Attempt, TakeSource(a)
      PROVE  TypeOK'
  <2>. DEFINE row == RowFor(src[tx[a].source], tx[a].print)
              pc  == IF row.until > now THEN "refuse"
                     ELSE IF tx[a].valid THEN "grant" ELSE "aggregate"
  <2>1. row \in SourceRow
    BY RowForType DEF TypeOK, TxState
  <2>2. pc \in {"refuse", "grant", "aggregate"}
    OBVIOUS
  <2>3. tx' = [tx EXCEPT ![a] = [@ EXCEPT !.row = row, !.at = now, !.pc = pc]]
    BY <1>2 DEF TakeSource, ReadSource, Verdict
  <2>. HIDE DEF row, pc
  <2>4. [tx[a] EXCEPT !.row = row, !.at = now, !.pc = pc] \in TxState
    BY <2>1, <2>2 DEF TypeOK, TxState
  <2>. QED
    BY <1>2, <2>3, <2>4 DEF TakeSource, ReadSource, Verdict, TypeOK
<1>3. ASSUME NEW a \in Attempt, TakeAggregate(a)
      PROVE  TypeOK'
  <2>. DEFINE g   == Counted(agg, now)
              row == Punished(tx[a].row, Threshold(g.failures, tx[a].trusted), now)
  <2>1. g \in AggregateRow
    BY CountedType DEF TypeOK
  <2>2. Threshold(g.failures, tx[a].trusted) \in Hot..Normal
    BY <2>1, ThresholdType DEF TypeOK, TxState, AggregateRow
  <2>3. row \in SourceRow
    BY <2>2, PunishedType DEF TypeOK, TxState
  <2>4. tx' = [tx EXCEPT ![a] = [@ EXCEPT !.pc = "fail", !.at = now, !.agg = g,
                                          !.row = row]]
    BY <1>3 DEF TakeAggregate
  <2>. HIDE DEF g, row
  <2>5. [tx[a] EXCEPT !.pc = "fail", !.at = now, !.agg = g, !.row = row] \in TxState
    BY <2>1, <2>3 DEF TypeOK, TxState
  <2>. QED
    BY <1>3, <2>4, <2>5 DEF TakeAggregate, TypeOK
<1>4. ASSUME NEW a \in Attempt, Refuse(a)
      PROVE  TypeOK'
  BY <1>4, EndedTx DEF Refuse, TypeOK
<1>5. ASSUME NEW a \in Attempt, Grant(a)
      PROVE  TypeOK'
  <2>1. Blank(tx[a].print) \in SourceRow
    BY BlankType DEF TypeOK, TxState
  <2>. QED
    BY <1>5, <2>1, EndedTx DEF Grant, TypeOK
<1>6. ASSUME NEW a \in Attempt, Fail(a)
      PROVE  TypeOK'
  <2>1. tx[a].row \in SourceRow /\ tx[a].agg \in AggregateRow
    BY DEF TypeOK, TxState
  <2>. DEFINE s     == tx[a].source
              count == IF src[s].print = tx[a].print THEN own[s] + 1 ELSE 1
  <2>2. own' \in [Source -> Nat]
    <3>1. s \in Source /\ own[s] \in Nat
      BY DEF TypeOK, TxState
    <3>2. count \in Nat
      BY <3>1
    <3>3. own' = [own EXCEPT ![s] = count]
      BY <1>6 DEF Fail
    <3>. QED
      BY <3>2, <3>3 DEF TypeOK
  <2>. QED
    BY <1>6, <2>1, <2>2, EndedTx DEF Fail, TypeOK
<1>7. ASSUME NEW a \in Attempt, Abort(a)
      PROVE  TypeOK'
  BY <1>7, EndedTx DEF Abort, TypeOK
<1>8. ASSUME NEW c \in Credential, Rotate(c)
      PROVE  TypeOK'
  BY <1>8 DEF Rotate, TypeOK
<1>9. CASE Tick
  BY <1>9 DEF Tick, TypeOK
<1>10. CASE UNCHANGED vars
  BY <1>10 DEF vars, TypeOK
<1>. QED
  BY <1>1, <1>2, <1>3, <1>4, <1>5, <1>6, <1>7, <1>8, <1>9, <1>10 DEF Next

-----------------------------------------------------------------------------
(* The locks *)

\* A step in which no transaction but a changes, and a does not move to
\* another source, can break exclusion only by giving a the source's lock.
LEMMA ExclusionKept ==
  ASSUME TypeOK, LocksExclusive, NEW a \in Attempt,
         \A b \in Attempt \ {a} : tx'[b] = tx[b],
         \/ ~HoldsSource(a)'
         \/ /\ tx'[a].source = tx[a].source
            /\ HoldsSource(a) \/ SourceFree(tx[a].source)
  PROVE  LocksExclusive'
<1>. SUFFICES ASSUME NEW b \in Attempt, NEW c \in Attempt, b # c,
                     HoldsSource(b)', HoldsSource(c)'
              PROVE  tx'[b].source # tx'[c].source
  BY DEF LocksExclusive
<1>1. CASE b # a /\ c # a
  BY <1>1 DEF LocksExclusive, HoldsSource
<1>2. CASE b = a
  BY <1>2 DEF LocksExclusive, HoldsSource, SourceFree
<1>3. CASE c = a
  BY <1>3 DEF LocksExclusive, HoldsSource, SourceFree
<1>. QED
  BY <1>1, <1>2, <1>3

LEMMA LocksStep == IInv /\ [Next]_vars => LocksExclusive'
<1>. SUFFICES ASSUME IInv, [Next]_vars PROVE LocksExclusive'
  OBVIOUS
<1>. USE DEF IInv
<1>1. ASSUME NEW a \in Attempt, NEW s \in Source,
             NEW valid \in BOOLEAN, NEW trusted \in BOOLEAN,
             Begin(a, s, valid, trusted)
      PROVE  LocksExclusive'
  <2>1. /\ tx'[a].pc = "source"
        /\ \A b \in Attempt \ {a} : tx'[b] = tx[b]
    BY <1>1, IdleTxType DEF Begin, TypeOK, IdleTx
  <2>2. ~HoldsSource(a)'
    BY <2>1 DEF HoldsSource
  <2>. QED
    BY <2>1, <2>2, ExclusionKept
<1>2. ASSUME NEW a \in Attempt, TakeSource(a)
      PROVE  LocksExclusive'
  <2>1. /\ tx'[a].source = tx[a].source
        /\ \A b \in Attempt \ {a} : tx'[b] = tx[b]
        /\ SourceFree(tx[a].source)
    BY <1>2 DEF TakeSource, ReadSource, Verdict, TypeOK, TxState
  <2>. QED
    BY <2>1, ExclusionKept
<1>3. ASSUME NEW a \in Attempt, TakeAggregate(a)
      PROVE  LocksExclusive'
  <2>1. /\ tx'[a].source = tx[a].source
        /\ \A b \in Attempt \ {a} : tx'[b] = tx[b]
        /\ HoldsSource(a)
    BY <1>3 DEF TakeAggregate, TypeOK, TxState, HoldsSource
  <2>. QED
    BY <2>1, ExclusionKept
<1>4. ASSUME NEW a \in Attempt, tx' = [tx EXCEPT ![a] = IdleTx]
      PROVE  LocksExclusive'
  <2>1. ~HoldsSource(a)'
    BY <1>4, EndedTx DEF HoldsSource
  <2>. QED
    BY <1>4, <2>1, EndedTx, ExclusionKept
<1>5. CASE UNCHANGED tx
  BY <1>5 DEF LocksExclusive, HoldsSource
<1>. QED
  BY <1>1, <1>2, <1>3, <1>4, <1>5
     DEF Next, Refuse, Grant, Fail, Abort, Rotate, Tick, vars

-----------------------------------------------------------------------------
(* What transactions have read and will write *)

\* What a transaction past its source lock relies on.
Sound(a) ==
  LET row == RowFor(src[tx[a].source], tx[a].print) IN
  /\ tx[a].pc \in {"grant", "aggregate"} =>
       tx[a].row = row /\ tx[a].row.until <= now
  /\ tx[a].pc = "fail" =>
       /\ \E threshold \in Hot..Normal, ts \in Nat :
            tx[a].row = Punished(row, threshold, ts)
       /\ row.until <= now

LEMMA SoundIff == ReadsCurrent /\ WritesFollow <=> \A a \in Attempt : Sound(a)
  BY Zenon DEF ReadsCurrent, WritesFollow, Sound

\* A transaction whose state and source row a step leaves alone stays sound.
LEMMA SoundKept ==
  ASSUME TypeOK, TypeOK', NEW a \in Attempt, Sound(a), tx'[a] = tx[a],
         src'[tx[a].source] = src[tx[a].source], now' >= now
  PROVE  Sound(a)'
<1>. DEFINE row == RowFor(src[tx[a].source], tx[a].print)
<1>1. row' = row
  BY DEF RowFor, Blank
<1>2. row.until \in Nat /\ tx[a].row.until \in Nat /\ now \in Nat /\ now' \in Nat
  BY RowForType DEF TypeOK, TxState, SourceRow
<1>. HIDE DEF row
<1>3. /\ tx[a].row.until <= now => tx[a].row.until <= now'
      /\ row.until <= now => row.until <= now'
  BY <1>2
<1>4. /\ tx[a].pc \in {"grant", "aggregate"} =>
            tx[a].row = row /\ tx[a].row.until <= now
      /\ tx[a].pc = "fail" =>
            /\ \E threshold \in Hot..Normal, ts \in Nat :
                 tx[a].row = Punished(row, threshold, ts)
            /\ row.until <= now
  BY DEF Sound, row
<1>. QED
  BY <1>1, <1>3, <1>4 DEF Sound, row

\* Every step keeps every transaction sound.
LEMMA SoundStep ==
  ASSUME IInv, TypeOK', [Next]_vars, NEW b \in Attempt
  PROVE  Sound(b)'
<1>. USE DEF IInv
<1>1. Sound(b) /\ now \in Nat
  BY SoundIff DEF TypeOK
<1>2. ASSUME NEW a \in Attempt, NEW s \in Source,
             NEW valid \in BOOLEAN, NEW trusted \in BOOLEAN,
             Begin(a, s, valid, trusted)
      PROVE  Sound(b)'
  <2>1. /\ src' = src /\ now' = now
        /\ tx'[a].pc = "source"
        /\ b # a => tx'[b] = tx[b]
    BY <1>2, IdleTxType DEF Begin, TypeOK, IdleTx
  <2>2. CASE b = a
    BY <2>1, <2>2 DEF Sound
  <2>3. CASE b # a
    BY <1>1, <2>1, <2>3, SoundKept
  <2>. QED
    BY <2>2, <2>3
<1>3. ASSUME NEW a \in Attempt, TakeSource(a)
      PROVE  Sound(b)'
  <2>. DEFINE row == RowFor(src[tx[a].source], tx[a].print)
              pc  == IF row.until > now THEN "refuse"
                     ELSE IF tx[a].valid THEN "grant" ELSE "aggregate"
  <2>1. src' = src /\ now' = now
    BY <1>3 DEF TakeSource, ReadSource, Verdict
  <2>2. CASE b = a
    <3>1. tx' = [tx EXCEPT ![a] = [@ EXCEPT !.row = row, !.at = now, !.pc = pc]]
      BY <1>3 DEF TakeSource, ReadSource, Verdict
    <3>. HIDE DEF pc
    <3>2. /\ tx'[a].pc = pc /\ tx'[a].row = row
          /\ tx'[a].source = tx[a].source /\ tx'[a].print = tx[a].print
      BY <3>1 DEF TypeOK, TxState
    <3>3. RowFor(src[tx[a].source], tx[a].print)' = row
      BY <2>1, <3>2 DEF RowFor, Blank
    <3>4. row.until \in Nat
      BY RowForType DEF TypeOK, TxState, SourceRow
    <3>5. pc # "fail" /\ (pc \in {"grant", "aggregate"} => row.until <= now)
      BY <1>1, <3>4 DEF pc
    <3>. QED
      BY <2>1, <2>2, <3>2, <3>3, <3>5 DEF Sound
  <2>3. CASE b # a
    <3>1. tx'[b] = tx[b]
      BY <1>3, <2>3 DEF TakeSource, ReadSource, Verdict, TypeOK
    <3>. QED
      BY <1>1, <2>1, <3>1, SoundKept
  <2>. QED
    BY <2>2, <2>3
<1>4. ASSUME NEW a \in Attempt, TakeAggregate(a)
      PROVE  Sound(b)'
  <2>. DEFINE g         == Counted(agg, now)
              threshold == Threshold(g.failures, tx[a].trusted)
              row       == RowFor(src[tx[a].source], tx[a].print)
              new       == Punished(tx[a].row, threshold, now)
  <2>1. src' = src /\ now' = now
    BY <1>4 DEF TakeAggregate
  <2>2. CASE b = a
    <3>1. threshold \in Hot..Normal
      <4>1. g \in AggregateRow
        BY CountedType DEF TypeOK
      <4>2. g.failures \in Nat /\ tx[a].trusted \in BOOLEAN
        BY <4>1 DEF TypeOK, TxState, AggregateRow
      <4>. QED
        BY <4>2, ThresholdType
    <3>2. tx' = [tx EXCEPT ![a] = [@ EXCEPT !.pc = "fail", !.at = now,
                                            !.agg = g, !.row = new]]
      BY <1>4 DEF TakeAggregate
    <3>3. tx[a].row = row /\ row.until <= now
      BY <1>1, <1>4, <2>2 DEF TakeAggregate, Sound
    <3>. HIDE DEF g, threshold
    <3>4. /\ tx'[a].pc = "fail" /\ tx'[a].row = Punished(tx[a].row, threshold, now)
          /\ tx'[a].source = tx[a].source /\ tx'[a].print = tx[a].print
      BY <3>2 DEF TypeOK, TxState
    <3>5. RowFor(src[tx[a].source], tx[a].print)' = row
      BY <2>1, <3>4 DEF RowFor, Blank
    <3>6. \E th \in Hot..Normal, ts \in Nat : tx'[a].row = Punished(row, th, ts)
      BY <1>1, <3>1, <3>3, <3>4
    <3>. HIDE DEF row
    <3>. QED
      BY <2>1, <2>2, <3>3, <3>4, <3>5, <3>6 DEF Sound
  <2>3. CASE b # a
    <3>1. tx'[b] = tx[b]
      BY <1>4, <2>3 DEF TakeAggregate, TypeOK
    <3>. QED
      BY <1>1, <2>1, <3>1, SoundKept
  <2>. QED
    BY <2>2, <2>3
<1>5. ASSUME NEW a \in Attempt, NEW row, HoldsSource(a),
             src' = src \/ src' = [src EXCEPT ![tx[a].source] = row],
             now' = now, tx' = [tx EXCEPT ![a] = IdleTx]
      PROVE  Sound(b)'
  <2>1. CASE b = a \/ ~HoldsSource(b)
    BY <1>5, <2>1, EndedTx DEF Sound, HoldsSource
  <2>2. CASE b # a /\ HoldsSource(b)
    <3>1. tx[b].source # tx[a].source
      BY <1>5, <2>2 DEF LocksExclusive
    <3>2. src'[tx[b].source] = src[tx[b].source]
      BY <1>5, <3>1 DEF TypeOK, TxState
    <3>. QED
      BY <1>1, <1>5, <2>2, <3>2, EndedTx, SoundKept
  <2>. QED
    BY <2>1, <2>2
<1>6. ASSUME NEW a \in Attempt, Abort(a)
      PROVE  Sound(b)'
  <2>1. CASE b = a
    BY <1>6, <2>1, EndedTx DEF Abort, Sound
  <2>2. CASE b # a
    BY <1>1, <1>6, <2>2, EndedTx, SoundKept DEF Abort
  <2>. QED
    BY <2>1, <2>2
<1>7. ASSUME tx' = tx, src' = src, now' >= now
      PROVE  Sound(b)'
  BY <1>1, <1>7, SoundKept
<1>8. ASSUME NEW a \in Attempt, Refuse(a) \/ Grant(a) \/ Fail(a)
      PROVE  Sound(b)'
  BY <1>1, <1>5, <1>8 DEF Refuse, Grant, Fail, HoldsSource
<1>9. ASSUME NEW c \in Credential, Rotate(c)
      PROVE  Sound(b)'
  BY <1>1, <1>7, <1>9 DEF Rotate
<1>10. CASE Tick
  BY <1>1, <1>7, <1>10 DEF Tick
<1>11. CASE UNCHANGED vars
  BY <1>1, <1>7, <1>11 DEF vars
<1>. QED
  BY <1>2, <1>3, <1>4, <1>6, <1>8, <1>9, <1>10, <1>11 DEF Next

-----------------------------------------------------------------------------
(* A source answers for its own failures *)

LEMMA OwnIff == OwnFailuresOnly <=> \A s \in Source : Accounts(src[s], own[s])
  BY DEF OwnFailuresOnly, Accounts

LEMMA BlankAccounts == ASSUME NEW c PROVE Accounts(Blank(c), 0)
  BY DEF Accounts, Blank

LEMMA OwnStep ==
  ASSUME IInv, [Next]_vars
  PROVE  OwnFailuresOnly'
<1>. USE DEF IInv
<1>. SUFFICES ASSUME NEW s \in Source PROVE Accounts(src'[s], own'[s])
  BY DEF OwnFailuresOnly, Accounts
<1>1. Accounts(src[s], own[s])
  BY OwnIff
<1>2. ASSUME NEW a \in Attempt, Grant(a)
      PROVE  Accounts(src'[s], own'[s])
  <2>1. CASE s = tx[a].source
    <3>1. src'[s] = Blank(tx[a].print) /\ own'[s] = 0
      BY <1>2, <2>1 DEF Grant, TypeOK
    <3>. QED
      BY <3>1, BlankAccounts
  <2>2. CASE s # tx[a].source
    BY <1>1, <1>2, <2>2 DEF Grant, TypeOK
  <2>. QED
    BY <2>1, <2>2
<1>3. ASSUME NEW a \in Attempt, Fail(a)
      PROVE  Accounts(src'[s], own'[s])
  <2>1. CASE s = tx[a].source
    <3>. DEFINE row   == RowFor(src[s], tx[a].print)
                count == IF src[s].print = tx[a].print THEN own[s] ELSE 0
    <3>1. row \in SourceRow /\ count \in Nat
      BY RowForType DEF TypeOK, TxState
    <3>2. Accounts(row, count)
      BY <1>1, BlankAccounts DEF RowFor
    <3>3. PICK threshold \in Hot..Normal, ts \in Nat :
            tx[a].row = Punished(row, threshold, ts)
      BY <1>3, <2>1 DEF Fail, WritesFollow
    <3>4. src'[s] = Punished(row, threshold, ts)
      BY <1>3, <2>1, <3>3 DEF Fail, TypeOK
    <3>5. own'[s] = count + 1
      BY <1>3, <2>1 DEF Fail, TypeOK
    <3>. HIDE DEF row, count
    <3>. QED
      BY <3>1, <3>2, <3>4, <3>5, PunishedAccounts
  <2>2. CASE s # tx[a].source
    BY <1>1, <1>3, <2>2 DEF Fail, TypeOK
  <2>. QED
    BY <2>1, <2>2
<1>4. CASE UNCHANGED <<src, own>>
  BY <1>1, <1>4
<1>. QED
  BY <1>2, <1>3, <1>4
     DEF Next, Begin, TakeSource, ReadSource, Verdict, TakeAggregate, Refuse, Abort, Rotate, Tick, vars

-----------------------------------------------------------------------------
(* The theorems *)

LEMMA Inductive == IInv /\ [Next]_vars => IInv'
<1>. SUFFICES ASSUME IInv, [Next]_vars PROVE IInv'
  OBVIOUS
<1>1. TypeOK' /\ LocksExclusive' /\ OwnFailuresOnly'
  BY TypeStep, LocksStep, OwnStep
<1>2. \A b \in Attempt : Sound(b)'
  BY <1>1, SoundStep
<1>3. ReadsCurrent' /\ WritesFollow'
  BY <1>2, Zenon DEF ReadsCurrent, WritesFollow, Sound
<1>. QED
  BY <1>1, <1>3 DEF IInv

\* Whatever the constants, the invariant holds of every behaviour.
THEOREM Invariance == Spec => []IInv
  BY InitIInv, Inductive, PTL DEF Spec

\* Every reachable state of the throttle has its type.
THEOREM TypeCorrect == Spec => []TypeOK
<1>1. IInv => TypeOK
  BY DEF IInv
<1>. QED
  BY <1>1, Invariance, PTL

\* A source is locked by failures of its own, none of them lost, whatever the
\* other sources and the interleaving of the transactions do.
THEOREM SourceAnswersForItself == Spec => []OwnFailuresOnly
<1>1. IInv => OwnFailuresOnly
  BY DEF IInv
<1>. QED
  BY <1>1, Invariance, PTL

\* No step lifts or changes a lock in force, except one that writes the row of
\* another passphrase.
THEOREM LockInForceStands == Spec => LockStands
<1>. DEFINE Kept ==
       \A s \in Source :
         src[s].until > now /\ src'[s] # src[s] => src'[s].print # src[s].print
<1>1. IInv /\ [Next]_vars => [Kept]_vars
  <2>. SUFFICES ASSUME IInv, [Next]_vars, NEW s \in Source,
                       src[s].until > now, src'[s] # src[s]
                PROVE  src'[s].print # src[s].print
    OBVIOUS
  <2>. USE DEF IInv
  <2>1. PICK a \in Attempt : Grant(a) \/ Fail(a)
    BY DEF Next, Begin, TakeSource, ReadSource, Verdict, TakeAggregate, Refuse, Abort, Rotate, Tick, vars
  <2>2. s = tx[a].source
    BY <2>1 DEF Grant, Fail, TypeOK
  <2>. DEFINE row == RowFor(src[s], tx[a].print)
  <2>3. row.until <= now
    BY <2>1, <2>2 DEF Grant, Fail, ReadsCurrent, WritesFollow
  <2>4. src[s].until \in Nat /\ now \in Nat
    BY DEF TypeOK, SourceRow
  <2>5. src[s].print # tx[a].print
    BY <2>3, <2>4 DEF RowFor
  <2>6. row \in SourceRow /\ row.print = tx[a].print
    BY RowForType DEF TypeOK, TxState
  <2>7. src'[s].print = tx[a].print
    <3>1. CASE Grant(a)
      BY <2>2, <3>1 DEF Grant, TypeOK, Blank
    <3>2. CASE Fail(a)
      <4>1. PICK threshold \in Hot..Normal, ts \in Nat :
              tx[a].row = Punished(row, threshold, ts)
        BY <2>2, <3>2 DEF Fail, WritesFollow
      <4>2. src'[s] = tx[a].row
        BY <2>2, <3>2 DEF Fail, TypeOK
      <4>. HIDE DEF row
      <4>. QED
        BY <2>6, <4>1, <4>2, PunishedType
    <3>. QED
      BY <2>1, <3>1, <3>2
  <2>. QED
    BY <2>5, <2>7
<1>. QED
  BY <1>1, Invariance, PTL DEF Spec, LockStands

-----------------------------------------------------------------------------
(* The aggregate counter *)

AggregateExclusive ==
  \A a, b \in Attempt : HoldsAggregate(a) /\ HoldsAggregate(b) => a = b

\* The failures that committed are numbered, none is later than now, and none
\* fell out of the window that was open when it was counted.
FailuresInWindow ==
  \A f \in failed :
    /\ f.n \in 1..Cardinality(failed) /\ f.at \in 0..now
    /\ agg.failures > 0 /\ f.at < agg.start + Window

\* Who holds the aggregate lock will write the aggregate row as it is now with
\* one failure more, later than every failure counted.
AggregateCurrent ==
  \A a \in Attempt : HoldsAggregate(a) =>
    /\ tx[a].agg = Counted(agg, tx[a].at)
    /\ tx[a].at <= now
    /\ \A f \in failed : f.at <= tx[a].at
    /\ agg.failures > 0 => agg.start <= tx[a].at

AggregateInv ==
  /\ IsFiniteSet(failed)
  /\ AggregateExact
  /\ agg.failures > 0 => agg.start <= now
  /\ FailuresInWindow
  /\ AggregateCurrent
  /\ AggregateExclusive

InWindow(S, start) == {f \in S : f.at >= start}

LEMMA LeastMore ==
  ASSUME NEW k \in Nat
  PROVE  Least(MaxTotal, Least(MaxTotal, k) + 1) = Least(MaxTotal, k + 1)
  BY DEF Least

\* One more failure, later than the others, is counted exactly.
LEMMA CountedExact ==
  ASSUME NEW g \in AggregateRow, NEW S, IsFiniteSet(S), NEW f, f \notin S,
         NEW ts \in Nat, f.at = ts,
         g.failures = Least(MaxTotal, Cardinality(InWindow(S, g.start))),
         g.failures > 0 => g.start <= ts,
         \A e \in S : e.at \in Nat /\ g.failures > 0 /\ e.at < g.start + Window,
         NEW after, after = Counted(g, ts)
  PROVE  /\ after.failures =
              Least(MaxTotal, Cardinality(InWindow(S \union {f}, after.start)))
         /\ after.failures > 0 /\ after.start <= ts /\ ts < after.start + Window
         /\ \A e \in S : e.at < after.start + Window
<1>1. g.start \in Nat /\ g.failures \in Nat
  BY DEF AggregateRow
<1>2. CASE g.failures = 0 \/ ts - g.start >= Window
  <2>1. after.start = ts /\ after.failures = 1
    BY <1>2 DEF Counted
  <2>2. \A e \in S : ~(e.at >= ts)
    BY <1>1, <1>2
  <2>3. InWindow(S \union {f}, ts) = {f}
    BY <2>2 DEF InWindow
  <2>4. Cardinality({f}) = 1
    BY FS_Singleton
  <2>5. \A e \in S : e.at < ts + Window
    BY <2>2
  <2>6. Least(MaxTotal, 1) = 1
    BY DEF Least
  <2>7. Cardinality(InWindow(S \union {f}, after.start)) = 1
    BY <2>1, <2>3, <2>4
  <2>8. after.failures > 0 /\ after.start <= ts /\ ts < after.start + Window
    BY <2>1
  <2>. QED
    BY <2>1, <2>5, <2>6, <2>7, <2>8
<1>3. CASE ~(g.failures = 0 \/ ts - g.start >= Window)
  <2>2. /\ after.start = g.start
        /\ after.failures = Least(MaxTotal, g.failures + 1)
    BY <1>3 DEF Counted, AggregateRow
  <2>3. PICK T : T = InWindow(S, g.start)
    OBVIOUS
  <2>4. IsFiniteSet(T) /\ Cardinality(T) \in Nat
    BY <2>3, FS_Subset, FS_CardinalityType DEF InWindow
  <2>5. InWindow(S \union {f}, g.start) = T \union {f}
    BY <1>1, <1>3, <2>3 DEF InWindow
  <2>6. f \notin T
    BY <2>3 DEF InWindow
  <2>7. Cardinality(T \union {f}) = Cardinality(T) + 1
    BY <2>4, <2>6, FS_AddElement
  <2>8. after.failures = Least(MaxTotal, Cardinality(T) + 1)
    BY <2>2, <2>3, <2>4, LeastMore
  <2>9. after.failures > 0
    BY <1>1, <2>2 DEF Least
  <2>10. after.start <= ts /\ ts < after.start + Window
    BY <1>1, <1>3, <2>2
  <2>11. \A e \in S : e.at < after.start + Window
    BY <2>2
  <2>. QED
    BY <2>2, <2>5, <2>7, <2>8, <2>9, <2>10, <2>11
<1>. QED
  BY <1>2, <1>3

LEMMA NextAggregateInv == IInv /\ IInv' /\ AggregateInv /\ [Next]_vars => AggregateInv'
<1>. SUFFICES ASSUME IInv, IInv', AggregateInv, [Next]_vars PROVE AggregateInv'
  OBVIOUS
<1>1. /\ tx \in [Attempt -> TxState] /\ now \in Nat /\ now' \in Nat
      /\ agg \in AggregateRow /\ agg.start \in Nat /\ agg.failures \in Nat
      /\ \A a \in Attempt : tx[a].at \in Nat
  BY DEF IInv, TypeOK, TxState, AggregateRow
<1>2. \A f \in failed : f.at \in Nat /\ f.at <= now
  BY <1>1 DEF AggregateInv, FailuresInWindow
\* A step that writes no row and gives nobody the aggregate lock.
<1>3. ASSUME UNCHANGED <<agg, failed>>, now' >= now,
             \A a \in Attempt : HoldsAggregate(a)' => tx'[a] = tx[a]
      PROVE  AggregateInv'
  <2>1. \A a \in Attempt : HoldsAggregate(a)' => HoldsAggregate(a)
    BY <1>3 DEF HoldsAggregate
  <2>2. AggregateExclusive'
    BY <2>1 DEF AggregateInv, AggregateExclusive
  <2>3. AggregateCurrent'
    <3>. SUFFICES ASSUME NEW a \in Attempt, HoldsAggregate(a)'
                  PROVE  /\ tx'[a].agg = Counted(agg', tx'[a].at)
                         /\ tx'[a].at <= now'
                         /\ \A f \in failed' : f.at <= tx'[a].at
                         /\ agg'.failures > 0 => agg'.start <= tx'[a].at
      BY DEF AggregateCurrent
    <3>1. tx'[a] = tx[a] /\ HoldsAggregate(a)
      BY <1>3, <2>1
    <3>2. /\ tx[a].agg = Counted(agg, tx[a].at)
          /\ tx[a].at <= now
          /\ \A f \in failed : f.at <= tx[a].at
          /\ agg.failures > 0 => agg.start <= tx[a].at
      BY <3>1 DEF AggregateInv, AggregateCurrent
    <3>. QED
      BY <1>1, <1>3, <3>1, <3>2
  <2>4. FailuresInWindow'
    BY <1>1, <1>3 DEF AggregateInv, FailuresInWindow
  <2>5. AggregateExact' /\ IsFiniteSet(failed')
    BY <1>3 DEF AggregateInv, AggregateExact
  <2>6. agg'.failures > 0 => agg'.start <= now'
    BY <1>1, <1>3 DEF AggregateInv
  <2>. QED
    BY <2>2, <2>3, <2>4, <2>5, <2>6 DEF AggregateInv
<1>4. ASSUME NEW a \in Attempt, tx' = [tx EXCEPT ![a] = IdleTx],
             UNCHANGED <<agg, failed, now>>
      PROVE  AggregateInv'
  <2>1. /\ ~HoldsAggregate(a)'
        /\ \A b \in Attempt \ {a} : tx'[b] = tx[b]
    BY <1>4, EndedTx DEF IInv, HoldsAggregate
  <2>. QED
    BY <1>1, <1>3, <1>4, <2>1
<1>5. ASSUME NEW a \in Attempt, NEW s \in Source,
             NEW valid \in BOOLEAN, NEW trusted \in BOOLEAN,
             Begin(a, s, valid, trusted)
      PROVE  AggregateInv'
  <2>1. /\ tx'[a].pc = "source"
        /\ \A b \in Attempt \ {a} : tx'[b] = tx[b]
        /\ UNCHANGED <<agg, failed, now>>
    BY <1>5, IdleTxType DEF Begin, IInv, TypeOK, IdleTx
  <2>. QED
    BY <1>1, <1>3, <2>1 DEF HoldsAggregate
<1>6. ASSUME NEW a \in Attempt, TakeSource(a) PROVE AggregateInv'
  <2>1. /\ tx'[a].pc # "fail"
        /\ \A b \in Attempt \ {a} : tx'[b] = tx[b]
        /\ UNCHANGED <<agg, failed, now>>
    BY <1>1, <1>6 DEF TakeSource, ReadSource, Verdict, TxState
  <2>. QED
    BY <1>1, <1>3, <2>1 DEF HoldsAggregate
<1>7. ASSUME NEW a \in Attempt, TakeAggregate(a) PROVE AggregateInv'
  <2>1. PICK r : r = tx'[a]
    OBVIOUS
  <2>2. PICK g, row : /\ g = Counted(agg, now)
                      /\ row = Punished(tx[a].row, Threshold(g.failures, tx[a].trusted), now)
    OBVIOUS
  <2>3. tx' = [tx EXCEPT ![a] = [tx[a] EXCEPT !.pc = "fail", !.at = now, !.agg = g,
                                              !.row = row]]
    BY <1>1, <1>7, <2>2 DEF TakeAggregate
  <2>4. /\ r.at = now /\ r.agg = Counted(agg, now)
        /\ \A b \in Attempt \ {a} : tx'[b] = tx[b]
    BY <1>1, <2>1, <2>2, <2>3 DEF TxState
  <2>5. UNCHANGED <<agg, failed, now>> /\ AggregateFree
    BY <1>7 DEF TakeAggregate
  <2>6. \A b \in Attempt : HoldsAggregate(b)' => b = a
    BY <2>4, <2>5 DEF AggregateFree, HoldsAggregate
  <2>7. AggregateExclusive'
    BY <2>6 DEF AggregateExclusive
  <2>8. AggregateCurrent'
    <3>. SUFFICES ASSUME NEW b \in Attempt, HoldsAggregate(b)'
                  PROVE  /\ tx'[b].agg = Counted(agg', tx'[b].at)
                         /\ tx'[b].at <= now'
                         /\ \A f \in failed' : f.at <= tx'[b].at
                         /\ agg'.failures > 0 => agg'.start <= tx'[b].at
      BY DEF AggregateCurrent
    <3>1. tx'[b] = r
      BY <2>1, <2>6
    <3>. QED
      BY <1>1, <1>2, <2>4, <2>5, <3>1 DEF AggregateInv
  <2>. QED
    BY <2>5, <2>7, <2>8 DEF AggregateInv, AggregateExact, FailuresInWindow
<1>8. ASSUME NEW a \in Attempt, Fail(a) PROVE AggregateInv'
  <2>1. PICK f : f = [n |-> Cardinality(failed) + 1, at |-> tx[a].at]
    OBVIOUS
  <2>2. PICK ts : ts = tx[a].at
    OBVIOUS
  <2>3. f.n = Cardinality(failed) + 1 /\ f.at = ts /\ ts \in Nat
    BY <1>1, <2>1, <2>2
  <2>4. /\ failed' = failed \union {f} /\ agg' = tx[a].agg /\ now' = now
        /\ HoldsAggregate(a) /\ tx' = [tx EXCEPT ![a] = IdleTx]
    BY <1>8, <2>1 DEF Fail, HoldsAggregate
  <2>5. /\ agg' = Counted(agg, ts) /\ ts <= now
        /\ \A e \in failed : e.at <= ts
        /\ agg.failures > 0 => agg.start <= ts
    BY <2>2, <2>4 DEF AggregateInv, AggregateCurrent
  <2>6. IsFiniteSet(failed) /\ Cardinality(failed) \in Nat
    BY FS_CardinalityType DEF AggregateInv
  <2>7. f \notin failed
    BY <2>3, <2>6 DEF AggregateInv, FailuresInWindow
  <2>8. IsFiniteSet(failed') /\ Cardinality(failed') = Cardinality(failed) + 1
    BY <2>4, <2>6, <2>7, FS_AddElement
  <2>9. agg.failures = Least(MaxTotal, Cardinality(InWindow(failed, agg.start)))
    BY DEF AggregateInv, AggregateExact, InWindow
  <2>10. \A e \in failed : e.at \in Nat /\ agg.failures > 0 /\ e.at < agg.start + Window
    BY <1>2 DEF AggregateInv, FailuresInWindow
  <2>11. PICK after, S : after = Counted(agg, ts) /\ S = failed
    OBVIOUS
  <2>12. /\ after.failures =
              Least(MaxTotal, Cardinality(InWindow(S \union {f}, after.start)))
         /\ after.failures > 0 /\ after.start <= ts /\ ts < after.start + Window
         /\ \A e \in S : e.at < after.start + Window
    BY <1>1, <2>3, <2>5, <2>6, <2>7, <2>9, <2>10, <2>11, CountedExact
  <2>13. agg' = after /\ failed' = S \union {f}
    BY <2>4, <2>5, <2>11
  <2>14. after \in AggregateRow /\ after.start \in Nat
    BY <1>1, <2>3, <2>11, CountedType DEF AggregateRow
  <2>15. AggregateExact'
    BY <2>12, <2>13 DEF AggregateExact, InWindow
  <2>16. agg'.failures > 0 => agg'.start <= now'
    BY <1>1, <2>3, <2>4, <2>5, <2>12, <2>13, <2>14
  <2>17. FailuresInWindow'
    <3>. SUFFICES ASSUME NEW e \in failed'
                  PROVE  /\ e.n \in 1..Cardinality(failed') /\ e.at \in 0..now'
                         /\ agg'.failures > 0 /\ e.at < agg'.start + Window
      BY DEF FailuresInWindow
    <3>1. CASE e \in failed
      <4>1. e.n \in 1..Cardinality(failed) /\ e.at \in 0..now
        BY <3>1 DEF AggregateInv, FailuresInWindow
      <4>. QED
        BY <2>4, <2>6, <2>8, <2>11, <2>12, <2>13, <3>1, <4>1
    <3>2. CASE e = f
      BY <1>1, <2>3, <2>4, <2>5, <2>6, <2>8, <2>12, <2>13, <3>2
    <3>. QED
      BY <2>4, <3>1, <3>2
  <2>18. \A b \in Attempt : ~HoldsAggregate(b)'
    <3>1. /\ tx'[a].pc = "idle" /\ \A b \in Attempt \ {a} : tx'[b] = tx[b]
      BY <2>4, EndedTx DEF IInv
    <3>2. \A b \in Attempt \ {a} : ~HoldsAggregate(b)
      BY <2>4 DEF AggregateInv, AggregateExclusive
    <3>. QED
      BY <3>1, <3>2 DEF HoldsAggregate
  <2>19. AggregateCurrent' /\ AggregateExclusive'
    BY <2>18 DEF AggregateCurrent, AggregateExclusive
  <2>. QED
    BY <2>8, <2>15, <2>16, <2>17, <2>19 DEF AggregateInv
<1>9. CASE Tick
  BY <1>1, <1>3, <1>9 DEF Tick
<1>10. ASSUME UNCHANGED <<agg, failed, now, tx>> PROVE AggregateInv'
  BY <1>1, <1>3, <1>10
<1>. QED
  BY <1>4, <1>5, <1>6, <1>7, <1>8, <1>9, <1>10
  DEF Next, Refuse, Grant, Abort, Rotate, vars

\* However failing logins interleave, stall and end, the aggregate row counts
\* exactly the failures that committed since its window began, as far as it
\* counts, for any sources, attempts and durations.
THEOREM AggregateCounts == Spec => []AggregateExact
<1>1. Init => AggregateInv
  <2>. SUFFICES ASSUME Init PROVE AggregateInv
    OBVIOUS
  <2>1. \A a \in Attempt : ~HoldsAggregate(a)
    BY DEF Init, IdleTx, HoldsAggregate
  <2>2. IsFiniteSet(failed) /\ Cardinality(failed) = 0
    BY FS_EmptySet DEF Init
  <2>3. {f \in failed : f.at >= agg.start} = {}
    BY DEF Init
  <2>4. AggregateExact
    BY <2>3, FS_EmptySet DEF Init, AggregateExact, NoFailures, Least
  <2>. QED
    BY <2>1, <2>2, <2>4
    DEF Init, NoFailures, AggregateInv, FailuresInWindow, AggregateCurrent,
        AggregateExclusive
<1>2. AggregateInv => AggregateExact
  BY DEF AggregateInv
<1>. QED
  BY <1>1, <1>2, NextAggregateInv, Invariance, PTL DEF Spec
=============================================================================
