------------------------- MODULE PassphraseThrottle -------------------------
(***************************************************************************)
(* zpc_passphrase_attempt, the Postgres function that decides every        *)
(* passphrase login (migration 20261105150000), called by the edge worker  *)
(* through atomicPassphraseAttempt.  Each attempt is one transaction: it   *)
(* takes the advisory lock of its source, and, when the passphrase was     *)
(* wrong, the one aggregate lock.  Both locks go with the transaction, so  *)
(* who holds them is read off the attempts' states; what a transaction     *)
(* writes is seen by others when it commits.                               *)
(*                                                                         *)
(* Time is a counter; the durations are constants in its unit.  A time 0   *)
(* in `until' stands for null.                                             *)
(***************************************************************************)
EXTENDS Integers, FiniteSets, Sequences

CONSTANTS Source,      \* client sources (an IPv4 address or an IPv6 /64)
          Attempt,     \* transactions that may be open at once
          Credential,  \* fingerprints of successive passphrases
          Window,      \* length of the aggregate window (15 min)
          HotCount,    \* failures that make the window hot (25)
          MaxTotal,    \* where the aggregate counter saturates (2^31 - 1)
          Normal, Hot, \* failures that lock a source (5), under pressure (3)
          Base, Cap,   \* first lock (15 min) and longest lock (120 min)
          MaxLocks,    \* where the lock counter saturates (1000)
          MaxTime, MaxBegun  \* bounds: the clock, the attempts of a behaviour

ASSUME ThrottleAssumption ==
  /\ Source # {} /\ Credential # {}
  /\ Window \in Nat \ {0} /\ HotCount \in Nat \ {0} /\ MaxTotal \in Nat \ {0}
  /\ Normal \in Nat /\ Hot \in 1..Normal
  /\ Base \in Nat \ {0} /\ Cap \in Nat \ {0} /\ MaxLocks \in Nat \ {0}
  /\ MaxTime \in Nat /\ MaxBegun \in Nat

VARIABLES
  src,         \* committed row of each source
  agg,         \* committed aggregate row; failures 0 if there is none
  credential,  \* fingerprint of the passphrase in force
  now,
  tx,          \* tx[a]: where attempt a stands, its arguments and locals
  begun,       \* number of attempts begun
  own,         \* history: failures of a source since its last fresh start
  failed       \* history: the failed attempts that committed

vars == <<src, agg, credential, now, tx, begun, own, failed>>

Least(a, b) == IF a <= b THEN a ELSE b
SourceRow == [failures : 0..(Normal - 1), locks : 0..MaxLocks, until : Nat,
              print : Credential]
AggregateRow == [start : Nat, failures : 0..MaxTotal]
TxState == [pc : {"idle", "source", "refuse", "grant", "aggregate", "fail"},
            source : Source, valid : BOOLEAN, trusted : BOOLEAN,
            print : Credential, row : SourceRow, agg : AggregateRow, at : Nat]

Blank(c) == [failures |-> 0, locks |-> 0, until |-> 0, print |-> c]
NoFailures == [start |-> 0, failures |-> 0]
AnyPrint == CHOOSE c \in Credential : TRUE
IdleTx == [pc |-> "idle", source |-> CHOOSE s \in Source : TRUE,
           valid |-> FALSE, trusted |-> FALSE, print |-> AnyPrint,
           row |-> Blank(AnyPrint), agg |-> NoFailures, at |-> 0]

-----------------------------------------------------------------------------
(* Helpers *)

\* Locks held: the source lock from "source" on, the aggregate lock on "fail".
HoldsSource(a)    == tx[a].pc \in {"refuse", "grant", "aggregate", "fail"}
HoldsAggregate(a) == tx[a].pc = "fail"
AggregateFree     == \A a \in Attempt : ~HoldsAggregate(a)
\* Mutants: no lock of the source; the aggregate lock taken with the source's.
SourceFreeAlways(s)   == TRUE
SourceFreeTogether(s) == \A a \in Attempt :
                           ~HoldsAggregate(a) /\ (HoldsSource(a) => tx[a].source # s)
SourceFree(s) == \A a \in Attempt : HoldsSource(a) => tx[a].source # s

\* Mutant: the right passphrase gets in through a lock in force.
VerdictGrantFirst(row, valid) ==
  IF valid THEN "grant" ELSE IF row.until > now THEN "refuse" ELSE "aggregate"

\* What the source row says of an attempt: 429, 200, or on to the aggregate.
Verdict(row, valid) ==
  IF row.until > now THEN "refuse" ELSE IF valid THEN "grant" ELSE "aggregate"

\* A row of another passphrase counts for nothing.
RowFor(row, c) == IF row.print = c THEN row ELSE Blank(c)

\* The aggregate row after one more failure at time ts.  A window whose start
\* lies in the future is still the same window.
Counted(g, ts) ==
  IF g.failures = 0 \/ ts - g.start >= Window
  THEN [start |-> ts, failures |-> 1]
  ELSE [g EXCEPT !.failures = Least(MaxTotal, g.failures + 1)]

\* Length of the locks-th lock of a source: 15, 30, 60, 120, 120, ... min.
LockTime(locks) == Least(Cap, Base * <<1, 2, 4, 8>>[Least(4, locks)])

Threshold(total, trusted) == IF total >= HotCount /\ ~trusted THEN Hot ELSE Normal

\* Mutant: the counter of failures is kept when the source is locked.
PunishedKeepsCount(row, threshold, ts) ==
  IF row.failures + 1 >= threshold
  THEN LET locks == Least(MaxLocks, row.locks + 1)
       IN  [failures |-> row.failures + 1, locks |-> locks,
            until |-> ts + LockTime(locks), print |-> row.print]
  ELSE [row EXCEPT !.failures = row.failures + 1, !.until = 0]

\* The source row after one more failure at time ts.
Punished(row, threshold, ts) ==
  IF row.failures + 1 >= threshold
  THEN LET locks == Least(MaxLocks, row.locks + 1)
       IN  [failures |-> 0, locks |-> locks,
            until |-> ts + LockTime(locks), print |-> row.print]
  ELSE [row EXCEPT !.failures = row.failures + 1, !.until = 0]

Init ==
  /\ src = [s \in Source |-> Blank(AnyPrint)]
  /\ agg = NoFailures
  /\ credential = AnyPrint
  /\ now = 0
  /\ tx = [a \in Attempt |-> IdleTx]
  /\ begun = 0
  /\ own = [s \in Source |-> 0]
  /\ failed = {}

-----------------------------------------------------------------------------
(* Actions *)

\* The worker has verified the passphrase against the one in force and calls
\* the function; the call is still to take its locks.
Begin(a, s, valid, trusted) ==
  /\ tx[a].pc = "idle"
  /\ begun < MaxBegun
  /\ begun' = begun + 1
  /\ tx' = [tx EXCEPT ![a] = [IdleTx EXCEPT !.pc = "source", !.source = s,
                              !.valid = valid, !.trusted = trusted,
                              !.print = credential]]
  /\ UNCHANGED <<src, agg, credential, now, own, failed>>

\* Under the source's lock: read the clock and the row, and decide.
ReadSource(a) ==
  /\ LET row == RowFor(src[tx[a].source], tx[a].print) IN
     tx' = [tx EXCEPT ![a] = [@ EXCEPT !.row = row, !.at = now,
                              !.pc = Verdict(row, tx[a].valid)]]
  /\ UNCHANGED <<src, agg, credential, now, begun, own, failed>>

TakeSource(a) ==
  /\ tx[a].pc = "source"
  /\ SourceFree(tx[a].source)
  /\ ReadSource(a)

\* Mutant: the clock was read before the aggregate lock (migration
\* 20261104180000).
TakeAggregateEarlyClock(a) ==
  /\ tx[a].pc = "aggregate"
  /\ AggregateFree
  /\ LET total == Counted(agg, tx[a].at).failures IN
     tx' = [tx EXCEPT ![a] = [@ EXCEPT
              !.pc = "fail",
              !.agg = Counted(agg, tx[a].at),
              !.row = Punished(tx[a].row, Threshold(total, tx[a].trusted),
                               tx[a].at)]]
  /\ UNCHANGED <<src, agg, credential, now, begun, own, failed>>

\* With the aggregate lock too: read the clock again, count the failure.
TakeAggregate(a) ==
  /\ tx[a].pc = "aggregate"
  /\ AggregateFree
  /\ LET total == Counted(agg, now).failures IN
     tx' = [tx EXCEPT ![a] = [@ EXCEPT
              !.pc = "fail",
              !.at = now,
              !.agg = Counted(agg, now),
              !.row = Punished(tx[a].row, Threshold(total, tx[a].trusted), now)]]
  /\ UNCHANGED <<src, agg, credential, now, begun, own, failed>>

\* 429: nothing is written.
Refuse(a) ==
  /\ tx[a].pc = "refuse"
  /\ tx' = [tx EXCEPT ![a] = IdleTx]
  /\ UNCHANGED <<src, agg, credential, now, begun, own, failed>>

\* 200: the source starts afresh.
Grant(a) ==
  /\ tx[a].pc = "grant"
  /\ src' = [src EXCEPT ![tx[a].source] = Blank(tx[a].print)]
  /\ own' = [own EXCEPT ![tx[a].source] = 0]
  /\ tx' = [tx EXCEPT ![a] = IdleTx]
  /\ UNCHANGED <<agg, credential, now, begun, failed>>

\* 401: both rows are written.
Fail(a) ==
  LET s == tx[a].source IN
  /\ tx[a].pc = "fail"
  /\ src' = [src EXCEPT ![s] = tx[a].row]
  /\ agg' = tx[a].agg
  /\ own' = [own EXCEPT ![s] = IF src[s].print = tx[a].print THEN @ + 1 ELSE 1]
  /\ failed' = failed \union {[n |-> Cardinality(failed) + 1, at |-> tx[a].at]}
  /\ tx' = [tx EXCEPT ![a] = IdleTx]
  /\ UNCHANGED <<credential, now, begun>>

\* lock_timeout, statement_timeout or a lost connection: nothing is written.
Abort(a) ==
  /\ tx[a].pc # "idle"
  /\ tx' = [tx EXCEPT ![a] = IdleTx]
  /\ UNCHANGED <<src, agg, credential, now, begun, own, failed>>

\* The owner installs another passphrase.
Rotate(c) ==
  /\ c # credential
  /\ credential' = c
  /\ UNCHANGED <<src, agg, now, tx, begun, own, failed>>

Tick ==
  /\ now < MaxTime
  /\ now' = now + 1
  /\ UNCHANGED <<src, agg, credential, tx, begun, own, failed>>

Next ==
  \/ \E a \in Attempt :
       \/ \E s \in Source, valid, trusted \in BOOLEAN :
            Begin(a, s, valid, trusted)
       \/ TakeSource(a) \/ TakeAggregate(a)
       \/ Refuse(a) \/ Grant(a) \/ Fail(a) \/ Abort(a)
  \/ \E c \in Credential : Rotate(c)
  \/ Tick

Spec == Init /\ [][Next]_vars

\* Only the transactions of correct passphrases are assumed to be scheduled:
\* every other transaction may stall with the locks it holds.
FairSpec ==
  /\ Spec
  /\ \A a \in Attempt : /\ WF_vars(tx[a].valid /\ TakeSource(a))
                        /\ WF_vars(tx[a].valid /\ Refuse(a))
                        /\ WF_vars(Grant(a))

-----------------------------------------------------------------------------
(* Properties *)

\* Every variable and every local of an open transaction has its type.
TypeOK ==
  /\ src \in [Source -> SourceRow]
  /\ agg \in AggregateRow
  /\ credential \in Credential
  /\ now \in Nat
  /\ tx \in [Attempt -> TxState]
  /\ begun \in Nat
  /\ own \in [Source -> Nat]

\* "Serialize increments to avoid a lossy read/modify/write even during a
\* distributed spray": however the transactions interleave, the aggregate row
\* counts exactly the committed failures decided since its window began.
AggregateExact ==
  agg.failures =
    Least(MaxTotal, Cardinality({f \in failed : f.at >= agg.start}))

\* "A different source cannot lock this one" and no failure of this one is
\* lost: what a source's row says - locks served and failures since - is
\* accounted for by failures of that same source since its last success or
\* passphrase change, between Hot and Normal of them for each lock.
OwnFailuresOnly ==
  \A s \in Source :
    /\ Hot * src[s].locks + src[s].failures <= own[s]
    /\ src[s].locks < MaxLocks =>
         own[s] <= Normal * src[s].locks + src[s].failures

\* A lock in force is not lifted, shortened or extended before it expires, by
\* the right passphrase included; only an attempt that was verified against
\* another passphrase replaces the row (line 40 of the migration).
LockStands ==
  [][\A s \in Source :
       src[s].until > now /\ src'[s] # src[s] => src'[s].print # src[s].print]_vars

\* "Correct logins NEVER wait for the global aggregate lock": an attempt with
\* the right passphrase is answered though other transactions stall with the
\* locks they hold, unless its own source has another attempt open.
CorrectLoginAnswered ==
  \A a \in Attempt :
    (tx[a].pc # "idle" /\ tx[a].valid)
      ~> \/ tx[a].pc = "idle"
         \/ \E b \in Attempt \ {a} : tx[b].pc # "idle"
                                     /\ tx[b].source = tx[a].source

-----------------------------------------------------------------------------
(* The inductive invariant behind LockStands and OwnFailuresOnly *)

\* A source has one transaction past its lock, and one transaction of all has
\* the aggregate lock.
LocksExclusive ==
  \A a, b \in Attempt : a # b /\ HoldsSource(a) /\ HoldsSource(b)
                          => tx[a].source # tx[b].source

\* What an undecided transaction read is still what is committed.
ReadsCurrent ==
  \A a \in Attempt : tx[a].pc \in {"grant", "aggregate"} =>
    /\ tx[a].row = RowFor(src[tx[a].source], tx[a].print)
    /\ tx[a].row.until <= now

\* What a failing transaction will write follows from what is committed.
WritesFollow ==
  \A a \in Attempt : tx[a].pc = "fail" =>
    \E threshold \in Hot..Normal, ts \in Nat :
      LET row == RowFor(src[tx[a].source], tx[a].print) IN
      /\ tx[a].row = Punished(row, threshold, ts)
      /\ row.until <= now

IInv ==
  /\ TypeOK
  /\ LocksExclusive
  /\ ReadsCurrent
  /\ WritesFollow
  /\ OwnFailuresOnly
=============================================================================
