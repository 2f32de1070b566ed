------------------------------- MODULE PinLogin -------------------------------
(***************************************************************************)
(* The legacy four-digit login of the edge handler (pinLogin of            *)
(* cf-worker/backend-index.ts): one security record, read, judged and      *)
(* written back in separate calls by attempts that may overlap.            *)
(*                                                                         *)
(* The store lists the row written last, and an attempt that finds no row  *)
(* adds one: whichever rows concurrent first attempts leave behind, the    *)
(* record below is the one every later attempt reads.  The store's calls   *)
(* that fail answer 503 and change nothing more.                           *)
(***************************************************************************)
EXTENDS Naturals

CONSTANTS Attempt,    \* attempts that may be under way together
          MaxPin,     \* MAX_PIN_ATTEMPTS (5)
          LongestLock,\* the longest lock, in units of LOCK_MINUTES (8: 120 minutes)
          MaxGuesses, \* bound on the attempts begun
          MaxPins     \* bound on the PINs configured one after another

ASSUME PinAssumption == /\ MaxPin \in Nat \ {0} /\ MaxPins \in Nat \ {0}
                        /\ LongestLock \in Nat \ {0}

VARIABLES
  security,  \* the record of acs_pin_security, or Unset
  pin,       \* which PIN is configured (its fingerprint)
  attempt,   \* where each attempt stands and what it has read
  guesses,   \* attempts begun
  wrong,     \* wrong guesses judged so far, per PIN
  since,     \* ... since the record was last reset
  overlapped \* whether two attempts were ever under way together

pinVars == <<security, pin, attempt, guesses, wrong, since, overlapped>>

Unset == [failed |-> 0, locks |-> 0, lock |-> 0, pin |-> 0]
Reset(p) == [failed |-> 0, locks |-> 0, lock |-> 0, pin |-> p]

IdleAttempt == [at |-> "idle", valid |-> FALSE, pin |-> 0, read |-> Unset]
Busy(a) == attempt[a].at # "idle"
\* An attempt goes on with the record it was given.
Holding(x, record, place) == [at |-> place, valid |-> x.valid, pin |-> x.pin, read |-> record]
Done(a) == attempt' = [attempt EXCEPT ![a] = IdleAttempt]

\* 15, 30, 60, 120 minutes, in units of 15.
LockFor(locks) == LET doubled == 2 ^ (locks - 1)
                  IN  IF locks = 0 THEN 1
                      ELSE IF doubled < LongestLock THEN doubled ELSE LongestLock

\* verifyAdminPin: the guess is judged against the PIN configured now.
VerifyPin(a, valid) ==
  /\ ~Busy(a)
  /\ guesses < MaxGuesses
  /\ guesses' = guesses + 1
  /\ attempt' = [attempt EXCEPT ![a] = [at |-> "list", valid |-> valid, pin |-> pin, read |-> Unset]]
  /\ overlapped' = (overlapped \/ \E b \in Attempt \ {a} : Busy(b))
  /\ UNCHANGED <<security, pin, wrong, since>>

\* securityState: the record of this PIN is used as it is read; any other, or none,
\* is replaced by an empty one.
ReadSecurity(a) ==
  /\ attempt[a].at = "list"
  /\ attempt' = [attempt EXCEPT ![a] =
       Holding(@, security, IF security.pin = attempt[a].pin THEN "judge" ELSE "reset")]
  /\ UNCHANGED <<security, pin, guesses, wrong, since, overlapped>>

ResetSecurity(a) ==
  /\ attempt[a].at = "reset"
  /\ security' = Reset(attempt[a].pin)
  /\ attempt' = [attempt EXCEPT ![a] = Holding(@, Reset(attempt[a].pin), "judge")]
  /\ since' = 0
  /\ UNCHANGED <<pin, guesses, wrong, overlapped>>

\* The lock refuses every guess, the right one too.
RefuseLocked(a) ==
  /\ attempt[a].at = "judge"
  /\ attempt[a].read.lock > 0
  /\ Done(a)
  /\ UNCHANGED <<security, pin, guesses, wrong, since, overlapped>>

\* The right PIN clears what was counted.
Admit(a) ==
  /\ attempt[a].at = "judge"
  /\ attempt[a].read.lock = 0
  /\ attempt[a].valid
  /\ IF attempt[a].read.failed # 0 \/ attempt[a].read.locks # 0
       THEN security' = Reset(attempt[a].pin) /\ since' = 0
       ELSE UNCHANGED <<security, since>>
  /\ Done(a)
  /\ UNCHANGED <<pin, guesses, wrong, overlapped>>

\* A wrong one is counted on top of what was read; the last allowed one locks.
\* Mutant: the failures that led to a lock stay counted.
JudgedKeepsFailures(read) ==
  IF read.failed + 1 >= MaxPin
    THEN [read EXCEPT !.failed = @ + 1, !.locks = @ + 1, !.lock = LockFor(read.locks + 1)]
    ELSE [read EXCEPT !.failed = @ + 1, !.lock = 0]
Judged(read) ==
  IF read.failed + 1 >= MaxPin
    THEN [read EXCEPT !.failed = 0, !.locks = @ + 1, !.lock = LockFor(read.locks + 1)]
    ELSE [read EXCEPT !.failed = @ + 1, !.lock = 0]

CountWrong(a) ==
  /\ attempt[a].at = "judge"
  /\ attempt[a].read.lock = 0
  /\ ~attempt[a].valid
  /\ security' = Judged(attempt[a].read)
  /\ wrong' = [wrong EXCEPT ![attempt[a].pin] = @ + 1]
  /\ since' = since + 1
  /\ Done(a)
  /\ UNCHANGED <<pin, guesses, overlapped>>

\* A quarter of an hour passes for the record, and for the reading of an attempt
\* that has not judged yet.
LockRunsDown ==
  LET Down(s) == [s EXCEPT !.lock = IF @ > 0 THEN @ - 1 ELSE 0]
  IN  /\ security.lock > 0
      /\ security' = Down(security)
      /\ attempt' = [a \in Attempt |-> [attempt[a] EXCEPT !.read = Down(@)]]
      /\ UNCHANGED <<pin, guesses, wrong, since, overlapped>>

\* Another PIN is configured.
ChangePin ==
  /\ pin < MaxPins
  /\ pin' = pin + 1
  /\ UNCHANGED <<security, attempt, guesses, wrong, since, overlapped>>

PinInit ==
  /\ security = Unset /\ pin = 1
  /\ attempt = [a \in Attempt |-> IdleAttempt]
  /\ guesses = 0 /\ wrong = [p \in 1..MaxPins |-> 0] /\ since = 0 /\ overlapped = FALSE

PinNext ==
  \/ \E a \in Attempt :
       \/ \E valid \in BOOLEAN : VerifyPin(a, valid)
       \/ ReadSecurity(a) \/ ResetSecurity(a) \/ RefuseLocked(a) \/ Admit(a) \/ CountWrong(a)
  \/ LockRunsDown \/ ChangePin

PinSpec == PinInit /\ [][PinNext]_pinVars

-----------------------------------------------------------------------------
\* What the record says of the guesses under the PIN it belongs to.
Counted == MaxPin * security.locks + security.failed

(***************************************************************************)
(* The record of pinLogin never counts more wrong guesses than were made   *)
(* under its PIN, however attempts interleave, so no lock falls early; and *)
(* while attempts have come one after another it counts each of them since *)
(* the last reset.  Overlapping attempts may lose counts (each writes what *)
(* it read plus one), never add any.                                       *)
(***************************************************************************)
PinCounterJust ==
  /\ security.pin # 0 => Counted <= wrong[security.pin]
  /\ (~overlapped /\ \A a \in Attempt : ~Busy(a)) => Counted = since
=============================================================================
