------------------------------- MODULE Mirror -------------------------------
(***************************************************************************)
(* What the two-store replication of backend/platform.ts promises for      *)
(* writes: a mirror whose stamps only rise, and a set of outstanding       *)
(* writes.  An outstanding write is a promise: it leaves the set only when *)
(* the mirror has reached its stamp.  DualStore implements this.           *)
(***************************************************************************)
EXTENDS Naturals

CONSTANTS Id,        \* identities of the records
          Stamp      \* values of a record's updatedAt, numbers (0: no record)

VARIABLES store,        \* store[i]: stamp of the mirrored record i
          outstanding   \* accepted writes the mirror has still to reach

vars == <<store, outstanding>>

Promise == [id : Id, at : Stamp]

Init ==
  /\ store = [i \in Id |-> 0]
  /\ outstanding = {}

\* A write the mirror lacks is accepted and becomes outstanding.
Accept(p) ==
  /\ store[p.id] < p.at
  /\ outstanding' = outstanding \union {p}
  /\ UNCHANGED store

\* The mirror reaches a newer stamp; only what it has reached is discharged.
Raise(p) ==
  /\ store[p.id] < p.at
  /\ store' = [store EXCEPT ![p.id] = p.at]
  /\ outstanding' = {o \in outstanding : o.id = p.id => o.at > p.at}

\* Somebody asks to delete a record: nothing is promised for it any more.
Forget(i) ==
  /\ store' = [store EXCEPT ![i] = 0]
  /\ outstanding' = {o \in outstanding : o.id # i}

Next ==
  \/ \E p \in Promise : Accept(p) \/ Raise(p)
  \/ \E i \in Id : Forget(i)

Spec == Init /\ [][Next]_vars
=============================================================================
