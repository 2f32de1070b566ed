---------------------------- MODULE MCDualStore -----------------------------
(* Small instances of DualStore for TLC. *)
EXTENDS DualStore

AllOps == {"upsert", "delete"}
Upserts == {"upsert"}
AllFaults == FaultKinds
SlowSecondary == {"secondary"}
NoFaults == {}
=============================================================================
