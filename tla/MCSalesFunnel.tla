--------------------------- MODULE MCSalesFunnel ---------------------------
(* Instances of SalesFunnel for TLC. *)
EXTENDS SalesFunnel, TLC

CONSTANTS id1, id2, id3

Lifecycle(event, id) == [op |-> "lifecycle", what |-> event, id |-> id]
Owner(op, what) == [op |-> op, what |-> what, id |-> "none"]
Inbound(id) == [op |-> "inbound", what |-> "none", id |-> id]
Edit(list) == [op |-> "update", what |-> "none", id |-> list]

\* Evidence the owner types in: what a payment, a contact and its answer leave, named by
\* the id.
Told(id) == <<LeadId, Marker("payment-confirmed"), ExtId(id), Did("contact"), Executed,
              Conversation>>
Lists == id1 :> Told(id1) @@ id2 :> Told(id2)
NoLists == <<>>

\* Every operation, and two payments that are told apart by their ids.
EveryCall ==
  {Lifecycle("payment-confirmed", id1), Lifecycle("payment-confirmed", id2),
   Lifecycle("follow-up-not-required", "occurred"), Inbound(id3),
   Owner("qualify", "qualified"), Owner("execute", "contact"),
   Owner("promote", "none"), Owner("archive", "none"),
   Owner("update", "nurture"), Edit(id1), Edit(id2)}

\* Handlers are interchangeable, and so are the ids of the two payments.
Symmetry == Permutations(Handlers) \union Permutations({id1, id2})

\* Two sales to the same customer, told apart by the number of the order, which
\* the adapter sends with every event of a sale.
TwoOrders ==
  {Lifecycle("payment-confirmed", id1), Lifecycle("checkout-completed", id2),
   Lifecycle("payment-confirmed", id2)}

=============================================================================
