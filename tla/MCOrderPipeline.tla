--------------------------- MODULE MCOrderPipeline --------------------------
(* Amounts and symmetry for OrderPipeline.                                 *)
EXTENDS OrderPipeline, TLC

SmallTaker == [o \in Orders |-> 2]
OneMaker   == [o \in Orders |-> 30]
OneFee     == [o \in Orders |-> 7]

\* Below the third of the three epochs, so that it matters when the second is
\* written after it.
OneSalt == [o \in Orders |-> 2]

\* The slots of a semaphore, and the copies of an order, are interchangeable.
Slots == Permutations(IndexWorkers) \cup Permutations(FillWorkers)
           \cup Permutations(CancelWorkers) \cup Permutations(Copies)

=============================================================================
