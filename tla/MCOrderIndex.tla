---------------------------- MODULE MCOrderIndex ----------------------------
(* Amounts and symmetry for OrderIndex.                                    *)
EXTENDS OrderIndex, TLC

LargeTaker == [o \in Orders |-> 200]
OneMaker   == [o \in Orders |-> 30]
OneFee     == [o \in Orders |-> 7]
OneSalt    == [o \in Orders |-> 1]

\* The slots of a semaphore are interchangeable.
Slots == Permutations(IndexWorkers) \cup Permutations(FillWorkers)
           \cup Permutations(CancelWorkers)

=============================================================================
