--------------------------- MODULE MCBlockMonitor ---------------------------
(* Block trees for BlockMonitor.                                           *)
EXTENDS BlockMonitor

\* Two forks at a1 and a third at a2:  g - a1 - a2 - a3
\*                                          |    \ c3 - c4 - c5
\*                                           \ b2 - b3 - b4
ForkParent == [g |-> "g", a1 |-> "g", a2 |-> "a1", a3 |-> "a2",
               b2 |-> "a1", b3 |-> "b2", b4 |-> "b3",
               c3 |-> "a2", c4 |-> "c3", c5 |-> "c4"]

ForkNumber == [g |-> 0, a1 |-> 1, a2 |-> 2, a3 |-> 3,
               b2 |-> 2, b3 |-> 3, b4 |-> 4,
               c3 |-> 3, c4 |-> 4, c5 |-> 5]

ForkBlocks == DOMAIN ForkParent

\* One fork at g and one at a1.
ReorgParent == [g |-> "g", a1 |-> "g", a2 |-> "a1", a3 |-> "a2", a4 |-> "a3",
                b1 |-> "g", b2 |-> "b1", c2 |-> "a1", c3 |-> "c2"]
ReorgNumber == [g |-> 0, a1 |-> 1, a2 |-> 2, a3 |-> 3, a4 |-> 4,
                b1 |-> 1, b2 |-> 2, c2 |-> 2, c3 |-> 3]
ReorgBlocks == DOMAIN ReorgParent

=============================================================================
