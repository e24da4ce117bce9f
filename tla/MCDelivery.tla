---- MODULE MCDelivery ----
\* Delivery for TLC.  Messages are interchangeable, and so are deposit ids.
EXTENDS Delivery, TLC

Symmetry == Permutations(Msgs) \cup Permutations(Ids)
====
