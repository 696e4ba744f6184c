------------------------------ MODULE MCMemory ------------------------------
(***************************************************************************)
(* Instances of Memory for TLC.                                            *)
(***************************************************************************)
EXTENDS Memory

\* Bound: a heap that has lost its way is followed while at most one block is
\* in use and its chunks end in mapped memory; merged over and over, a chunk's
\* length grows without end.
MisledBound ==
    misled => /\ Cardinality(live) <= 1
              /\ \A a \in DOMAIN header : End(a) <= heap_max
=============================================================================
