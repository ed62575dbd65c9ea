------------------------------- MODULE Gauge -------------------------------
(***************************************************************************)
(* What ContainerMetrics is to those who read it: a gauge that takes one   *)
(* sample at a time, as a whole.  It shows for each container the largest  *)
(* reading of any sample, and the largest sums of the readings of one      *)
(* sample; it does not matter in which order a sample is gone through, or  *)
(* what else happens meanwhile.                                            *)
(***************************************************************************)
EXTENDS Naturals, Functions

CONSTANTS
    Containers,
    Readings    \* [mem, io] of a container in a sample, 0 when it is not there

VARIABLES peakMem, peakTotal, latestIO

vars == <<peakMem, peakTotal, latestIO>>

Raise(old, new) == IF old < new THEN new ELSE old

Init ==
    /\ peakMem = [c \in Containers |-> 0]
    /\ peakTotal = 0 /\ latestIO = 0

Take(sample) ==
    /\ peakMem' = [c \in Containers |-> Raise(peakMem[c], sample[c].mem)]
    /\ peakTotal' = Raise(peakTotal, SumFunction([c \in Containers |-> sample[c].mem]))
    /\ latestIO' = Raise(latestIO, SumFunction([c \in Containers |-> sample[c].io]))

Next == \E sample \in [Containers -> Readings] : Take(sample)

Spec == Init /\ [][Next]_vars
=============================================================================
