-------------------------- MODULE MCAdmissionQueue --------------------------
(***************************************************************************)
(* AdmissionQueue on small instances.  Keys and clients are interchangeable *)
(* model values; no liveness is checked here.                              *)
(***************************************************************************)
EXTENDS AdmissionQueue, TLC

CONSTANTS k1, k2, c1, c2

OneSlotEach == [c \in Class |-> 1]
Interchangeable == Permutations(Key) \cup Permutations(Client)

=============================================================================
