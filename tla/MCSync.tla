------------------------------- MODULE MCSync -------------------------------
(* Model-checking instances of Sync. *)
EXTENDS Sync

\* One call of sync() per device.
OnePerDevice == [c \in Callers |-> c]

\* Two overlapping calls on device 1.
TwoOnFirst == [c \in Callers |-> IF c = NumDevices + 1 THEN 1 ELSE c]
=============================================================================
