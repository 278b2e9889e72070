----------------------------- MODULE MCTransfer -----------------------------
\* Transfer on small instances; devices are interchangeable.
EXTENDS Transfer

DeviceSymmetry == Permutations(Devices)
=============================================================================
