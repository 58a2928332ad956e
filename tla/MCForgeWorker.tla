---------------------------- MODULE MCForgeWorker ----------------------------
EXTENDS ForgeWorker, TLC

CONSTANTS s1, s2, s3

ThreeSlots == {s1, s2, s3}
TwoSlots == {s1, s2}

SlotSymmetry == Permutations(Slot)

AllKinds == {"provider", "preview", "unsupported"}
ProviderOnly == {"provider"}
=============================================================================
