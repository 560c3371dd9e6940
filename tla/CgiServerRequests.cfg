\* Workers, programs, clients and signals in any order; zombies and descriptors.
SPECIFICATION FairSpec
CONSTANT Slot = {w1, w2, w3}
INVARIANTS TypeOK LeakAccount
PROPERTIES ConnectionCloses
