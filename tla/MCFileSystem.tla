---------------------------- MODULE MCFileSystem ----------------------------
EXTENDS FileSystem, TLC
CONSTANTS root, n1, n2, n3
FourNodes == {root, n1, n2, n3}
Perms == Permutations({n1, n2, n3})
============================================================================
