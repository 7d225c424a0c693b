------------------------------ MODULE MCFileStore ------------------------------
EXTENDS FileStore, TLC

CONSTANTS r1, r2, r3

\* Two medias and an avatar.
SomeStores == (r1 :> "public") @@ (r2 :> "public") @@ (r3 :> "private")

ContentSymmetry == Permutations(Contents) \cup Permutations(Names)

===============================================================================
