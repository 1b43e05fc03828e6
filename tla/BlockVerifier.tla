--------------------------- MODULE BlockVerifier ---------------------------
(***************************************************************************)
(* The checks that a received block passes before an authority considers   *)
(* it (consensus/core/src/block_verifier.rs).  A block is its reference: a *)
(* round, an author and a digest.  Signatures, epochs, sizes and           *)
(* transactions are left out.                                              *)
(***************************************************************************)
EXTENDS Committee

AtRound(V, r) == {b \in V : b.round = r}

AuthorsOf(S) == {b.author : b \in S}

\* genesis_blocks: the blocks of round 0 that every DAG starts from.
GenesisBlocks == {[round |-> 0, author |-> a, digest |-> 0] : a \in Authorities}

\* Mutant: the check for DuplicatedAncestorsAuthority is missing.
VerifyDuplicates(b, P) ==
    /\ b.round > 0
    /\ \A p \in P : p.round < b.round
    /\ b.author \in AuthorsOf(P)
    /\ IsQuorum(AuthorsOf(AtRound(P, b.round - 1)))

(***************************************************************************)
(* SignedBlockVerifier::verify: the ancestors P that block b may name.     *)
(* The first ancestor is a block of the author itself and no other one is, *)
(* no two ancestors have the same author, all of them are of lower rounds  *)
(* and those of the previous round hold a quorum of stake.                 *)
(***************************************************************************)
Verify(b, P) ==
    /\ b.round > 0
    /\ \A p \in P : p.round < b.round
    /\ \A p, q \in P : p.author = q.author => p = q
    /\ b.author \in AuthorsOf(P)
    /\ IsQuorum(AuthorsOf(AtRound(P, b.round - 1)))
============================================================================
