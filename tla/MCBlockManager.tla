--------------------------- MODULE MCBlockManager ---------------------------
(***************************************************************************)
(* A small DAG for BlockManager.  A name is author, round: "a2" is the     *)
(* block of authority a at round 2.  The block "x2" is stamped earlier     *)
(* than its ancestors, so check_ancestors refuses it; "a3" and "b4"        *)
(* descend from it.                                                        *)
(***************************************************************************)
EXTENDS BlockManager

MCGenesis == {"g"}

MCAncestors ==
    [a1 |-> <<"g">>, b1 |-> <<"g">>,
     x2 |-> <<"a1">>, b2 |-> <<"b1", "a1">>,
     a3 |-> <<"x2", "b2">>, b4 |-> <<"b2", "a3">>]

MCBlocks == DOMAIN MCAncestors

MCRound == [a1 |-> 1, b1 |-> 1, x2 |-> 2, b2 |-> 2, a3 |-> 3, b4 |-> 4]

MCTimestamp ==
    [g |-> 0, a1 |-> 2, b1 |-> 1, x2 |-> 1, b2 |-> 2, a3 |-> 3, b4 |-> 3]
=============================================================================
