----------------------- MODULE MCTransactionManager -----------------------
(***************************************************************************)
(* An instance of TransactionManager.  Transaction 1 publishes package "p" *)
(* and creates objects "b" and "a"; 2 calls package "q", which is there    *)
(* from the start, and changes "a"; 3 calls "p" with the new "a".          *)
(***************************************************************************)
EXTENDS TransactionManager

Key(i, v) == [id |-> i, version |-> v]
Package(i) == Key(i, NoVersion)

MCInputs == <<{}, {Key("a", 1), Package("q")}, {Key("a", 2), Package("p")}>>
MCOutputs == <<{Package("p"), Key("b", 1), Key("a", 1)}, {Key("a", 2)}, {Key("a", 3)}>>
MCEpochs == <<0, 0, 0>>
MCGenesis == {Package("q")}
=============================================================================
