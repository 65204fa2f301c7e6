------------------------------ MODULE MCTables ------------------------------
(* Keys at the boundaries: numbers with no, one and two bytes and u64::MAX *)
(* (the mempool pseudo point); a script that is the beginning of another;  *)
(* the last sequence numbers; and a table identifier of all ones.          *)
EXTENDS Tables

MCPrefix == [t \in Table |->
  CASE t = "HashByHeight" -> <<1, 2>>
    [] t = "RollbackBuffer" -> <<1, 3>>
    [] t = "UtxosByScript" -> <<2, 0, 1, 4>>
    [] t = "RuneActivityByTx" -> <<2, 0, 2, 0>>]

MCFields == [t \in Table |->
  CASE t = "HashByHeight" -> <<"u64">>
    [] t = "RollbackBuffer" -> <<"u64", "array", "vec">>
    [] t = "UtxosByScript" -> <<"vec", "u64", "array", "u64">>
    [] t = "RuneActivityByTx" -> <<"array", "u16">>]

MCKeys == [t \in Table |->
  CASE t = "HashByHeight" -> {<<0>>, <<4>>, <<5>>}
    [] t = "RollbackBuffer" -> {<<4, <<0>>, <<1>>>>, <<9, <<2>>, <<>>>>, <<MaxU64, <<2>>, <<>>>>}
    [] t = "UtxosByScript" -> {<<<<1>>, 4, <<0>>, 0>>, <<<<1>>, 6, <<0>>, 4>>, <<<<1, 0>>, 4, <<0>>, 0>>}
    [] t = "RuneActivityByTx" -> {<<<<1>>, 0>>, <<<<1>>, MaxU16 - 1>>, <<<<1>>, MaxU16>>, <<<<2>>, 0>>}]
=============================================================================
