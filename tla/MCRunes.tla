------------------------------ MODULE MCRunes ------------------------------
(* Shapes of transactions that between them use every branch of the        *)
(* allocation: even split and remainder, fixed amounts beyond the balance, *)
(* one output, OP_RETURN outputs, pointers, burns, cenotaphs, mints within *)
(* and beyond their terms, and etchings with, without and with a reserved  *)
(* name.                                                                   *)
EXTENDS RuneRoutes

CONSTANTS s, t, op, n

MCBlockSize == <<1, 1, 3, 1>>
MCUnlocked(name, h) == h >= 3

Plain == [cenotaph |-> FALSE, mint |-> None, etching |-> None,
          edicts |-> <<>>, pointer |-> None]
Edict(id, amount, output) == [id |-> id, amount |-> amount, output |-> output]
Shape(outs, artifact) == [outs |-> outs, artifact |-> artifact]

OneMint == [amount |-> 2, cap |-> 1, offset |-> <<1, 2>>, height |-> <<None, 5>>]
FirstId == <<2, 0>>
SecondId == <<3, 0>>

Move == Shape(<<t>>, Plain)
EtchUnnamed == Shape(<<s, op>>, [Plain EXCEPT
  !.etching = [name |-> None, premine |-> 3, terms |-> OneMint],
  !.edicts = <<Edict(Default, 1, 2)>>])
MintAndBurn == Shape(<<s>>, [Plain EXCEPT !.cenotaph = TRUE, !.mint = SecondId])

MCCoinbase == {Move, EtchUnnamed, MintAndBurn}

MCTemplate == MCCoinbase \cup
  { Shape(<<op>>, Plain),
    Shape(<<op, s, t>>, [Plain EXCEPT
      !.etching = [name |-> n, premine |-> 3, terms |-> OneMint],
      !.edicts = <<Edict(Default, 0, 4)>>]),
    Shape(<<s>>, [Plain EXCEPT
      !.etching = [name |-> <<4, 0>>, premine |-> 1, terms |-> None]]),
    Shape(<<t, s>>, [Plain EXCEPT
      !.mint = FirstId, !.edicts = <<Edict(FirstId, 2, 3), Edict(FirstId, 0, 1)>>]),
    Shape(<<op, s>>, [Plain EXCEPT
      !.mint = FirstId, !.edicts = <<Edict(Default, 1, 1)>>, !.pointer = 1]),
    Shape(<<s>>, [Plain EXCEPT !.cenotaph = TRUE, !.etching = [name |-> n]]) }
=============================================================================
