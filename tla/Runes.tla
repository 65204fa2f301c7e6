------------------------------- MODULE Runes -------------------------------
(***************************************************************************)
(* The runes indexer (indexers/custom/runes/indexer.rs): for every         *)
(* transaction, the runes of its inputs, mints and etchings are allocated  *)
(* to its outputs, and five tables are updated.                            *)
(*                                                                         *)
(* A rune is identified by the height and position of the transaction that *)
(* etched it, a transaction by its own.  Outputs are counted from 1; the   *)
(* edict output Len(outs) + 1 stands for all of them.  A balance is a      *)
(* function over all identifiers, 0 where the code has no entry.  The      *)
(* message of a transaction is given, as Runestone::decipher returns it.   *)
(***************************************************************************)
EXTENDS Integers, Sequences, FiniteSets, FiniteSetsExt, Functions

CONSTANTS
  Script, OpReturn, P2tr,  \* scripts, the OP_RETURN and the taproot ones
  Name,                    \* names that are not reserved
  Unlocked(_, _),          \* whether a name may be etched at a height
  Template,                \* the shapes of transactions, [outs, artifact]
  CommitConfirmations, StartHeight,
  index_activity,          \* whether activity is recorded; false by default
  Coinbase,                \* the ones a coinbase has
  BlockSize,               \* bound: the transactions of each block
  None

Id == UNION {{h} \X (0..(BlockSize[h] - 1)) : h \in 1..Len(BlockSize)}
Default == <<0, 0>>        \* RuneId::default()

ASSUME ScriptAssumption == OpReturn \subseteq Script /\ P2tr \subseteq Script \ OpReturn

ASSUME ActivityAssumption == index_activity \in BOOLEAN

ASSUME HeightAssumption == BlockSize \in Seq(Nat) \ {<<>>} /\ StartHeight \in Nat

\* The names of etchings without one, which stand for identifiers, are reserved.
ASSUME NameAssumption == Name \cap Id = {} /\ None \notin Name \cup Id

\* What Runestone::decipher returns: outputs that exist, amounts, and of a
\* cenotaph no more than a mint and an etched name.
Artifact(art, outputs) ==
  /\ art.cenotaph \in BOOLEAN
  /\ art.cenotaph => art.edicts = <<>>
  /\ art.etching # None /\ ~art.cenotaph =>
       /\ art.etching.premine \in Nat
       /\ art.etching.terms # None => /\ art.etching.terms.amount \in Nat
                                     /\ art.etching.terms.cap \in Nat
  /\ art.edicts \in Seq([id : Nat \X Nat, amount : Nat, output : 1..(outputs + 1)])
  /\ art.pointer # None => art.pointer \in 1..outputs

ASSUME ShapeAssumption ==
  \A shape \in Template \cup Coinbase :
    /\ shape.outs \in Seq(Script)
    /\ Artifact(shape.artifact, Len(shape.outs))

VARIABLES
  height, index,  \* where the next transaction is
  utxos,          \* UtxoByTxoRefKV, with the runes attached
  infos,          \* RuneInfoByIdKV
  idByName,       \* RuneIdByNameKV
  mints,          \* RuneMintsByIdKV
  rows,           \* RuneUtxosByScriptKV
  activity,       \* RuneActivityByTxKV
  burned          \* what left circulation; the code does not record it

vars == <<height, index, utxos, infos, idByName, mints, rows, activity, burned>>

Zero == [id \in Id |-> 0]
Add(f, g) == [id \in Id |-> f[id] + g[id]]
Put(f, k, v) == [x \in DOMAIN f \cup {k} |-> IF x = k THEN v ELSE f[x]]

Init ==
  /\ height = 1 /\ index = 0
  /\ utxos = <<>> /\ infos = <<>> /\ idByName = <<>>
  /\ mints = Zero /\ burned = Zero
  /\ rows = {} /\ activity = {}

----------------------------------------------------------------------------
(* What a transaction has to give away: inputs, a mint, a premine          *)

Unallocated(ins) ==
  [id \in Id |-> SumFunction([r \in ins |-> utxos[r].runes[id]])]

\* A faulty variant of BelowCap: one mint too many.
AtMostCap(id) == mints[id] <= infos[id].terms.cap

BelowCap(id) == mints[id] < infos[id].terms.cap

CanMint(id) ==
  /\ id \in DOMAIN infos
  /\ infos[id].terms # None
  /\ infos[id].terms.start # None => height >= infos[id].terms.start
  /\ infos[id].terms.end # None => height < infos[id].terms.end
  /\ BelowCap(id)

\* An input whose tapscript pushes the commitment, taproot, old enough.
TxCommitsToRune(commits) ==
  \E r \in commits :
    /\ utxos[r].script \in P2tr
    /\ (height - utxos[r].height) + 1 >= CommitConfirmations

\* A faulty variant of Etchable: reserved names may be etched by name.
EtchableReserved(name, commits) ==
  /\ name \notin DOMAIN idByName
  /\ TxCommitsToRune(commits)

Etchable(name, commits) ==
  /\ name \in Name          \* not reserved
  /\ Unlocked(name, height)
  /\ name \notin DOMAIN idByName
  /\ TxCommitsToRune(commits)

\* The name etched, or None; the identifier is <<height, index>>.  An etching
\* without a name gets the one reserved for its identifier.
Etched(artifact, commits) ==
  CASE artifact.etching = None         -> None
    [] artifact.etching # None /\ artifact.etching.name = None -> <<height, index>>
    [] OTHER -> IF Etchable(artifact.etching.name, commits)
                THEN artifact.etching.name ELSE None

Later(a, b) == IF a = None THEN b ELSE IF b = None THEN a ELSE Max({a, b})
Earlier(a, b) == IF a = None THEN b ELSE IF b = None THEN a ELSE Min({a, b})
After(offset) == IF offset = None THEN None ELSE height + offset

\* Offsets count from the etching; the narrower bound holds.
Terms(t) ==
  IF t = None THEN None
  ELSE [amount |-> t.amount, cap |-> t.cap,
        start  |-> Later(After(t.offset[1]), t.height[1]),
        end    |-> Earlier(After(t.offset[2]), t.height[2])]

CreateRuneEntry(artifact, name) ==
  [name    |-> name,
   terms   |-> IF artifact.cenotaph THEN None ELSE Terms(artifact.etching.terms),
   premine |-> IF artifact.cenotaph THEN 0 ELSE artifact.etching.premine]

----------------------------------------------------------------------------
(* Allocation: st holds the balance left and what each output was given    *)

Spendable(outs) == {o \in DOMAIN outs : outs[o] \notin OpReturn}

\* The place of an output among those that are spendable.
Rank(outs, o) == Cardinality({p \in Spendable(outs) : p <= o})

\* A faulty variant of Allocate: the balance is not reduced.
AllocateTwice(st, id, amount, o) ==
  [st EXCEPT !.alloc[o][id] = @ + amount]

Allocate(st, id, amount, o) ==
  [balance |-> [st.balance EXCEPT ![id] = @ - amount],
   alloc   |-> [st.alloc EXCEPT ![o][id] = @ + amount]]

\* Amount 0 for all outputs: equal parts, the remainder one each from the first.
Split(st, id, outs) ==
  LET spendable == Cardinality(Spendable(outs))
      part == st.balance[id] \div spendable
      remainder == st.balance[id] % spendable
      after[o \in 0..Len(outs)] ==
        IF o = 0 THEN st
        ELSE IF o \notin Spendable(outs) THEN after[o - 1]
        ELSE Allocate(after[o - 1], id, IF Rank(outs, o) <= remainder THEN part + 1 ELSE part, o)
  IN  IF spendable = 0 THEN st ELSE after[Len(outs)]

\* Another amount for all outputs: that much each, while the balance lasts.
Distribute(st, id, amount, outs) ==
  LET after[o \in 0..Len(outs)] ==
        IF o = 0 THEN st
        ELSE IF o \notin Spendable(outs) THEN after[o - 1]
        ELSE Allocate(after[o - 1], id, Min({amount, after[o - 1].balance[id]}), o)
  IN  after[Len(outs)]

ApplyEdict(st, edict, etched, outs) ==
  LET id == IF edict.id = Default THEN <<height, index>> ELSE edict.id
      balance == st.balance[id]
  IN  CASE edict.id = Default /\ etched = None -> st
        [] edict.id \notin Id \cup {Default}   -> st
        [] OTHER ->
             IF edict.output = Len(outs) + 1
             THEN IF edict.amount = 0 THEN Split(st, id, outs)
                  ELSE Distribute(st, id, edict.amount, outs)
             ELSE Allocate(st, id, IF edict.amount = 0 THEN balance
                                   ELSE Min({edict.amount, balance}), edict.output)

\* The edicts in order.
ApplyEdicts(st, edicts, etched, outs) ==
  LET after[i \in 0..Len(edicts)] ==
        IF i = 0 THEN st ELSE ApplyEdict(after[i - 1], edicts[i], etched, outs)
  IN  after[Len(edicts)]

\* Where the rest goes: the pointer, or the first output that is spendable.
DefaultOutput(artifact, outs) ==
  CASE artifact.pointer # None   -> artifact.pointer
    [] artifact.pointer = None /\ Spendable(outs) = {} -> None
    [] OTHER                     -> Min(Spendable(outs))

\* The remaining balances go to the default output; a cenotaph burns them, and
\* so does a transaction without an output to take them.
Rest(st, artifact, outs) ==
  LET o == DefaultOutput(artifact, outs)
  IN  IF artifact.cenotaph \/ o = None THEN st
      ELSE [balance |-> Zero, alloc |-> [st.alloc EXCEPT ![o] = Add(@, st.balance)]]

Allocation(tx, etched) ==
  LET art == tx.artifact
      minted == IF art.mint # None /\ CanMint(art.mint)
                THEN [Zero EXCEPT ![art.mint] = infos[art.mint].terms.amount] ELSE Zero
      premine == IF etched # None /\ ~art.cenotaph
                 THEN [Zero EXCEPT ![<<height, index>>] = art.etching.premine] ELSE Zero
      start == [balance |-> Add(Unallocated(tx.ins), Add(minted, premine)),
                alloc   |-> [o \in DOMAIN tx.outs |-> Zero]]
  IN  Rest(ApplyEdicts(start, art.edicts, etched, tx.outs), art, tx.outs)

----------------------------------------------------------------------------
(* What the transaction writes                                             *)

Ref(o) == <<height, index, o>>
Row(script, h, ref) == [script |-> script, height |-> h, ref |-> ref]

\* A faulty variant of Consumed: the row is looked for at the current height.
ConsumedHere(ins) == {Row(utxos[r].script, height, r) : r \in ins}

\* The rows of inputs that hold runes.
Consumed(ins) ==
  {Row(utxos[r].script, utxos[r].height, r) : r \in {q \in ins : utxos[q].runes # Zero}}

Added(outs, alloc) ==
  {Row(outs[o], height, Ref(o)) : o \in {q \in DOMAIN outs : alloc[q] # Zero}}

Change(id, script, sent, received, o) ==
  [tx |-> <<height, index>>, id |-> id, script |-> script,
   sent |-> sent, received |-> received, output |-> o]

\* A faulty variant of Sent: an input replaces the total instead of adding.
SentReplaced(ins) ==
  LET total(s, id) == LET R == {r \in ins : utxos[r].script = s}
                      IN  IF R = {} THEN 0 ELSE utxos[CHOOSE r \in R : TRUE].runes[id]
  IN  {c \in {Change(id, s, total(s, id), 0, None) : id \in Id, s \in Script} : c.sent > 0}

\* One record for what a script spends of a rune,
Sent(ins) ==
  LET total(s, id) == SumFunction([r \in {q \in ins : utxos[q].script = s} |-> utxos[r].runes[id]])
  IN  {c \in {Change(id, s, total(s, id), 0, None) : id \in Id, s \in Script} : c.sent > 0}

\* and one for each output that receives some.
Received(outs, alloc) ==
  {c \in {Change(id, outs[o], 0, alloc[o][id], o) : id \in Id, o \in DOMAIN outs} :
     c.received > 0}

Logged(ins, outs, alloc) ==
  IF index_activity THEN Sent(ins) \cup Received(outs, alloc) ELSE {}

\* What leaves circulation: the balance left, and the OP_RETURN outputs.
Burnt(st, outs) ==
  [id \in Id |-> st.balance[id] +
     SumFunction([o \in DOMAIN outs \ Spendable(outs) |-> st.alloc[o][id]])]

\* update_utxo_set: inputs are removed, spendable outputs added.
UpdateUtxoSet(ins, outs, alloc) ==
  utxos' = [r \in (DOMAIN utxos \ ins) \cup {Ref(o) : o \in Spendable(outs)} |->
              IF r \in DOMAIN utxos THEN utxos[r]
              ELSE [script |-> outs[r[3]], height |-> height, runes |-> alloc[r[3]]]]

\* Below the start height the indexer does nothing.
SkipTx(tx) ==
  /\ height < StartHeight
  /\ UpdateUtxoSet(tx.ins, tx.outs, [o \in DOMAIN tx.outs |-> Zero])
  /\ UNCHANGED <<infos, idByName, mints, rows, activity, burned>>

IndexTx(tx) ==
  /\ height >= StartHeight
  /\ LET art == tx.artifact
         etched == Etched(art, tx.commits)
         st == Allocation(tx, etched)
     IN  /\ mints' = IF art.mint # None /\ CanMint(art.mint)
                     THEN [mints EXCEPT ![art.mint] = @ + 1] ELSE mints
         /\ IF etched = None THEN UNCHANGED <<infos, idByName>>
            ELSE /\ infos' = Put(infos, <<height, index>>, CreateRuneEntry(art, etched))
                 /\ idByName' = Put(idByName, etched, <<height, index>>)
         /\ rows' = (rows \ Consumed(tx.ins)) \cup Added(tx.outs, st.alloc)
         /\ activity' = activity \cup Logged(tx.ins, tx.outs, st.alloc)
         /\ burned' = Add(burned, Burnt(st, tx.outs))
         /\ UpdateUtxoSet(tx.ins, tx.outs, st.alloc)

ProcessTx(tx) ==
  /\ index < BlockSize[height]
  /\ SkipTx(tx) \/ IndexTx(tx)
  /\ index' = index + 1
  /\ UNCHANGED height

Tx(shape, ins, commits) ==
  [ins |-> ins, commits |-> commits, outs |-> shape.outs, artifact |-> shape.artifact]

\* The first transaction of a block is the coinbase, which spends nothing.
ProcessCoinbase == \E shape \in Coinbase : index = 0 /\ ProcessTx(Tx(shape, {}, {}))

ProcessSpend ==
  \E shape \in Template, ins \in kSubset(1, DOMAIN utxos) \cup kSubset(2, DOMAIN utxos) :
    \E commits \in SUBSET ins : index > 0 /\ ProcessTx(Tx(shape, ins, commits))

NextBlock ==
  /\ index = BlockSize[height] /\ height < Len(BlockSize)
  /\ height' = height + 1 /\ index' = 0
  /\ UNCHANGED <<utxos, infos, idByName, mints, rows, activity, burned>>

Next == ProcessCoinbase \/ ProcessSpend \/ NextBlock

Spec == Init /\ [][Next]_vars

----------------------------------------------------------------------------
(* Properties                                                              *)

Circulating(id) == SumFunction([r \in DOMAIN utxos |-> utxos[r].runes[id]])

Issued(id, n) ==
  IF id \notin DOMAIN infos THEN 0
  ELSE infos[id].premine + (IF infos[id].terms = None THEN 0 ELSE n * infos[id].terms.amount)

\* Runes are neither made nor lost: what outputs hold and what was burned is
\* the premine and the mints recorded, over any sequence of edicts, splits,
\* pointers and cenotaphs (process_tx).
Conserved == \A id \in Id : Circulating(id) + burned[id] = Issued(id, mints[id])

\* No more circulates than the terms of the etching allow (mint).
SupplyBounded ==
  \A id \in DOMAIN infos :
    Circulating(id) <= Issued(id, IF infos[id].terms = None THEN 0 ELSE infos[id].terms.cap)

\* Names and identifiers are one to one: no etching takes over a name, not even
\* one reserved for a later transaction (etched, create_rune_entry).
NamesAgree ==
  /\ \A n \in DOMAIN idByName : infos[idByName[n]].name = n
  /\ \A id \in DOMAIN infos : idByName[infos[id].name] = id

\* The rows of a script that can be spent from are its unspent outputs with
\* runes: a spent output leaves no row (unallocated, process_tx).
RowsMatchUtxos ==
  {w \in rows : w.script \notin OpReturn} =
    {Row(utxos[r].script, utxos[r].height, r) : r \in {q \in DOMAIN utxos : utxos[q].runes # Zero}}

\* With index_activity, the activity records of a script add up to what it holds
\* now (collect_input_totals, log_rune_balance_changes).
ActivityExplainsBalances ==
  index_activity => \A s \in Script \ OpReturn, id \in Id :
    LET mine == {c \in activity : c.script = s /\ c.id = id}
        held == {r \in DOMAIN utxos : utxos[r].script = s}
    IN  SumFunction([c \in mine |-> c.received]) =
          SumFunction([c \in mine |-> c.sent]) +
          SumFunction([r \in held |-> utxos[r].runes[id]])
=============================================================================
