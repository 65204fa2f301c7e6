--------------------------- MODULE AddressTables ---------------------------
(***************************************************************************)
(* The indexers that keep tables by script: UtxosByAddress,                *)
(* TxCountByAddress and Charms (indexers/custom).  Each transaction is     *)
(* given to all of them in turn and then to update_utxo_set, as            *)
(* Worker::execute does.                                                   *)
(*                                                                         *)
(* A transaction is identified by its position in `chain`, the             *)
(* transactions indexed so far, and an output by that and its position.    *)
(* A spell is what extract_and_verify_spell returns: its apps, the charms  *)
(* each output is given as indices into the apps, and the outputs beamed   *)
(* to another chain.  Nothing says that an index has an app: the indexer   *)
(* leaves out those that have none.                                        *)
(***************************************************************************)
EXTENDS Naturals, Sequences, FiniteSets, SequencesExt

CONSTANTS
  Script, OpReturn,
  App,          \* apps of charms
  Template,     \* shapes of transactions, [outs, spell]
  StartHeight,  \* CharmsIndexer.start_height
  MaxTxs, MaxHeight,  \* bounds
  None

ASSUME ScriptAssumption == OpReturn \subseteq Script

\* What the extractor of charms returns.
Spell == [apps : Seq(App), outs : Seq(SUBSET Nat), beamed : SUBSET Nat]

ASSUME TemplateAssumption ==
  Template \subseteq [outs : Seq(Script), spell : Spell \cup {None}]
ASSUME HeightAssumption == StartHeight \in Nat

VARIABLES
  chain,          \* the transactions indexed, with their heights
  height,         \* of the block being indexed
  utxos,          \* UtxoByTxoRefKV; `marked`: has charms metadata, maybe empty
  byAddress,      \* UtxosByAddressKV
  txCount,        \* TxCountByAddressKV
  charmsByScript, \* CharmsUtxosByScriptKV
  charmsByApp     \* CharmsUtxosByAppKV

vars == <<chain, height, utxos, byAddress, txCount, charmsByScript, charmsByApp>>

Init ==
  /\ chain = <<>> /\ height = 1
  /\ utxos = <<>>
  /\ byAddress = {} /\ charmsByScript = {} /\ charmsByApp = {}
  /\ txCount = [s \in Script |-> 0]

Ref(o) == <<Len(chain) + 1, o>>

Row(of, h, ref) == [of |-> of, height |-> h, ref |-> ref]

\* A faulty variant of Spent: the row is looked for at the current height.
SpentHere(ins) == {Row(utxos[r].script, height, r) : r \in ins}

\* The keys of the rows of inputs.
Spent(ins) == {Row(utxos[r].script, utxos[r].height, r) : r \in ins}

----------------------------------------------------------------------------
(* UtxosByAddressIndexer and TxCountByAddressIndexer                       *)

UtxosByAddress(tx) ==
  byAddress' = (byAddress \ Spent(tx.ins)) \cup
               {Row(tx.outs[o], height, Ref(o)) : o \in DOMAIN tx.outs}

\* A faulty variant of SeenScripts: the scripts of inputs are not counted.
SeenOutputs(tx) == ToSet(tx.outs)

SeenScripts(tx) == {utxos[r].script : r \in tx.ins} \cup ToSet(tx.outs)

TxCountByAddress(tx) ==
  txCount' = [s \in Script |-> IF s \in SeenScripts(tx) THEN txCount[s] + 1 ELSE txCount[s]]

----------------------------------------------------------------------------
(* CharmsIndexer                                                           *)

\* A faulty variant of Cleaned: inputs are cleaned up by spells only.
CleanedBySpell(tx) == IF tx.spell = None THEN {} ELSE {r \in tx.ins : utxos[r].charms # {}}

\* Inputs whose metadata has charms leave the tables, with or without a spell.
Cleaned(tx) == {r \in tx.ins : utxos[r].charms # {}}

\* The spell has charms for output o: none below the start height, without a
\* spell, beyond the outputs of the spell, or when it is beamed.
Marked(tx, o) ==
  /\ height >= StartHeight /\ tx.spell # None
  /\ o \in DOMAIN tx.spell.outs \ tx.spell.beamed
  /\ tx.spell.outs[o] # {}

\* The charms a spell gives an output: indices without an app are left out.
Resolved(spell, o) == {spell.apps[i] : i \in spell.outs[o] \cap DOMAIN spell.apps}

\* The metadata of output o, which may be empty when it is marked.
Attached(tx, o) == IF Marked(tx, o) THEN Resolved(tx.spell, o) ELSE {}

Given(tx) == {o \in DOMAIN tx.outs : Marked(tx, o)}

Charms(tx) ==
  \/ /\ height < StartHeight
     /\ UNCHANGED <<charmsByScript, charmsByApp>>
  \/ /\ height >= StartHeight
     /\ charmsByScript' = (charmsByScript \ Spent(Cleaned(tx))) \cup
          {Row(tx.outs[o], height, Ref(o)) : o \in Given(tx)}
     /\ charmsByApp' =
          (charmsByApp \ UNION {{Row(a, utxos[r].height, r) : a \in utxos[r].charms} :
                                  r \in Cleaned(tx)})
          \cup UNION {{Row(a, height, Ref(o)) : a \in Attached(tx, o)} : o \in Given(tx)}

----------------------------------------------------------------------------
(* update_utxo_set, blocks and transactions                                *)

UpdateUtxoSet(tx) ==
  LET new == {Ref(o) : o \in {q \in DOMAIN tx.outs : tx.outs[q] \notin OpReturn}}
  IN  utxos' = [r \in (DOMAIN utxos \ tx.ins) \cup new |->
                  IF r \notin new THEN utxos[r]
                  ELSE [script |-> tx.outs[r[2]], height |-> height,
                        marked |-> Marked(tx, r[2]), charms |-> Attached(tx, r[2])]]

ProcessTx(tx) ==
  /\ UtxosByAddress(tx)
  /\ TxCountByAddress(tx)
  /\ Charms(tx)
  /\ UpdateUtxoSet(tx)
  /\ chain' = Append(chain, tx)
  /\ UNCHANGED height

\* A coinbase when nothing is spent.
IndexTx(shape, ins) ==
  /\ Len(chain) < MaxTxs
  /\ ProcessTx([ins |-> ins, outs |-> shape.outs, spell |-> shape.spell, height |-> height])

NextBlock ==
  /\ height < MaxHeight
  /\ height' = height + 1
  /\ UNCHANGED <<chain, utxos, byAddress, txCount, charmsByScript, charmsByApp>>

Next ==
  \/ \E shape \in Template, ins \in SUBSET DOMAIN utxos : IndexTx(shape, ins)
  \/ NextBlock

Spec == Init /\ [][Next]_vars

----------------------------------------------------------------------------
(* Properties.  The references are read off the transactions alone.        *)

\* The output a reference names.
OutputOf(r) == chain[r[1]].outs[r[2]]
MadeAt(r) == chain[r[1]].height
AllRefs == UNION {{<<i, o>> : o \in DOMAIN chain[i].outs} : i \in DOMAIN chain}
SpentRefs == UNION {chain[i].ins : i \in DOMAIN chain}
Unspent == {r \in AllRefs : r \notin SpentRefs /\ OutputOf(r) \notin OpReturn}

Listed(rows) == {w \in rows : OutputOf(w.ref) \notin OpReturn}

\* A script's rows are its unspent outputs, at the height they were made
\* (UtxosByAddressIndexer): a row is found again when the output is spent.
AddressRowsExact ==
  Listed(byAddress) = {Row(OutputOf(r), MadeAt(r), r) : r \in Unspent}

\* The count of a script is the number of transactions that pay it or spend an
\* output of it, each counted once (TxCountByAddressIndexer).
TxCountExact ==
  \A s \in Script :
    txCount[s] = Cardinality({i \in DOMAIN chain :
      s \in ToSet(chain[i].outs) \cup {OutputOf(r) : r \in chain[i].ins}})

\* The spell of its transaction has charms for an output, and which they are.
Marks(r) ==
  LET spell == chain[r[1]].spell
  IN  /\ spell # None /\ MadeAt(r) >= StartHeight
      /\ r[2] \in DOMAIN spell.outs \ spell.beamed
      /\ spell.outs[r[2]] # {}
Gives(r) == IF Marks(r) THEN Resolved(chain[r[1]].spell, r[2]) ELSE {}

\* The spent outputs a spell marked with none but unknown apps.
LeftOver == {r \in SpentRefs : Marks(r) /\ Gives(r) = {}}

\* The two charms tables list the unspent outputs a spell marked, with or
\* without a spell in the transaction that spends them: by script, and by each
\* app they were given.  Only the rows of outputs marked with no known app stay
\* when these are spent (CharmsIndexer).
CharmsTablesAgree ==
  LET marked == {r \in Unspent : Marks(r)}
  IN  /\ Listed(charmsByScript) =
           {Row(OutputOf(r), MadeAt(r), r) : r \in marked \cup LeftOver}
      /\ Listed(charmsByApp) = UNION {{Row(a, MadeAt(r), r) : a \in Gives(r)} : r \in marked}
=============================================================================
