----------------------------- MODULE RuneRoutes -----------------------------
(***************************************************************************)
(* The API routes about runes (serve/routes): what a request is answered   *)
(* from the tables of the runes indexer and the table of outputs, all read *)
(* at one version.  A route changes nothing; its answer is an operator.    *)
(*                                                                         *)
(* A rune is asked for by identifier or by name; of a text that is neither *)
(* only how RuneIdentifier::parse fails on it is kept.  Wording and the    *)
(* order of rows, which Tables is about, are left out.                     *)
(***************************************************************************)
EXTENDS Runes

Answer(data) == [status |-> 200, data |-> data]
NotFound == [status |-> 404]
Internal == [status |-> 500]    \* expected data is missing
BadRequest == [status |-> 400]
NoAnswer == [status |-> 0]      \* the handler panics, the connection is closed

ById(id) == [by |-> "Id", of |-> id]
ByName(name) == [by |-> "Name", of |-> name]
Malformed == [by |-> "Malformed"]    \* not two parts, or no name
NotNumeric == [by |-> "NotNumeric"]  \* two parts, one of them not a number

\* The identifier asked for, in a set, which is empty when no rune has the name.
SpecifiedRune(rune) ==
  CASE rune.by = "Id"   -> {rune.of}
    [] rune.by = "Name" -> {idByName[name] : name \in {rune.of} \cap DOMAIN idByName}
    [] OTHER            -> {}

\* The one of the answers by identifier that is about the rune asked for.
WithRune(rune, answers) ==
  CASE rune.by = "Malformed"  -> BadRequest
    [] rune.by = "NotNumeric" -> NoAnswer
    [] OTHER -> IF SpecifiedRune(rune) = {} THEN NotFound
                ELSE answers[CHOOSE id \in SpecifiedRune(rune) : TRUE]

\* The rows of a script, and whether the output each one names can be fetched
\* and has runes (get_expected, "missing expected data").
RowsOf(script) == {w \in rows : w.script = script}
Fetchable(script) ==
  \A w \in RowsOf(script) : w.ref \in DOMAIN utxos /\ utxos[w.ref].runes # Zero

AddRunes(script) ==
  [id \in Id |-> SumFunction([w \in RowsOf(script) |-> utxos[w.ref].runes[id]])]

\* addresses_all_rune_balances, with include_info.
AllRuneBalances(script) ==
  IF ~Fetchable(script) THEN Internal
  ELSE IF \E id \in Id : AddRunes(script)[id] > 0 /\ id \notin DOMAIN infos THEN Internal
  ELSE Answer(AddRunes(script))

\* addresses_specific_rune_balance
SpecificRuneBalance(script, rune) ==
  WithRune(rune, [id \in Id |->
    IF Fetchable(script) THEN Answer(AddRunes(script)[id]) ELSE Internal])

RuneUtxo(w) == [ref |-> w.ref, height |-> w.height, runes |-> utxos[w.ref].runes]

\* addresses_all_rune_utxos
AllRuneUtxos(script) ==
  IF Fetchable(script) THEN Answer({RuneUtxo(w) : w \in RowsOf(script)}) ELSE Internal

\* addresses_specific_rune_utxos: outputs without the rune are skipped.
SpecificRuneUtxos(script, rune) ==
  WithRune(rune, [id \in Id |->
    IF ~Fetchable(script) THEN Internal
    ELSE Answer({RuneUtxo(w) : w \in {v \in RowsOf(script) : utxos[v.ref].runes[id] > 0}})])

RuneEdict(c) == [id |-> c.id, amount |-> c.received, output |-> c.output]

\* A faulty variant of RunesByTx: spends only.
RunesByTxSpent(script, tx) ==
  Answer({RuneEdict(c) : c \in {d \in activity : d.tx = tx /\ d.script = script /\ d.sent > 0}})

\* addresses_runes_by_tx
RunesByTx(script, tx) ==
  Answer({RuneEdict(c) : c \in {d \in activity : d.tx = tx /\ d.script = script}})

\* rune_balance_at_utxo
RuneBalanceAtUtxo(rune, ref) ==
  WithRune(rune, [id \in Id |->
    IF ref \in DOMAIN utxos THEN Answer(utxos[ref].runes[id]) ELSE NotFound])

\* rune_info
RuneInfo(rune) ==
  WithRune(rune, [id \in Id |->
    IF id \in DOMAIN infos THEN Answer(infos[id]) ELSE NotFound])

\* runes_rune_info_batch: what is found under its identifier, the rest under
\* what was asked, a malformed one too.
RuneInfoBatch(asked) ==
  LET found == {rune \in asked : RuneInfo(rune).status = 200}
      ids   == UNION {SpecifiedRune(rune) : rune \in found}
      batch == [key \in {ById(id) : id \in ids} \cup (asked \ found) |->
                  IF key \in asked \ found THEN None ELSE infos[key.of]]
  IN  IF NotNumeric \in asked THEN NoAnswer ELSE Answer(batch)

----------------------------------------------------------------------------
(* Properties                                                              *)

Payable == Script \ OpReturn

\* What may be asked for without a panic of the handler.
Parseable == {ById(id) : id \in Id} \cup {ByName(name) : name \in Name} \cup {Malformed}

\* The routes tell one story: no route finds a row without its output or a rune
\* without its info, what is said of an address is the sum of what is said of
\* its outputs, each output is explained, with index_activity, by the record of
\* its transaction, a name stands for its identifier, and a batch finds what the
\* single requests find, whatever else is in it, malformed or unknown
\* (serve/routes).
RoutesAgree ==
  /\ \A script \in Payable : AllRuneBalances(script).status = 200
  /\ \A script \in Payable, name \in DOMAIN idByName :
       LET rune  == ById(idByName[name])
           utxo  == SpecificRuneUtxos(script, ByName(name)).data
           at(u) == RuneBalanceAtUtxo(rune, u.ref).data
           held  == AllRuneBalances(script).data[rune.of]
       IN  /\ held = SumFunction([u \in utxo |-> at(u)])
           /\ SpecificRuneBalance(script, rune) = Answer(held)
           /\ \A u \in utxo :
                /\ u \in AllRuneUtxos(script).data
                /\ index_activity =>
                     [id |-> rune.of, amount |-> at(u), output |-> u.ref[3]] \in
                       RunesByTx(script, <<u.ref[1], u.ref[2]>>).data
  /\ \A u \in UNION {AllRuneUtxos(script).data : script \in Payable} :
       \E name \in DOMAIN idByName : RuneBalanceAtUtxo(ByName(name), u.ref).data > 0
  /\ LET batch == RuneInfoBatch(Parseable).data
     IN  \A rune \in Parseable :
           IF RuneInfo(rune).status # 200 THEN batch[rune] = None
           ELSE \E id \in SpecifiedRune(rune) : RuneInfo(rune).data = batch[ById(id)]
=============================================================================
