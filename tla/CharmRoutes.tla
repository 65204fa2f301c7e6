----------------------------- MODULE CharmRoutes ----------------------------
(***************************************************************************)
(* The API routes about addresses and charms (serve/routes): what a        *)
(* request is answered from the tables by script and by app and the table  *)
(* of outputs, all read at one version.  A route changes nothing; its      *)
(* answer is an operator.                                                  *)
(***************************************************************************)
EXTENDS AddressTables

Answer(data) == [status |-> 200, data |-> data]
NotFound == [status |-> 404]
Internal == [status |-> 500]    \* expected data is missing

RowsOf(table, of) == {w \in table : w.of = of}

\* addresses_utxos_by_address
UtxosByAddressRoute(script) ==
  LET found == RowsOf(byAddress, script)
  IN  IF \A w \in found : w.ref \in DOMAIN utxos
      THEN Answer({[ref |-> w.ref, height |-> w.height] : w \in found})
      ELSE Internal

\* addresses_tx_count_by_address
TxCountRoute(script) == Answer(txCount[script])

\* Each output must be there and have metadata of charms, maybe empty
\* ("missing expected charms data").
WithCharms(found) ==
  \A w \in found : w.ref \in DOMAIN utxos /\ utxos[w.ref].marked

CharmUtxo(w) == [ref |-> w.ref, height |-> w.height, charms |-> utxos[w.ref].charms]

\* addresses_all_charm_utxos
AllCharmUtxos(script) ==
  LET found == RowsOf(charmsByScript, script)
  IN  IF WithCharms(found) THEN Answer({CharmUtxo(w) : w \in found}) ELSE Internal

\* addresses_specific_charm_utxos: outputs without the charm are skipped.
SpecificCharmUtxos(script, app) ==
  LET all == AllCharmUtxos(script)
  IN  IF all.status = 200 THEN Answer({u \in all.data : app \in u.charms}) ELSE all

\* A faulty variant of Latest: the first row of the scan.
Oldest(found) == {w \in found : \A v \in found : v.height >= w.height}

\* The first row of the scan in reverse: of the greatest height, and among
\* those any, as hashes order them.
Latest(found) == {w \in found : \A v \in found : v.height <= w.height}

\* charm_latest, one of the answers in the set.
CharmLatest(app) ==
  LET found == RowsOf(charmsByApp, app)
  IN  IF found = {} THEN {NotFound}
      ELSE {IF WithCharms({w}) THEN Answer(CharmUtxo(w)) ELSE Internal : w \in Latest(found)}

\* charm_value_at_utxo
CharmValueAtUtxo(app, ref) ==
  IF ref \notin DOMAIN utxos THEN NotFound
  ELSE IF ~utxos[ref].marked \/ app \notin utxos[ref].charms THEN NotFound
  ELSE Answer(app)

----------------------------------------------------------------------------
(* Properties.  No one asks for the address of an OP_RETURN output: it has *)
(* none.                                                                   *)

Payable == Script \ OpReturn

\* The outputs where a charm is found, the OP_RETURN outputs a spell gave it,
\* and the newest of some outputs.
Holders(app) == {r \in AllRefs : CharmValueAtUtxo(app, r).status = 200}
Sealed(app) == {r \in AllRefs : OutputOf(r) \in OpReturn /\ app \in Gives(r)}
Newest(refs) == {r \in refs : \A q \in refs : MadeAt(q) <= MadeAt(r)}

\* What a route says of an output with charms.
CharmsAt(r) == [ref |-> r, height |-> MadeAt(r), charms |-> Gives(r)]

\* The routes tell one story.  The latest output of a charm is the newest of
\* those where the charm is found and of the OP_RETURN outputs it was given to,
\* and the answer is an error exactly when it is one of the latter
\* (charm_latest, charm_value_at_utxo).  An address is told its outputs where
\* the charm is found, each among its charm outputs and among all its outputs
\* at the same height, unless it has a left-over row, and then each request is
\* an error (addresses_specific_charm_utxos, addresses_all_charm_utxos,
\* addresses_utxos_by_address).  It counts at least the transactions that made
\* its outputs (addresses_tx_count_by_address).
RoutesAgree ==
  /\ \A app \in App :
       LET given == Holders(app) \cup Sealed(app)
       IN  CharmLatest(app) =
             IF given = {} THEN {NotFound}
             ELSE {IF r \in Sealed(app) THEN Internal ELSE Answer(CharmsAt(r)) : r \in Newest(given)}
  /\ \A script \in Payable :
       LET all == UtxosByAddressRoute(script).data
       IN  /\ Cardinality({u.ref[1] : u \in all}) <= TxCountRoute(script).data
           /\ IF \E r \in LeftOver : OutputOf(r) = script
              THEN \A app \in App : {AllCharmUtxos(script), SpecificCharmUtxos(script, app)} = {Internal}
              ELSE /\ {[ref |-> u.ref, height |-> u.height] : u \in AllCharmUtxos(script).data}
                        \subseteq all
                   /\ \A app \in App : SpecificCharmUtxos(script, app) =
                        Answer({CharmsAt(r) : r \in {q \in Holders(app) : OutputOf(q) = script}})
=============================================================================
