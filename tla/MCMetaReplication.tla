------------------------- MODULE MCMetaReplication --------------------------
(***************************************************************************)
(* MetaReplication with one key, and commands that compare, renew, delete  *)
(* and use transactions on it.                                             *)
(***************************************************************************)
EXTENDS MetaReplication, TLC

Symmetry == Permutations(Nodes)

Exact(s) == [how |-> "Exact", seq |-> s]

Upsert(match, op, val, expire) ==
  [kind |-> "UpsertKV", key |-> "k", match |-> match, op |-> op, val |-> val,
   expire |-> expire]

Op(kind, val) == [kind |-> kind, key |-> "k", val |-> val]

\* If the record exists with a value below 2, replace and read it, else delete it.
Txn == [kind |-> "Transaction",
        condition |-> <<[key |-> "k", on |-> "seq", expected |-> "Ge", target |-> 1],
                        [key |-> "k", on |-> "value", expected |-> "Lt", target |-> 2]>>,
        if_then |-> <<Op("put", 2), Op("get", 0)>>,
        else_then |-> <<Op("del", 0)>>]

Lasting == {Upsert(Exact(0), "Update", 1, Never),
            Upsert(MatchAny, "AsIs", 0, Never),
            Upsert([how |-> "GE", seq |-> 1], "Delete", 0, Never),
            Txn}

Expiring == {Upsert(Exact(0), "Update", 1, 0),
             Upsert(MatchAny, "AsIs", 0, 1),
             Txn}

Commands == Lasting \cup Expiring

Entry(cmd) == [payload |-> "Normal", txid |-> NoTx, cmd |-> cmd]

Admin == {[payload |-> "Blank", txid |-> NoTx, cmd |-> NoVal],
          [payload |-> "Membership", txid |-> NoTx, cmd |-> NoVal],
          Entry([kind |-> "Add", space |-> "nodes", node |-> "n"]),
          Entry([kind |-> "Remove", space |-> "nodes", node |-> "n"]),
          Entry([kind |-> "IncrSeq", name |-> GenericKV])}
=============================================================================
