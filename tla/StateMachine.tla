---------------------------- MODULE StateMachine ----------------------------
(***************************************************************************)
(* What one raft log entry does to the state machine of a meta node:       *)
(* common/meta/raft-store/src/state_machine/sm.rs.                         *)
(*                                                                         *)
(* A state s is the content of the sled tree of the state machine:         *)
(*   applied     the index of the last applied log (LastApplied)           *)
(*   membership  the index of the last membership log (LastMembership)     *)
(*   nodes       the registered raft nodes                       (Nodes)   *)
(*   addrs       the registered API addresses             (MetaSrvAddrs)   *)
(*   kv          key -> SeqV, seq 0 for an absent record     (GenericKV)   *)
(*   seqs        name -> counter                             (Sequences)   *)
(*   last        client -> serial and reply of its last request            *)
(*                                                     (ClientLastResps)   *)
(* `now` is the wall clock of the node at the moment it applies the entry. *)
(* The events that an UpsertKV hands to the watchers of the node are not   *)
(* part of this state.                                                     *)
(***************************************************************************)
EXTENDS Integers, Sequences

CONSTANTS Keys,       \* keys of the generic key-value store
          Clients,    \* clients that number their requests
          NoVal,      \* the data of an absent record
          Never,      \* an expire_at later than every clock (u64::MAX)
          NoTx        \* an entry without a txid

\* The name of the counter that numbers the records of the key-value store.
GenericKV == "generic-kv"
SeqNames == {GenericKV, "other"}

Absent == [seq |-> 0, data |-> NoVal, expire |-> Never]
NoReply == [kind |-> "None"]

Empty == [applied |-> 0, membership |-> 0, nodes |-> {}, addrs |-> {},
          kv |-> [k \in Keys |-> Absent],
          seqs |-> [q \in SeqNames |-> 0],
          last |-> [c \in Clients |-> [serial |-> 0, reply |-> NoReply]]]

match_seq(want, got) ==
  \/ want.how = "Any"
  \/ want.how = "Exact" /\ got = want.seq
  \/ want.how = "GE" /\ got >= want.seq

\* A record is gone as soon as its expire_at is in the past.
unexpired(sv, now) == IF sv.expire < now THEN Absent ELSE sv

txn_incr_seq(s, name) == [s EXCEPT !.seqs[name] = @ + 1]

\* An AsIs update that forgets to number the record anew.
AsIsKeepsSeq(s, key, prev, up) ==
  LET t   == txn_incr_seq(s, GenericKV)
      new == [seq    |-> IF up.op = "AsIs" THEN prev.seq ELSE t.seqs[GenericKV],
              data   |-> IF up.op = "AsIs" THEN prev.data ELSE up.val,
              expire |-> up.expire]
  IN  CASE up.op = "Delete" -> [s |-> [s EXCEPT !.kv[key] = Absent], result |-> Absent]
        [] up.op = "AsIs" /\ prev = Absent -> [s |-> s, result |-> Absent]
        [] OTHER -> [s |-> [t EXCEPT !.kv[key] = new], result |-> new]

\* An update renumbers the record and replaces its meta; AsIs keeps the data.
txn_sub_tree_do_update(s, key, prev, up) ==
  LET t   == txn_incr_seq(s, GenericKV)
      new == [seq    |-> t.seqs[GenericKV],
              data   |-> IF up.op = "AsIs" THEN prev.data ELSE up.val,
              expire |-> up.expire]
  IN  CASE up.op = "Delete" -> [s |-> [s EXCEPT !.kv[key] = Absent], result |-> Absent]
        [] up.op = "AsIs" /\ prev = Absent -> [s |-> s, result |-> Absent]
        [] OTHER -> [s |-> [t EXCEPT !.kv[key] = new], result |-> new]

txn_sub_tree_upsert(s, key, match, up, now) ==
  LET prev == unexpired(s.kv[key], now)
      done == txn_sub_tree_do_update(s, key, prev, up)
  IN  IF match_seq(match, prev.seq)
      THEN [s |-> done.s, prev |-> prev, result |-> done.result]
      ELSE [s |-> s, prev |-> prev, result |-> prev]

-----------------------------------------------------------------------------
(***************************************************************************)
(* Transactions.  Conditions read the record as it is stored: unlike an    *)
(* upsert they do not look at expire_at, and neither does a get operation. *)
(***************************************************************************)

condition_result(expected, got, target) ==
  CASE expected = "Eq" -> got = target
    [] expected = "Gt" -> got > target
    [] expected = "Lt" -> got < target
    [] expected = "Ne" -> got # target
    [] expected = "Ge" -> got >= target
    [] expected = "Le" -> got <= target

txn_execute_one_condition(s, cond) ==
  LET sv == s.kv[cond.key]
  IN  \/ cond.on = "seq" /\ condition_result(cond.expected, sv.seq, cond.target)
      \/ /\ cond.on = "value" /\ sv # Absent
         /\ condition_result(cond.expected, sv.data, cond.target)

txn_execute_condition(s, conds) ==
  \A i \in DOMAIN conds : txn_execute_one_condition(s, conds[i])

MatchAny == [how |-> "Any", seq |-> 0]

\* acc is the state so far and the replies so far.
txn_execute_operation(acc, op, now) ==
  LET up  == [op |-> IF op.kind = "put" THEN "Update" ELSE "Delete",
              val |-> op.val, expire |-> Never]
      did == txn_sub_tree_upsert(acc.s, op.key, MatchAny, up, now)
  IN  IF op.kind = "get"
      THEN [acc EXCEPT !.replies = Append(@, acc.s.kv[op.key])]
      ELSE [s |-> did.s, replies |-> Append(acc.replies, did.prev)]

\* The operations in turn, each on what the ones before it left.
txn_execute_operations(s, ops, now) ==
  LET done[i \in 0..Len(ops)] ==
        IF i = 0 THEN [s |-> s, replies |-> <<>>]
        ELSE txn_execute_operation(done[i - 1], ops[i], now)
  IN  done[Len(ops)]

apply_txn_cmd(s, txn, now) ==
  LET success == txn_execute_condition(s, txn.condition)
      done    == txn_execute_operations(s, IF success THEN txn.if_then ELSE txn.else_then, now)
  IN  [s |-> done.s,
       reply |-> [kind |-> "TxnReply", success |-> success, replies |-> done.replies]]

-----------------------------------------------------------------------------
apply_update_kv_cmd(s, cmd, now) ==
  LET did == txn_sub_tree_upsert(s, cmd.key, cmd.match, cmd, now)
  IN  [s |-> did.s, reply |-> [kind |-> "KV", prev |-> did.prev, result |-> did.result]]

\* IncrSeq may name any counter.
apply_incr_seq_cmd(s, name) ==
  LET t == txn_incr_seq(s, name)
  IN  [s |-> t, reply |-> [kind |-> "Seq", seq |-> t.seqs[name]]]

\* AddNode and AddMetaSrvAddr, RemoveNode and RemoveMetaSrvAddr differ only in
\* the key space.  All reply with what was there and what was put there; adding
\* what is known already changes nothing.
apply_add_cmd(s, space, x) ==
  [s |-> [s EXCEPT ![space] = @ \cup {x}],
   reply |-> [kind |-> "Node", prev |-> x \in s[space], result |-> x \notin s[space]]]

apply_remove_cmd(s, space, x) ==
  [s |-> [s EXCEPT ![space] = @ \ {x}],
   reply |-> [kind |-> "Node", prev |-> x \in s[space], result |-> FALSE]]

apply_cmd(s, cmd, now) ==
  CASE cmd.kind = "IncrSeq"     -> apply_incr_seq_cmd(s, cmd.name)
    [] cmd.kind = "Add"         -> apply_add_cmd(s, cmd.space, cmd.node)
    [] cmd.kind = "Remove"      -> apply_remove_cmd(s, cmd.space, cmd.node)
    [] cmd.kind = "UpsertKV"    -> apply_update_kv_cmd(s, cmd, now)
    [] cmd.kind = "Transaction" -> apply_txn_cmd(s, cmd, now)

\* The check left out.
NeverRepeated(s, entry) == FALSE

\* Whether the entry is the last request of its client once more.
Repeated(s, entry) ==
  entry.txid # NoTx /\ s.last[entry.txid.client].serial = entry.txid.serial

\* A repeated request is answered as an empty entry is.
RepeatedGetsNone(s, index, entry, now) ==
  LET t    == [s EXCEPT !.applied = index]
      done == apply_cmd(t, entry.cmd, now)
      tx   == entry.txid
  IN  CASE entry.payload = "Blank" -> [s |-> t, reply |-> NoReply]
        [] entry.payload = "Membership" ->
             [s |-> [t EXCEPT !.membership = index], reply |-> NoReply]
        [] entry.payload = "Normal" /\ Repeated(s, entry) -> [s |-> t, reply |-> NoReply]
        [] entry.payload = "Normal" /\ ~Repeated(s, entry) /\ tx = NoTx -> done
        [] entry.payload = "Normal" /\ ~Repeated(s, entry) /\ tx # NoTx ->
             [s |-> [done.s EXCEPT !.last[tx.client] =
                       [serial |-> tx.serial, reply |-> done.reply]],
              reply |-> done.reply]

apply(s, index, entry, now) ==
  LET t    == [s EXCEPT !.applied = index]
      done == apply_cmd(t, entry.cmd, now)
      tx   == entry.txid
  IN  CASE entry.payload = "Blank" -> [s |-> t, reply |-> NoReply]
        [] entry.payload = "Membership" ->
             [s |-> [t EXCEPT !.membership = index], reply |-> NoReply]
        [] entry.payload = "Normal" /\ Repeated(s, entry) ->
             [s |-> t, reply |-> s.last[tx.client].reply]
        [] entry.payload = "Normal" /\ ~Repeated(s, entry) /\ tx = NoTx -> done
        [] entry.payload = "Normal" /\ ~Repeated(s, entry) /\ tx # NoTx ->
             [s |-> [done.s EXCEPT !.last[tx.client] =
                       [serial |-> tx.serial, reply |-> done.reply]],
              reply |-> done.reply]
=============================================================================
