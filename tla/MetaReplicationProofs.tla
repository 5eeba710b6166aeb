----------------------- MODULE MetaReplicationProofs ------------------------
(***************************************************************************)
(* Proofs about MetaReplication, for every committed log, any nodes and    *)
(* clients and any clocks.                                                 *)
(***************************************************************************)
EXTENDS MetaReplication, WellFoundedInduction, TLAPS

-----------------------------------------------------------------------------
(* The operations of a transaction, one after the other *)

\* A set that contains 0 and with a number its successor contains all up to N.
LEMMA UpTo ==
  ASSUME NEW N \in Nat, NEW T, 0 \in T,
         \A i \in 0 .. N : i \in T /\ i < N => i + 1 \in T
  PROVE  \A i \in 0 .. N : i \in T
<1> SUFFICES ASSUME NEW j \in 0 .. N, j \notin T PROVE FALSE
  OBVIOUS
<1>1. PICK B : B = {i \in 0 .. N : i \notin T}
  OBVIOUS
<1>2. B \subseteq Nat /\ B # {}
  BY <1>1
<1>3. PICK x \in B : \A y \in B : ~(<<y, x>> \in OpToRel(<, Nat))
  BY <1>2, WFMin, NatLessThanWellFounded, Zenon
<1>4. x \in 0 .. N /\ x \notin T /\ x # 0
  BY <1>1, Zenon
<1>5. x - 1 \in 0 .. N /\ x - 1 < N /\ (x - 1) + 1 = x
  BY <1>4
<1>6. x - 1 \in B
  BY <1>1, <1>4, <1>5, Zenon
<1>7. <<x - 1, x>> \in OpToRel(<, Nat)
  BY <1>4, <1>5 DEF OpToRel
<1> QED
  BY <1>3, <1>6, <1>7, Zenon

\* f is the sequence of what is left after each of the operations.
Executes(f, s, ops, now) ==
  /\ f[0] = [s |-> s, replies |-> << >>]
  /\ \A i \in 1 .. Len(ops) : f[i] = txn_execute_operation(f[i - 1], ops[i], now)
  /\ txn_execute_operations(s, ops, now) = f[Len(ops)]

\* txn_execute_operations is what its recursion says: there is such a sequence.
LEMMA Operations ==
  ASSUME NEW s, NEW ops, ops \in Seq(Range(ops)), NEW now
  PROVE  \E f : Executes(f, s, ops, now)
<1> DEFINE N == Len(ops)
           b == [s |-> s, replies |-> << >>]
           Op(acc, i) == txn_execute_operation(acc, ops[i], now)
           T == {n \in 0 .. N : \E f : f[0] = b /\ \A i \in 1 .. n : f[i] = Op(f[i - 1], i)}
           G(f) == [i \in 0 .. N |-> IF i = 0 THEN b ELSE Op(f[i - 1], i)]
<1>1. N \in Nat
  OBVIOUS
<1>2. txn_execute_operations(s, ops, now) = (CHOOSE f : f = G(f))[N]
  BY Zenon DEF txn_execute_operations
<1> HIDE DEF N, b, Op
<1>3. 0 \in T
  <2>1. [i \in {0} |-> b][0] = b /\ \A i \in 1 .. 0 : FALSE
    OBVIOUS
  <2>2. \E f : f[0] = b /\ \A i \in 1 .. 0 : f[i] = Op(f[i - 1], i)
    BY <2>1, Zenon
  <2>3. 0 \in 0 .. N
    BY <1>1
  <2> QED
    BY <2>2, <2>3, Zenon
<1>4. ASSUME NEW n \in 0 .. N, n \in T, n < N PROVE n + 1 \in T
  <2>1. PICK f : f[0] = b /\ \A i \in 1 .. n : f[i] = Op(f[i - 1], i)
    BY <1>4, Zenon
  <2>2. PICK g : g = [i \in 0 .. n + 1 |-> IF i = n + 1 THEN Op(f[n], n + 1) ELSE f[i]]
    OBVIOUS
  <2>3. g[0] = b
    BY <1>1, <2>1, <2>2
  <2>4. ASSUME NEW i \in 1 .. n + 1 PROVE g[i] = Op(g[i - 1], i)
    <3>1. CASE i = n + 1
      <4>1. g[n + 1] = Op(f[n], n + 1) /\ g[n] = f[n] /\ i - 1 = n
        BY <1>1, <2>2, <3>1
      <4> QED
        BY <3>1, <4>1, Zenon
    <3>2. CASE i # n + 1
      <4>1. i \in 1 .. n /\ g[i] = f[i] /\ g[i - 1] = f[i - 1]
        BY <1>1, <2>2, <3>2
      <4> QED
        BY <2>1, <4>1, Zenon
    <3> QED
      BY <3>1, <3>2, Zenon
  <2>5. n + 1 \in 0 .. N
    BY <1>1, <1>4
  <2> QED
    BY <2>3, <2>4, <2>5, Zenon
<1> HIDE DEF T
<1>5. N \in T
  <2>1. \A i \in 0 .. N : i \in T /\ i < N => i + 1 \in T
    BY <1>4, Zenon
  <2>2. \A i \in 0 .. N : i \in T
    BY <1>1, <1>3, <2>1, UpTo, Zenon
  <2>3. N \in 0 .. N
    BY <1>1
  <2> QED
    BY <2>2, <2>3, Zenon
<1>6. PICK f : f[0] = b /\ \A i \in 1 .. N : f[i] = Op(f[i - 1], i)
  BY <1>5, Zenon DEF T
<1>7. PICK g : g = [i \in 0 .. N |-> f[i]]
  OBVIOUS
<1>8. g = G(g)
  <2>1. ASSUME NEW i \in 0 .. N PROVE g[i] = IF i = 0 THEN b ELSE Op(g[i - 1], i)
    <3>1. CASE i = 0
      BY <1>6, <1>7, <3>1, Zenon
    <3>2. CASE i # 0
      <4>1. i \in 1 .. N /\ g[i] = f[i] /\ g[i - 1] = f[i - 1]
        BY <1>1, <1>7, <3>2
      <4> QED
        BY <1>6, <3>2, <4>1, Zenon
    <3> QED
      BY <3>1, <3>2, Zenon
  <2>2. g = [i \in 0 .. N |-> g[i]]
    BY <1>7, Zenon
  <2> QED
    BY <2>1, <2>2, Zenon
<1>9. PICK h : h = CHOOSE q : q = G(q)
  OBVIOUS
<1>10. h = G(h)
  BY <1>8, <1>9, Zenon
<1>11. h[0] = b /\ \A i \in 1 .. N : h[i] = Op(h[i - 1], i)
  <2>1. \A i \in 0 .. N : h[i] = IF i = 0 THEN b ELSE Op(h[i - 1], i)
    BY <1>10, Zenon
  <2>2. 0 \in 0 .. N /\ \A i \in 1 .. N : i \in 0 .. N /\ i # 0
    BY <1>1
  <2> QED
    BY <2>1, <2>2, Zenon
<1> QED
  BY <1>2, <1>9, <1>11, Zenon DEF N, b, Op, Executes

-----------------------------------------------------------------------------
(* What a command may do to a state *)

\* The state t that a command leaves behind after s.
Follows(s, t) ==
  /\ StateOK(t) /\ t.applied = s.applied /\ t.last = s.last
  /\ t.seqs[GenericKV] >= s.seqs[GenericKV]
  /\ \A k \in Keys :
       t.kv[k] = s.kv[k] \/ t.kv[k] = Absent \/ t.kv[k].seq > s.seqs[GenericKV]

\* The names of the parts of a state.
LEMMA Parts ==
  DOMAIN Empty = {"applied", "membership", "nodes", "addrs", "kv", "seqs", "last"}
BY Zenon DEF Empty

\* A command that does nothing.
LEMMA FollowsSelf ==
  ASSUME NEW s, StateOK(s)
  PROVE  Follows(s, s)
<1>1. s.seqs[GenericKV] >= s.seqs[GenericKV]
  BY DEF StateOK, GenericKV, SeqNames
<1> QED
  BY <1>1, Zenon DEF Follows

\* One operation after the other.
LEMMA FollowsBoth ==
  ASSUME NEW s, NEW t, NEW u, StateOK(s), Follows(s, t), Follows(t, u)
  PROVE  Follows(s, u)
<1>1. s.seqs[GenericKV] \in Nat /\ t.seqs[GenericKV] \in Nat /\ u.seqs[GenericKV] \in Nat
  BY Zenon DEF StateOK, Follows, GenericKV, SeqNames
<1>2. /\ t.seqs[GenericKV] >= s.seqs[GenericKV] /\ u.seqs[GenericKV] >= t.seqs[GenericKV]
      /\ StateOK(u) /\ u.applied = s.applied /\ u.last = s.last
  BY Zenon DEF Follows
<1>3. u.seqs[GenericKV] >= s.seqs[GenericKV]
  BY <1>1, <1>2
<1>4. ASSUME NEW k \in Keys
      PROVE  u.kv[k] = s.kv[k] \/ u.kv[k] = Absent \/ u.kv[k].seq > s.seqs[GenericKV]
  <2>1. /\ t.kv[k] = s.kv[k] \/ t.kv[k] = Absent \/ t.kv[k].seq > s.seqs[GenericKV]
        /\ u.kv[k] = t.kv[k] \/ u.kv[k] = Absent \/ u.kv[k].seq > t.seqs[GenericKV]
    BY Zenon DEF Follows
  <2>2. CASE u.kv[k].seq > t.seqs[GenericKV]
    <3>1. u.kv[k].seq \in Nat
      BY Zenon DEF Follows, StateOK
    <3>2. u.kv[k].seq > s.seqs[GenericKV]
      BY <1>1, <1>2, <2>2, <3>1
    <3> QED
      BY <3>2, Zenon
  <2> QED
    BY <2>1, <2>2, Zenon
<1> QED
  BY <1>2, <1>3, <1>4, Zenon DEF Follows

\* A state of which one part is replaced.
LEMMA OnePart ==
  ASSUME NEW s, StateOK(s), NEW f, NEW x, NEW t, t = [s EXCEPT ![f] = x]
  PROVE  /\ DOMAIN t = DOMAIN s
         /\ \A g \in DOMAIN s : g # f => t[g] = s[g]
         /\ f \in DOMAIN s => t[f] = x
OBVIOUS

\* A counter is incremented.
LEMMA IncrFollows ==
  ASSUME NEW s, StateOK(s), NEW name \in SeqNames
  PROVE  /\ Follows(s, txn_incr_seq(s, name))
         /\ txn_incr_seq(s, name).kv = s.kv
         /\ txn_incr_seq(s, GenericKV).seqs[GenericKV] = s.seqs[GenericKV] + 1
<1>1. PICK q : q = [s.seqs EXCEPT ![name] = @ + 1]
  OBVIOUS
<1>2. PICK t : t = txn_incr_seq(s, name)
  OBVIOUS
<1>3. t = [s EXCEPT !["seqs"] = q]
  BY <1>1, <1>2, Zenon DEF txn_incr_seq
<1>4. /\ DOMAIN t = DOMAIN s /\ t["applied"] = s["applied"] /\ t["last"] = s["last"]
      /\ t["kv"] = s["kv"] /\ t["seqs"] = q
  BY <1>3, OnePart, Parts, Zenon DEF StateOK
<1>5. q \in [SeqNames -> Nat] /\ q[name] = s.seqs[name] + 1 /\ s.seqs[name] \in Nat
      /\ \A p \in SeqNames : p # name => q[p] = s.seqs[p]
  BY <1>1 DEF StateOK
<1>6. q[GenericKV] >= s.seqs[GenericKV]
  BY <1>5 DEF GenericKV, SeqNames, StateOK
<1>7. StateOK(t)
  BY <1>4, <1>5, Zenon DEF StateOK
<1>8. Follows(s, t) /\ t.kv = s.kv
  BY <1>4, <1>6, <1>7, Zenon DEF Follows
<1>9. txn_incr_seq(s, GenericKV).seqs[GenericKV] = s.seqs[GenericKV] + 1
  BY Parts, Zenon DEF txn_incr_seq, StateOK, SeqNames
<1> QED
  BY <1>2, <1>8, <1>9, Zenon

\* A record is put or removed.
LEMMA OneRecord ==
  ASSUME NEW s, StateOK(s), NEW key \in Keys, NEW v, v.seq \in Nat
  PROVE  LET t == [s EXCEPT !.kv[key] = v]
         IN  /\ StateOK(t) /\ t.applied = s.applied /\ t.last = s.last /\ t.seqs = s.seqs
             /\ t.kv[key] = v /\ \A k \in Keys : k # key => t.kv[k] = s.kv[k]
<1>1. PICK m : m = [s.kv EXCEPT ![key] = v]
  OBVIOUS
<1>2. PICK t : t = [s EXCEPT !.kv[key] = v]
  OBVIOUS
<1>3. t = [s EXCEPT !["kv"] = m]
  BY <1>1, <1>2, Zenon
<1>4. /\ DOMAIN t = DOMAIN s /\ t["applied"] = s["applied"] /\ t["last"] = s["last"]
      /\ t["seqs"] = s["seqs"] /\ t["kv"] = m
  BY <1>3, OnePart, Parts, Zenon DEF StateOK
<1>5. DOMAIN m = Keys /\ m[key] = v /\ \A k \in Keys : k # key => m[k] = s.kv[k]
  BY <1>1, Zenon DEF StateOK
<1>6. StateOK(t)
  BY <1>4, <1>5, Zenon DEF StateOK
<1> QED
  BY <1>2, <1>4, <1>5, <1>6, Zenon

\* Absent is the record that is not there.
LEMMA AbsentRecord == Absent.seq = 0 /\ Absent.expire = Never
BY Zenon DEF Absent

\* A record is updated.
LEMMA UpdateFollows ==
  ASSUME NEW s, StateOK(s), NEW key \in Keys, NEW prev, NEW up
  PROVE  Follows(s, txn_sub_tree_do_update(s, key, prev, up).s)
<1>1. PICK t : t = txn_incr_seq(s, GenericKV)
  OBVIOUS
<1>2. PICK new : new = [seq    |-> t.seqs[GenericKV],
                        data   |-> IF up.op = "AsIs" THEN prev.data ELSE up.val,
                        expire |-> up.expire]
  OBVIOUS
<1>3. PICK d : d = txn_sub_tree_do_update(s, key, prev, up)
  OBVIOUS
<1>4. d.s \in {[s EXCEPT !.kv[key] = Absent], s, [t EXCEPT !.kv[key] = new]}
  BY <1>1, <1>2, <1>3, Zenon DEF txn_sub_tree_do_update
<1>5. s.seqs[GenericKV] \in Nat
  BY Zenon DEF StateOK, GenericKV, SeqNames
<1>6. CASE d.s = [s EXCEPT !.kv[key] = Absent]
  <2>1. PICK u : u = [s EXCEPT !.kv[key] = Absent]
    OBVIOUS
  <2>2. /\ StateOK(u) /\ u.applied = s.applied /\ u.last = s.last /\ u.seqs = s.seqs
        /\ u.kv[key] = Absent /\ \A k \in Keys : k # key => u.kv[k] = s.kv[k]
    BY <2>1, OneRecord, AbsentRecord
  <2>3. u.seqs[GenericKV] >= s.seqs[GenericKV]
    BY <1>5, <2>2
  <2>4. Follows(s, u)
    BY <2>2, <2>3, Zenon DEF Follows
  <2> QED
    BY <1>3, <1>6, <2>1, <2>4, Zenon
<1>7. CASE d.s = s
  BY <1>3, <1>7, FollowsSelf, Zenon
<1>8. CASE d.s = [t EXCEPT !.kv[key] = new]
  <2>1. PICK u : u = [t EXCEPT !.kv[key] = new]
    OBVIOUS
  <2>2. /\ StateOK(t) /\ t.applied = s.applied /\ t.last = s.last /\ t.kv = s.kv
        /\ t.seqs[GenericKV] = s.seqs[GenericKV] + 1
    <3>1. GenericKV \in SeqNames
      BY Zenon DEF SeqNames
    <3> QED
      BY <1>1, <3>1, IncrFollows, Zenon DEF Follows
  <2>3. new.seq = s.seqs[GenericKV] + 1 /\ new.seq \in Nat
    BY <1>2, <1>5, <2>2
  <2>4. /\ StateOK(u) /\ u.applied = t.applied /\ u.last = t.last /\ u.seqs = t.seqs
        /\ u.kv[key] = new /\ \A k \in Keys : k # key => u.kv[k] = t.kv[k]
    BY <2>1, <2>2, <2>3, OneRecord
  <2>5. u.seqs[GenericKV] >= s.seqs[GenericKV] /\ new.seq > s.seqs[GenericKV]
    BY <1>5, <2>2, <2>3, <2>4
  <2>6. Follows(s, u)
    BY <2>2, <2>4, <2>5, Zenon DEF Follows
  <2> QED
    BY <1>3, <1>8, <2>1, <2>6, Zenon
<1> QED
  BY <1>3, <1>4, <1>6, <1>7, <1>8, Zenon

\* An upsert.
LEMMA UpsertFollows ==
  ASSUME NEW s, StateOK(s), NEW key \in Keys, NEW match, NEW up, NEW now
  PROVE  Follows(s, txn_sub_tree_upsert(s, key, match, up, now).s)
<1>1. PICK prev : prev = unexpired(s.kv[key], now)
  OBVIOUS
<1>2. txn_sub_tree_upsert(s, key, match, up, now).s \in {txn_sub_tree_do_update(s, key, prev, up).s, s}
  BY <1>1, Zenon DEF txn_sub_tree_upsert
<1> QED
  BY <1>2, UpdateFollows, FollowsSelf, Zenon

\* One operation of a transaction.
LEMMA OperationFollows ==
  ASSUME NEW acc, DOMAIN acc = {"s", "replies"}, StateOK(acc.s), NEW op, op.key \in Keys, NEW now
  PROVE  /\ Follows(acc.s, txn_execute_operation(acc, op, now).s)
         /\ DOMAIN txn_execute_operation(acc, op, now) = {"s", "replies"}
<1>1. PICK up : up = [op |-> IF op.kind = "put" THEN "Update" ELSE "Delete",
                      val |-> op.val, expire |-> Never]
  OBVIOUS
<1>2. PICK did : did = txn_sub_tree_upsert(acc.s, op.key, MatchAny, up, now)
  OBVIOUS
<1>3. Follows(acc.s, did.s)
  BY <1>2, UpsertFollows, Zenon
<1>4. PICK r : r = txn_execute_operation(acc, op, now)
  OBVIOUS
<1>5. (r.s = acc.s \/ r.s = did.s) /\ DOMAIN r = {"s", "replies"}
  BY <1>1, <1>2, <1>4, Zenon DEF txn_execute_operation
<1> QED
  BY <1>3, <1>4, <1>5, FollowsSelf, Zenon

\* The operations of a transaction.
LEMMA OperationsFollow ==
  ASSUME NEW s, StateOK(s), NEW ops, ops \in Seq(Range(ops)),
         \A i \in DOMAIN ops : ops[i].key \in Keys, NEW now
  PROVE  Follows(s, txn_execute_operations(s, ops, now).s)
<1>0. PICK f : Executes(f, s, ops, now)
  BY Operations, Zenon
<1>1. /\ f[0] = [s |-> s, replies |-> << >>]
      /\ \A i \in 1 .. Len(ops) : f[i] = txn_execute_operation(f[i - 1], ops[i], now)
      /\ txn_execute_operations(s, ops, now) = f[Len(ops)]
  BY <1>0, Zenon DEF Executes
<1>2. PICK N : N = Len(ops)
  OBVIOUS
<1>3. N \in Nat /\ DOMAIN ops = 1 .. N
  BY <1>2
<1>4. PICK T : T = {i \in 0 .. N : DOMAIN f[i] = {"s", "replies"} /\ Follows(s, f[i].s)}
  OBVIOUS
<1>5. 0 \in T
  <2>1. DOMAIN f[0] = {"s", "replies"} /\ f[0].s = s
    BY <1>1
  <2>2. 0 \in 0 .. N
    BY <1>3
  <2> QED
    BY <1>4, <2>1, <2>2, FollowsSelf, Zenon
<1>6. ASSUME NEW i \in 0 .. N, i \in T, i < N PROVE i + 1 \in T
  <2>1. i + 1 \in 1 .. N /\ i + 1 \in 0 .. N /\ (i + 1) - 1 = i
    BY <1>3, <1>6
  <2>2. f[i + 1] = txn_execute_operation(f[i], ops[i + 1], now) /\ ops[i + 1].key \in Keys
    BY <1>1, <1>2, <1>3, <2>1, Zenon
  <2>3. DOMAIN f[i] = {"s", "replies"} /\ Follows(s, f[i].s)
    BY <1>4, <1>6, Zenon
  <2>4. StateOK(f[i].s)
    BY <2>3, Zenon DEF Follows
  <2>5. DOMAIN f[i + 1] = {"s", "replies"} /\ Follows(f[i].s, f[i + 1].s)
    BY <2>2, <2>3, <2>4, OperationFollows, Zenon
  <2>6. Follows(s, f[i + 1].s)
    BY <2>3, <2>5, FollowsBoth, Zenon
  <2> QED
    BY <1>4, <2>1, <2>5, <2>6, Zenon
<1>7. \A i \in 0 .. N : i \in T /\ i < N => i + 1 \in T
  BY <1>6, Zenon
<1>8. N \in 0 .. N /\ \A i \in 0 .. N : i \in T
  <2>1. \A i \in 0 .. N : i \in T
    BY <1>3, <1>5, <1>7, UpTo, Zenon
  <2> QED
    BY <1>3, <2>1
<1> QED
  BY <1>1, <1>2, <1>4, <1>8, Zenon

\* A command.
LEMMA CommandFollows ==
  ASSUME NEW s, StateOK(s), NEW cmd, IsCommand(cmd), NEW now
  PROVE  Follows(s, apply_cmd(s, cmd, now).s)
<1>1. CASE cmd.kind = "IncrSeq" /\ cmd.name \in SeqNames
  <2>1. apply_cmd(s, cmd, now).s = txn_incr_seq(s, cmd.name)
    BY <1>1, Zenon DEF apply_cmd, apply_incr_seq_cmd
  <2> QED
    BY <1>1, <2>1, IncrFollows, Zenon
<1>2. CASE cmd.kind \in {"Add", "Remove"} /\ cmd.space \in {"nodes", "addrs"}
  <2>1. PICK x : apply_cmd(s, cmd, now).s = [s EXCEPT ![cmd.space] = x]
    <3>1. CASE cmd.kind = "Add"
      BY <3>1, Zenon DEF apply_cmd, apply_add_cmd
    <3>2. CASE cmd.kind = "Remove"
      BY <3>2, Zenon DEF apply_cmd, apply_remove_cmd
    <3> QED
      BY <1>2, <3>1, <3>2, Zenon
  <2>2. PICK t : t = apply_cmd(s, cmd, now).s
    OBVIOUS
  <2>3. /\ DOMAIN t = DOMAIN s /\ t["applied"] = s["applied"] /\ t["last"] = s["last"]
        /\ t["kv"] = s["kv"] /\ t["seqs"] = s["seqs"]
    BY <1>2, <2>1, <2>2, OnePart, Parts, Zenon DEF StateOK
  <2>4. StateOK(t)
    BY <2>3, Zenon DEF StateOK
  <2>5. Follows(s, s)
    BY FollowsSelf, Zenon
  <2>6. Follows(s, t)
    BY <2>3, <2>4, <2>5, Zenon DEF Follows
  <2> QED
    BY <2>2, <2>6, Zenon
<1>3. CASE cmd.kind = "UpsertKV" /\ cmd.key \in Keys
  <2>1. apply_cmd(s, cmd, now).s = txn_sub_tree_upsert(s, cmd.key, cmd.match, cmd, now).s
    BY <1>3, Zenon DEF apply_cmd, apply_update_kv_cmd
  <2> QED
    BY <1>3, <2>1, UpsertFollows, Zenon
<1>4. CASE /\ cmd.kind = "Transaction"
           /\ \A ops \in {cmd.if_then, cmd.else_then} :
                ops \in Seq(Range(ops)) /\ \A i \in DOMAIN ops : ops[i].key \in Keys
  <2>1. apply_cmd(s, cmd, now) = apply_txn_cmd(s, cmd, now)
    BY <1>4, Zenon DEF apply_cmd
  <2>2. PICK ops \in {cmd.if_then, cmd.else_then} :
          apply_txn_cmd(s, cmd, now).s = txn_execute_operations(s, ops, now).s
    BY Zenon DEF apply_txn_cmd
  <2> QED
    BY <1>4, <2>1, <2>2, OperationsFollow, Zenon
<1> QED
  BY <1>1, <1>2, <1>3, <1>4, Zenon DEF IsCommand

-----------------------------------------------------------------------------
(* What an entry of the log does *)

Txids == [client : Clients, serial : Nat \ {0}]

\* An entry has a command if it is a normal one, and only those have a txid.
LEMMA EntryTypes ==
  ASSUME NEW e \in Entries
  PROVE  /\ e.txid = NoTx \/ (e.txid # NoTx /\ e.txid \in Txids /\ e.payload = "Normal")
         /\ e.payload \in {"Blank", "Membership", "Normal"}
         /\ e.payload = "Normal" => IsCommand(e.cmd)
<1>1. CASE e \in Others
  BY <1>1, CommandsAssumption, Zenon
<1>2. CASE e \in Requests
  <2>1. e.payload = "Normal" /\ e.txid \in Txids /\ e.cmd \in Cmds
    BY <1>2, Zenon DEF Requests, Txids
  <2>2. Txids \subseteq [client : Clients, serial : Nat]
    BY Zenon DEF Txids
  <2>3. e.txid # NoTx
    BY <2>1, <2>2, ReplicationAssumption, Zenon
  <2> QED
    BY <2>1, <2>3, CommandsAssumption, Zenon
<1> QED
  BY <1>1, <1>2, Zenon DEF Entries

\* The client and the number of a txid.
LEMMA TxidTypes ==
  ASSUME NEW x \in Txids
  PROVE  x.client \in Clients /\ x.serial \in Nat /\ x.serial # 0 /\ x.serial > 0
BY DEF Txids

\* Two txids are the same if client and number are.
LEMMA TxidEqual ==
  ASSUME NEW x \in Txids, NEW y \in Txids, x.client = y.client, x.serial = y.serial
  PROVE  x = y
BY DEF Txids

\* The index of the applied log is noted.
LEMMA AppliedPart ==
  ASSUME NEW s, StateOK(s), NEW x
  PROVE  LET t == [s EXCEPT !.applied = x]
         IN  /\ StateOK(t) /\ t.kv = s.kv /\ t.seqs = s.seqs /\ t.last = s.last /\ t.applied = x
<1>0. PICK t : t = [s EXCEPT !["applied"] = x]
  OBVIOUS
<1>1. /\ DOMAIN t = DOMAIN s /\ t["last"] = s["last"] /\ t["kv"] = s["kv"]
      /\ t["seqs"] = s["seqs"] /\ t["applied"] = x
  BY <1>0, OnePart, Parts, Zenon DEF StateOK
<1>2. StateOK(t)
  BY <1>1, Zenon DEF StateOK
<1> QED
  BY <1>0, <1>1, <1>2, Zenon

\* The index of the last membership log is noted.
LEMMA MembershipPart ==
  ASSUME NEW s, StateOK(s), NEW x
  PROVE  LET t == [s EXCEPT !.membership = x]
         IN  /\ StateOK(t) /\ t.kv = s.kv /\ t.seqs = s.seqs /\ t.last = s.last
             /\ t.applied = s.applied
<1>0. PICK t : t = [s EXCEPT !["membership"] = x]
  OBVIOUS
<1>1. /\ DOMAIN t = DOMAIN s /\ t["last"] = s["last"] /\ t["kv"] = s["kv"]
      /\ t["seqs"] = s["seqs"] /\ t["applied"] = s["applied"]
  BY <1>0, OnePart, Parts, Zenon DEF StateOK
<1>2. StateOK(t)
  BY <1>1, Zenon DEF StateOK
<1> QED
  BY <1>0, <1>1, <1>2, Zenon

\* A state with another last reply of one client, and all that differs in it.
SetLast(s, c, x) == [s EXCEPT !.last[c] = x]
LastSet(s, c, x, t) ==
  /\ StateOK(t) /\ t.kv = s.kv /\ t.seqs = s.seqs /\ t.applied = s.applied
  /\ t.last[c] = x /\ \A b \in Clients : b # c => t.last[b] = s.last[b]

\* The last reply of a client is noted.
LEMMA LastPart ==
  ASSUME NEW s, StateOK(s), NEW c \in Clients, NEW x
  PROVE  LastSet(s, c, x, SetLast(s, c, x))
<1>0. PICK t : t = SetLast(s, c, x)
  BY Zenon
<1>1. PICK l : l = [s.last EXCEPT ![c] = x]
  BY Zenon
<1>2. t = [s EXCEPT !["last"] = l]
  BY <1>0, <1>1, Zenon DEF SetLast
<1>3. /\ DOMAIN t = DOMAIN s /\ t["last"] = l /\ t["kv"] = s["kv"] /\ t["seqs"] = s["seqs"]
      /\ t["applied"] = s["applied"]
  BY <1>2, OnePart, Parts, Zenon DEF StateOK
<1>4. DOMAIN l = Clients /\ l[c] = x /\ \A b \in Clients : b # c => l[b] = s.last[b]
  BY <1>1, Zenon DEF StateOK
<1>5. StateOK(t)
  BY <1>3, <1>4, Zenon DEF StateOK
<1>6. LastSet(s, c, x, t)
  BY <1>3, <1>4, <1>5, Zenon DEF LastSet
<1> QED
  BY <1>0, <1>6, Zenon

\* The records that an entry may leave.
Renumbered(s, t) ==
  \A k \in Keys : t.kv[k] = s.kv[k] \/ t.kv[k] = Absent \/ t.kv[k].seq > s.seqs[GenericKV]

\* What applying an entry leaves of the records and the last replies.
Applies(s, index, e, d) ==
  /\ StateOK(d.s) /\ d.s.applied = index /\ Renumbered(s, d.s)
  /\ Repeated(s, e) => d.s.last = s.last /\ d.reply = s.last[e.txid.client].reply
  /\ e.txid = NoTx => d.s.last = s.last
  /\ ~Repeated(s, e) /\ e.txid # NoTx =>
       /\ d.s.last[e.txid.client] = [serial |-> e.txid.serial, reply |-> d.reply]
       /\ \A c \in Clients : c # e.txid.client => d.s.last[c] = s.last[c]

\* StateMachine::apply keeps the records numbered and notes the last replies.
LEMMA ApplyFollows ==
  ASSUME NEW s, StateOK(s), NEW index, NEW e \in Entries, NEW now, NEW d,
         d = apply(s, index, e, now)
  PROVE  Applies(s, index, e, d)
<1>1. PICK t : t = [s EXCEPT !.applied = index]
  OBVIOUS
<1>2. StateOK(t) /\ t.kv = s.kv /\ t.seqs = s.seqs /\ t.last = s.last /\ t.applied = index
  BY <1>1, AppliedPart, Zenon
<1>3. Renumbered(s, t)
  BY <1>2, Zenon DEF Renumbered
<1>4. CASE e.payload = "Blank"
  <2>1. d.s = t /\ e.txid = NoTx /\ ~Repeated(s, e)
    BY <1>1, <1>4, EntryTypes, Zenon DEF apply, Repeated
  <2> QED
    BY <1>2, <1>3, <2>1, Zenon DEF Applies
<1>5. CASE e.payload = "Membership"
  <2>1. d.s = [t EXCEPT !.membership = index] /\ e.txid = NoTx /\ ~Repeated(s, e)
    BY <1>1, <1>5, EntryTypes, Zenon DEF apply, Repeated
  <2>2. StateOK(d.s) /\ d.s.kv = t.kv /\ d.s.last = t.last /\ d.s.applied = t.applied
    BY <1>2, <2>1, MembershipPart
  <2>3. Renumbered(s, d.s)
    BY <1>3, <2>2, Zenon DEF Renumbered
  <2> QED
    BY <1>2, <2>1, <2>2, <2>3, Zenon DEF Applies
<1>6. CASE e.payload = "Normal" /\ Repeated(s, e)
  <2>1. d.s = t /\ d.reply = s.last[e.txid.client].reply /\ e.txid # NoTx
    BY <1>1, <1>6, Zenon DEF apply, Repeated
  <2> QED
    BY <1>2, <1>3, <1>6, <2>1, Zenon DEF Applies
<1>7. CASE e.payload = "Normal" /\ ~Repeated(s, e)
  <2>1. PICK done : done = apply_cmd(t, e.cmd, now)
    OBVIOUS
  <2>2. Follows(t, done.s)
    BY <1>2, <1>7, <2>1, EntryTypes, CommandFollows, Zenon
  <2>3. /\ StateOK(done.s) /\ done.s.applied = index /\ done.s.last = s.last
        /\ Renumbered(s, done.s)
    BY <1>2, <2>2, Zenon DEF Follows, Renumbered
  <2>4. CASE e.txid = NoTx
    <3>1. d = done
      BY <1>1, <1>7, <2>1, <2>4, Zenon DEF apply
    <3> QED
      BY <1>7, <2>3, <2>4, <3>1, Zenon DEF Repeated, Applies
  <2>5. CASE e.txid # NoTx
    <3>1. PICK x : x = [serial |-> e.txid.serial, reply |-> done.reply]
      OBVIOUS
    <3>2. d.s = [done.s EXCEPT !.last[e.txid.client] = x] /\ d.reply = done.reply
      BY <1>1, <1>7, <2>1, <2>5, <3>1, Zenon DEF apply
    <3>3. e.txid.client \in Clients
      BY <2>5, EntryTypes, TxidTypes, Zenon
    <3>4. /\ StateOK(d.s) /\ d.s.kv = done.s.kv /\ d.s.applied = done.s.applied
          /\ d.s.last[e.txid.client] = x
          /\ \A c \in Clients : c # e.txid.client => d.s.last[c] = done.s.last[c]
      <4>1. d.s = SetLast(done.s, e.txid.client, x)
        BY <3>2, Zenon DEF SetLast
      <4>2. LastSet(done.s, e.txid.client, x, SetLast(done.s, e.txid.client, x))
        BY <2>3, <3>3, LastPart, Zenon
      <4> QED
        BY <4>1, <4>2, Zenon DEF LastSet
    <3>5. Renumbered(s, d.s)
      BY <2>3, <3>4, Zenon DEF Renumbered
    <3> QED
      BY <1>7, <2>3, <2>5, <3>1, <3>2, <3>4, <3>5, Zenon DEF Applies
  <2> QED
    BY <2>4, <2>5, Zenon
<1> QED
  BY <1>4, <1>5, <1>6, <1>7, EntryTypes, Zenon

-----------------------------------------------------------------------------
(* The history of a node *)

\* What a node has executed, skipped and noted as the last request of a client.
HistoryOK(n) == (\A c \in Clients : LastOK(n, c)) /\ RanOK(n) /\ SkippedOK(n)

\* The txid of a log.
LEMMA LogTypes ==
  ASSUME TypeOK, NEW i \in 1 .. Len(log)
  PROVE  log[i] \in Entries /\ (log[i].txid = NoTx \/ log[i].txid \in Txids)
<1>1. log[i] \in Entries
  BY DEF TypeOK
<1> QED
  BY <1>1, EntryTypes, Zenon

\* The logs that a node executed are among those it applied.
LEMMA NodeTypes ==
  ASSUME TypeOK, NEW n \in Nodes
  PROVE  /\ StateOK(sm[n]) /\ sm[n].applied \in Nat /\ sm[n].applied <= Len(log) /\ Len(log) \in Nat
         /\ ran[n] \subseteq 1 .. sm[n].applied /\ ran[n] \subseteq 1 .. Len(log)
         /\ Len(replies[n]) = sm[n].applied /\ replies[n] \in Seq(Range(replies[n]))
         /\ clock[n] \in 0 .. MaxTime
<1>1. NodeOK(n) /\ log \in Seq(Entries)
  BY Zenon DEF TypeOK
<1>2. Len(log) \in Nat
  BY <1>1
<1> QED
  BY <1>1, <1>2 DEF NodeOK

\* The history of m becomes the history of n: a snapshot, or (with m = n) a step
\* that leaves the node alone.  The log may have grown.
LEMMA HistoryKept ==
  ASSUME NEW n \in Nodes, NEW m \in Nodes, TypeOK, HistoryOK(m),
         sm'[n] = sm[m], ran'[n] = ran[m], replies'[n] = replies[m],
         \A i \in 1 .. Len(log) : log'[i] = log[i]
  PROVE  HistoryOK(n)'
<1>1. \A k \in ran[m] : k \in 1 .. Len(log) /\ log'[k] = log[k]
  BY NodeTypes, Zenon
<1>2. \A j \in 1 .. sm[m].applied : log'[j] = log[j]
  BY NodeTypes
<1>3. \A c, k : k \in ran[m] => (By(c, k)' <=> By(c, k))
  BY <1>1, Zenon DEF By
<1>4. ASSUME NEW c \in Clients
      PROVE  LastOK(n, c)'
  <2>1. LastOK(m, c)
    BY Zenon DEF HistoryOK
  <2>2. CASE sm[m].last[c].serial = 0 /\ \A k \in ran[m] : ~By(c, k)
    BY <1>3, <2>2, Zenon DEF LastOK
  <2>3. CASE \E k \in ran[m] :
               /\ By(c, k) /\ \A j \in ran[m] : k < j => ~By(c, j)
               /\ sm[m].last[c] = [serial |-> log[k].txid.serial, reply |-> replies[m][k]]
    <3>1. PICK k \in ran[m] :
            /\ By(c, k) /\ \A j \in ran[m] : k < j => ~By(c, j)
            /\ sm[m].last[c] = [serial |-> log[k].txid.serial, reply |-> replies[m][k]]
      BY <2>3, Zenon
    <3>2. /\ By(c, k)' /\ \A j \in ran[m] : k < j => ~By(c, j)'
          /\ sm[m].last[c] = [serial |-> log'[k].txid.serial, reply |-> replies[m][k]]
      BY <1>1, <1>3, <3>1, Zenon
    <3> QED
      BY <3>2, Zenon DEF LastOK
  <2> QED
    BY <2>1, <2>2, <2>3, Zenon DEF LastOK
<1>5. RanOK(n)'
  <2>1. SUFFICES ASSUME NEW k \in ran[m], NEW j \in ran[m], k < j,
                        log[k].txid # NoTx, log[k].txid = log[j].txid
                 PROVE  \E i \in ran[m] : /\ k < i /\ i < j /\ By(log[j].txid.client, i)'
                                          /\ log'[i].txid # log[j].txid
    BY <1>1 DEF RanOK
  <2>2. PICK i \in ran[m] : /\ k < i /\ i < j /\ By(log[j].txid.client, i)
                            /\ log[i].txid # log[j].txid
    BY <2>1, Zenon DEF RanOK, HistoryOK
  <2> QED
    BY <1>1, <1>3, <2>2, Zenon
<1>6. SkippedOK(n)'
  <2>1. SUFFICES ASSUME NEW j \in (1 .. sm[m].applied) \ ran[m]
                 PROVE  /\ log[j].txid # NoTx
                        /\ \E k \in ran[m] :
                             /\ k < j /\ log'[k].txid = log[j].txid /\ replies[m][k] = replies[m][j]
                             /\ \A i \in ran[m] : k < i /\ i < j => ~By(log[j].txid.client, i)'
    BY <1>2, Zenon DEF SkippedOK
  <2>2. log[j].txid # NoTx
    BY Zenon DEF SkippedOK, HistoryOK
  <2>3. PICK k \in ran[m] :
          /\ k < j /\ log[k].txid = log[j].txid /\ replies[m][k] = replies[m][j]
          /\ \A i \in ran[m] : k < i /\ i < j => ~By(log[j].txid.client, i)
    BY Zenon DEF SkippedOK, HistoryOK
  <2>4. k < j /\ log'[k].txid = log[j].txid /\ replies[m][k] = replies[m][j]
    BY <1>1, <2>3, Zenon
  <2>5. \A i \in ran[m] : k < i /\ i < j => ~By(log[j].txid.client, i)'
    BY <1>2, <1>3, <2>3, Zenon
  <2> QED
    BY <2>2, <2>4, <2>5, Zenon
<1> QED
  BY <1>4, <1>5, <1>6, Zenon DEF HistoryOK

\* The indexes up to an applied one, and the one that apply comes to next.
LEMMA NextIndex ==
  ASSUME NEW a \in Nat, NEW z \in Nat, a + 1 \in 1 .. z
  PROVE  /\ \A k \in 1 .. a : k < a + 1 /\ ~(a + 1 < k) /\ k \in 1 .. z
         /\ a + 1 \notin 1 .. a /\ ~(a + 1 < a + 1)
OBVIOUS

\* StateMachine::apply keeps the history of the node: a request that is the last
\* one of its client once more is skipped, every other is executed and noted.
LEMMA ApplyHistory ==
  ASSUME NEW n \in Nodes, TypeOK, HistoryOK(n), log' = log,
         NEW a, a = sm[n].applied, a + 1 <= Len(log), NEW e, e = log[a + 1],
         NEW d, d = apply(sm[n], a + 1, e, clock[n]),
         sm'[n] = d.s, replies'[n] = Append(replies[n], d.reply),
         ran'[n] = IF Repeated(sm[n], e) THEN ran[n] ELSE ran[n] \cup {a + 1}
  PROVE  HistoryOK(n)'
<1>1. /\ StateOK(sm[n]) /\ a \in Nat /\ a + 1 \in 1 .. Len(log) /\ ran[n] \subseteq 1 .. a
      /\ Len(replies[n]) = a /\ replies[n] \in Seq(Range(replies[n]))
  BY NodeTypes
<1>2. e \in Entries /\ (e.txid = NoTx \/ e.txid \in Txids)
  BY <1>1, LogTypes, Zenon
<1>3. /\ d.s.applied = a + 1
      /\ Repeated(sm[n], e) => d.s.last = sm[n].last /\ d.reply = sm[n].last[e.txid.client].reply
      /\ e.txid = NoTx => d.s.last = sm[n].last
      /\ ~Repeated(sm[n], e) /\ e.txid # NoTx =>
           /\ d.s.last[e.txid.client] = [serial |-> e.txid.serial, reply |-> d.reply]
           /\ \A c \in Clients : c # e.txid.client => d.s.last[c] = sm[n].last[c]
  <2>1. Applies(sm[n], a + 1, e, d)
    BY <1>1, <1>2, ApplyFollows, Zenon
  <2> QED
    BY <2>1, ZenonT(30) DEF Applies
<1>4. PICK q : q = Append(replies[n], d.reply)
  BY Zenon
<1>5. q[a + 1] = d.reply /\ \A k \in 1 .. a : q[k] = replies[n][k]
  BY <1>1, <1>4
<1>6. /\ \A k \in ran[n] : k \in 1 .. a /\ k < a + 1 /\ ~(a + 1 < k) /\ q[k] = replies[n][k] /\ k \in 1 .. Len(log)
      /\ a + 1 \notin ran[n] /\ ~(a + 1 < a + 1)
  <2>1. Len(log) \in Nat
    <3>1. log \in Seq(Entries)
      BY Zenon DEF TypeOK
    <3> QED
      BY <3>1
  <2> QED
    BY <1>1, <1>5, <2>1, NextIndex, Zenon
<1>7. replies'[n] = q /\ sm'[n].applied = a + 1 /\ sm'[n].last = d.s.last
  BY <1>3, <1>4, Zenon
<1>8. \A k \in ran[n] : log[k].txid = NoTx \/ log[k].txid \in Txids
  BY <1>6, LogTypes, Zenon
<1>9. \A c, k : By(c, k)' <=> By(c, k)
  BY Zenon DEF By
<1>10. \A c \in Clients : LastOK(n, c)
  BY Zenon DEF HistoryOK
\* What the node has noted of the client, and what it has executed last for it.
<1>11. ASSUME NEW c \in Clients, c = e.txid.client, e.txid # NoTx,
              Repeated(sm[n], e) \/ \E k \in ran[n] : By(c, k)
       PROVE  \E k \in ran[n] :
                /\ By(c, k) /\ \A j \in ran[n] : k < j => ~By(c, j)
                /\ sm[n].last[c].serial = log[k].txid.serial /\ sm[n].last[c].reply = replies[n][k]
  <2>1. e.txid.serial # 0
    BY <1>2, <1>11, TxidTypes, Zenon
  <2>2. ~(sm[n].last[c].serial = 0 /\ \A k \in ran[n] : ~By(c, k))
    BY <1>11, <2>1, Zenon DEF Repeated
  <2>3. PICK k \in ran[n] :
          /\ By(c, k) /\ \A j \in ran[n] : k < j => ~By(c, j)
          /\ sm[n].last[c] = [serial |-> log[k].txid.serial, reply |-> replies[n][k]]
    BY <1>10, <2>2, Zenon DEF LastOK
  <2>4. sm[n].last[c].serial = log[k].txid.serial /\ sm[n].last[c].reply = replies[n][k]
    BY <2>3
  <2> QED
    BY <2>3, <2>4, Zenon
<1>12. ASSUME NEW c \in Clients
       PROVE  \/ ran'[n] = ran[n] /\ sm'[n].last[c] = sm[n].last[c]
              \/ ran'[n] = ran[n] \cup {a + 1} /\ ~By(c, a + 1) /\ sm'[n].last[c] = sm[n].last[c]
              \/ /\ ran'[n] = ran[n] \cup {a + 1} /\ By(c, a + 1)
                 /\ sm'[n].last[c] = [serial |-> e.txid.serial, reply |-> d.reply]
  <2>1. CASE Repeated(sm[n], e)
    BY <1>3, <1>7, <2>1, Zenon
  <2>2. CASE ~Repeated(sm[n], e) /\ (e.txid = NoTx \/ c # e.txid.client)
    <3>1. ran'[n] = ran[n] \cup {a + 1} /\ ~By(c, a + 1)
      BY <2>2, ZenonT(30) DEF By
    <3>2. sm'[n].last[c] = sm[n].last[c]
      BY <1>3, <1>7, <2>2, ZenonT(30)
    <3> QED
      BY <3>1, <3>2, ZenonT(30)
  <2>3. CASE ~Repeated(sm[n], e) /\ e.txid # NoTx /\ c = e.txid.client
    BY <1>3, <1>7, <2>3, Zenon DEF By
  <2> QED
    BY <2>1, <2>2, <2>3, Zenon
<1>13. ASSUME NEW c \in Clients
       PROVE  LastOK(n, c)'
  <2>1. CASE ran'[n] = ran[n] \cup {a + 1} /\ By(c, a + 1) /\
             sm'[n].last[c] = [serial |-> e.txid.serial, reply |-> d.reply]
    <3>1. a + 1 \in ran'[n] /\ \A j \in ran'[n] : ~(a + 1 < j)
      BY <1>6, <2>1, Zenon
    <3>2. sm'[n].last[c] = [serial |-> log'[a + 1].txid.serial, reply |-> replies'[n][a + 1]]
      BY <1>5, <1>7, <2>1, Zenon
    <3> QED
      BY <1>9, <2>1, <3>1, <3>2, Zenon DEF LastOK
  <2>2. CASE /\ sm'[n].last[c] = sm[n].last[c]
             /\ ran'[n] = ran[n] \/ (ran'[n] = ran[n] \cup {a + 1} /\ ~By(c, a + 1))
    <3>1. \A k \in ran'[n] : k \in ran[n] \/ ~By(c, k)
      BY <2>2, Zenon
    <3>2. ran[n] \subseteq ran'[n]
      BY <2>2, Zenon
    <3>3. CASE sm[n].last[c].serial = 0 /\ \A k \in ran[n] : ~By(c, k)
      BY <1>9, <2>2, <3>1, <3>3, Zenon DEF LastOK
    <3>4. CASE \E k \in ran[n] :
                 /\ By(c, k) /\ \A j \in ran[n] : k < j => ~By(c, j)
                 /\ sm[n].last[c] = [serial |-> log[k].txid.serial, reply |-> replies[n][k]]
      <4>1. PICK k \in ran[n] :
              /\ By(c, k) /\ \A j \in ran[n] : k < j => ~By(c, j)
              /\ sm[n].last[c] = [serial |-> log[k].txid.serial, reply |-> replies[n][k]]
        BY <3>4, Zenon
      <4>2. k \in ran'[n] /\ By(c, k)' /\ \A j \in ran'[n] : k < j => ~By(c, j)'
        BY <1>9, <3>1, <3>2, <4>1, Zenon
      <4>3. sm'[n].last[c] = [serial |-> log'[k].txid.serial, reply |-> replies'[n][k]]
        BY <1>6, <1>7, <2>2, <4>1, Zenon
      <4> QED
        BY <4>2, <4>3, Zenon DEF LastOK
    <3> QED
      BY <1>10, <3>3, <3>4, Zenon DEF LastOK
  <2> QED
    BY <1>12, <2>1, <2>2, Zenon
<1>14. RanOK(n)'
  <2>1. SUFFICES ASSUME NEW k \in ran'[n], NEW j \in ran'[n], k < j,
                        log[k].txid # NoTx, log[k].txid = log[j].txid
                 PROVE  \E i \in ran'[n] : /\ k < i /\ i < j /\ By(log[j].txid.client, i)
                                           /\ log[i].txid # log[j].txid
    BY <1>9, Zenon DEF RanOK
  <2>2. k \in ran[n] /\ (j \in ran[n] \/ (j = a + 1 /\ ~Repeated(sm[n], e)))
    BY <1>6, <2>1, Zenon
  <2>3. ran[n] \subseteq ran'[n]
    OBVIOUS
  <2>4. CASE j \in ran[n]
    <3>1. PICK i \in ran[n] : /\ k < i /\ i < j /\ By(log[j].txid.client, i)
                              /\ log[i].txid # log[j].txid
      BY <2>1, <2>2, <2>4, Zenon DEF RanOK, HistoryOK
    <3> QED
      BY <2>3, <3>1, Zenon
  <2>5. CASE j = a + 1 /\ ~Repeated(sm[n], e)
    <3>1. PICK c : c = e.txid.client
      OBVIOUS
    <3>2. e.txid # NoTx /\ log[k].txid = e.txid /\ c \in Clients /\ By(c, k)
      BY <1>2, <2>1, <2>5, <3>1, TxidTypes, Zenon DEF By
    <3>3. PICK i \in ran[n] :
            /\ By(c, i) /\ \A h \in ran[n] : i < h => ~By(c, h)
            /\ sm[n].last[c].serial = log[i].txid.serial /\ sm[n].last[c].reply = replies[n][i]
      BY <1>11, <2>2, <3>1, <3>2, Zenon
    <3>4. log[i].txid # e.txid
      BY <2>5, <3>1, <3>2, <3>3, Zenon DEF Repeated
    <3>5. i # k /\ ~(i < k)
      BY <2>2, <3>2, <3>3, <3>4, Zenon
    <3>6. k < i /\ i < j
      BY <1>6, <2>2, <2>5, <3>3, <3>5
    <3> QED
      BY <2>3, <2>5, <3>1, <3>3, <3>4, <3>6, Zenon
  <2> QED
    BY <2>2, <2>4, <2>5, Zenon
<1>15. SkippedOK(n)'
  <2>1. SUFFICES ASSUME NEW j \in (1 .. a + 1) \ ran'[n]
                 PROVE  /\ log[j].txid # NoTx
                        /\ \E k \in ran'[n] :
                             /\ k < j /\ log[k].txid = log[j].txid /\ q[k] = q[j]
                             /\ \A i \in ran'[n] : k < i /\ i < j => ~By(log[j].txid.client, i)
    BY <1>7, <1>9, Zenon DEF SkippedOK
  <2>2. CASE j \in 1 .. a
    <3>1. j \notin ran[n] /\ ran[n] \subseteq ran'[n] /\ \A i \in ran'[n] : i < j => i \in ran[n]
      BY <1>1, <2>1, <2>2
    <3>2. log[j].txid # NoTx
      BY <2>2, <3>1, Zenon DEF SkippedOK, HistoryOK
    <3>3. PICK k \in ran[n] :
            /\ k < j /\ log[k].txid = log[j].txid /\ replies[n][k] = replies[n][j]
            /\ \A i \in ran[n] : k < i /\ i < j => ~By(log[j].txid.client, i)
      BY <2>2, <3>1, Zenon DEF SkippedOK, HistoryOK
    <3>4. q[k] = q[j]
      BY <1>5, <1>6, <2>2, <3>3, Zenon
    <3>5. \A i \in ran'[n] : k < i /\ i < j => ~By(log[j].txid.client, i)
      BY <3>1, <3>3, Zenon
    <3> QED
      BY <3>1, <3>2, <3>3, <3>4, <3>5, Zenon
  <2>3. CASE j = a + 1
    <3>1. Repeated(sm[n], e) /\ ran'[n] = ran[n]
      BY <2>1, <2>3, Zenon
    <3>2. PICK c : c = e.txid.client
      OBVIOUS
    <3>3. e.txid # NoTx /\ e.txid \in Txids /\ c \in Clients /\ sm[n].last[c].serial = e.txid.serial
      BY <1>2, <3>1, <3>2, TxidTypes, Zenon DEF Repeated
    <3>4. PICK k \in ran[n] :
            /\ By(c, k) /\ \A i \in ran[n] : k < i => ~By(c, i)
            /\ sm[n].last[c].serial = log[k].txid.serial /\ sm[n].last[c].reply = replies[n][k]
      BY <1>11, <3>1, <3>2, <3>3, Zenon
    <3>5. log[k].txid = e.txid
      <4>1. log[k].txid \in Txids /\ log[k].txid.client = c /\ log[k].txid.serial = e.txid.serial
        BY <1>8, <3>3, <3>4, Zenon DEF By
      <4> QED
        BY <3>2, <3>3, <4>1, TxidEqual, Zenon
    <3>6. q[k] = q[j]
      BY <1>3, <1>5, <1>6, <2>3, <3>1, <3>2, <3>4, Zenon
    <3> QED
      BY <1>6, <2>3, <3>1, <3>2, <3>3, <3>4, <3>5, <3>6, Zenon
  <2>4. j \in 1 .. a \/ j = a + 1
    BY <1>1
  <2> QED
    BY <2>2, <2>3, <2>4, ZenonT(30)
<1> QED
  BY <1>13, <1>14, <1>15, Zenon DEF HistoryOK

-----------------------------------------------------------------------------
(* The invariant *)

\* A new state machine.
LEMMA EmptyOK ==
  /\ StateOK(Empty) /\ Empty.applied = 0 /\ \A c \in Clients : Empty.last[c].serial = 0
<1>1. StateOK(Empty)
  <2>1. DOMAIN Empty.kv = Keys /\ \A k \in Keys : Empty.kv[k].seq \in Nat
    BY AbsentRecord DEF Empty
  <2>2. Empty.seqs \in [SeqNames -> Nat] /\ DOMAIN Empty.last = Clients
    BY Zenon DEF Empty
  <2> QED
    BY <2>1, <2>2, Zenon DEF StateOK
<1> QED
  BY <1>1, Zenon DEF Empty

\* Nothing is committed or applied at first.
LEMMA ReplicationInit == Init => ReplicationInv
<1> SUFFICES ASSUME Init PROVE ReplicationInv
  OBVIOUS
<1>1. ASSUME NEW n \in Nodes
      PROVE  sm[n] = Empty /\ ran[n] = {} /\ clock[n] = 0 /\ replies[n] = << >>
  BY Zenon DEF Init
<1>2. ASSUME NEW n \in Nodes
      PROVE  NodeOK(n)
  <2>1. Len(log) = 0
    BY Zenon DEF Init
  <2>2. sm[n].applied \in 0 .. Len(log) /\ clock[n] \in 0 .. MaxTime
    BY <1>1, <2>1, EmptyOK, ReplicationAssumption
  <2>3. << >> \in Seq(Range(replies[n])) /\ Len(<< >>) = 0
    OBVIOUS
  <2>4. ran[n] \subseteq 1 .. sm[n].applied
    BY <1>1, Zenon
  <2> QED
    BY <1>1, <2>2, <2>3, <2>4, EmptyOK, Zenon DEF NodeOK
<1>3. TypeOK
  <2>1. log \in Seq(Entries) /\ flight \in [Clients -> Seq(Requests)] /\ serial \in [Clients -> Nat]
    BY DEF Init
  <2>2. waiting \in [Clients -> BOOLEAN]
    BY Zenon DEF Init
  <2>3. DOMAIN sm = Nodes /\ DOMAIN clock = Nodes /\ DOMAIN ran = Nodes /\ DOMAIN replies = Nodes
    BY Zenon DEF Init
  <2> QED
    BY <1>2, <2>1, <2>2, <2>3, Zenon DEF TypeOK
<1>4. ASSUME NEW n \in Nodes
      PROVE  (\A c \in Clients : LastOK(n, c)) /\ RanOK(n) /\ SkippedOK(n)
  <2>1. \A c \in Clients : LastOK(n, c)
    BY <1>1, EmptyOK, Zenon DEF LastOK
  <2>2. RanOK(n) /\ SkippedOK(n)
    BY <1>1, EmptyOK DEF RanOK, SkippedOK
  <2> QED
    BY <2>1, <2>2, Zenon
<1> QED
  BY <1>3, <1>4, Zenon DEF ReplicationInv

\* A step that leaves the state machines alone, the log at most longer.
LEMMA QuietStep ==
  ASSUME ReplicationInv, UNCHANGED <<sm, ran, replies>>,
         log' \in Seq(Entries), Len(log) <= Len(log'), \A i \in 1 .. Len(log) : log'[i] = log[i],
         flight' \in [Clients -> Seq(Requests)], serial' \in [Clients -> Nat],
         waiting' \in [Clients -> BOOLEAN],
         DOMAIN clock' = Nodes, \A n \in Nodes : clock'[n] \in 0 .. MaxTime
  PROVE  ReplicationInv'
<1>1. TypeOK /\ \A n \in Nodes : HistoryOK(n)
  BY Zenon DEF ReplicationInv, HistoryOK
<1>2. ASSUME NEW n \in Nodes
      PROVE  NodeOK(n)'
  <2>1. sm[n].applied \in 0 .. Len(log')
    <3>1. Len(log') \in Nat
      OBVIOUS
    <3> QED
      BY <1>1, <3>1, NodeTypes
  <2> QED
    BY <1>1, <2>1, NodeTypes, Zenon DEF NodeOK
<1>3. TypeOK'
  BY <1>1, <1>2, Zenon DEF TypeOK
<1>4. ASSUME NEW n \in Nodes
      PROVE  HistoryOK(n)'
  BY <1>1, HistoryKept, Zenon
<1> QED
  BY <1>3, <1>4, Zenon DEF ReplicationInv, HistoryOK

\* A step that changes the state machine of one node.
LEMMA NodeStep ==
  ASSUME ReplicationInv, UNCHANGED <<log, clock, flight, serial, waiting>>, NEW n \in Nodes,
         NEW s, NEW r, NEW q,
         sm' = [sm EXCEPT ![n] = s], ran' = [ran EXCEPT ![n] = r],
         replies' = [replies EXCEPT ![n] = q],
         NodeOK(n)', HistoryOK(n)'
  PROVE  ReplicationInv'
<1>1. TypeOK /\ \A m \in Nodes : HistoryOK(m)
  BY Zenon DEF ReplicationInv, HistoryOK
<1>2. /\ DOMAIN sm' = Nodes /\ DOMAIN ran' = Nodes /\ DOMAIN replies' = Nodes
      /\ \A m \in Nodes : m # n => sm'[m] = sm[m] /\ ran'[m] = ran[m] /\ replies'[m] = replies[m]
  BY <1>1, Zenon DEF TypeOK
<1>3. ASSUME NEW m \in Nodes, m # n
      PROVE  NodeOK(m)' /\ HistoryOK(m)'
  <2>1. NodeOK(m)
    BY <1>1, Zenon DEF TypeOK
  <2>2. NodeOK(m)'
    BY <1>2, <1>3, <2>1, Zenon DEF NodeOK
  <2>3. HistoryOK(m)'
    BY <1>1, <1>2, <1>3, HistoryKept, Zenon
  <2> QED
    BY <2>2, <2>3, Zenon
<1>4. TypeOK'
  BY <1>1, <1>2, <1>3, Zenon DEF TypeOK
<1> QED
  BY <1>3, <1>4, Zenon DEF ReplicationInv, HistoryOK

\* A request is one of the entries, and its txid is that of the client.
LEMMA RequestTypes ==
  ASSUME NEW c \in Clients, NEW cmd \in Cmds, NEW number \in Nat
  PROVE  Request(c, cmd, number + 1) \in Requests
<1>1. number + 1 \in Nat \ {0}
  OBVIOUS
<1> QED
  BY <1>1, Zenon DEF Request, Requests

\* A client sends a request.
LEMMA SendStep ==
  ASSUME ReplicationInv, NEW c \in Clients, NEW cmd \in Cmds, Send(c, cmd)
  PROVE  ReplicationInv'
<1>1. TypeOK
  BY Zenon DEF ReplicationInv
<1>2. serial' \in [Clients -> Nat]
  BY <1>1 DEF TypeOK, Send
<1>3. PICK r \in Requests : r = Request(c, cmd, serial[c] + 1)
  BY <1>1, RequestTypes, Zenon DEF TypeOK
<1>4. flight' \in [Clients -> Seq(Requests)]
  BY <1>1, <1>3 DEF TypeOK, Send
<1>5. waiting' \in [Clients -> BOOLEAN]
  BY <1>1, Zenon DEF TypeOK, Send
<1>6. \A n \in Nodes : clock[n] \in 0 .. MaxTime
  BY <1>1, Zenon DEF TypeOK, NodeOK
<1>7. log' \in Seq(Entries) /\ Len(log) <= Len(log') /\ UNCHANGED log
  BY <1>1 DEF TypeOK, Send
<1> QED
  BY <1>1, <1>2, <1>4, <1>5, <1>6, <1>7, QuietStep, Zenon DEF TypeOK, Send

\* A client sends its newest request once more.
LEMMA ResendStep ==
  ASSUME ReplicationInv, NEW c \in Clients, Resend(c)
  PROVE  ReplicationInv'
<1>1. TypeOK
  BY Zenon DEF ReplicationInv
<1>2. PICK q : q = flight[c] /\ q \in Seq(Requests) /\ q # << >>
  BY <1>1, Zenon DEF TypeOK, Resend
<1>3. q[Len(q)] \in Requests
  BY <1>2
<1>4. flight' \in [Clients -> Seq(Requests)]
  BY <1>1, <1>2, <1>3 DEF TypeOK, Resend
<1>5. \A n \in Nodes : clock[n] \in 0 .. MaxTime
  BY <1>1, Zenon DEF TypeOK, NodeOK
<1>6. log' \in Seq(Entries) /\ Len(log) <= Len(log') /\ UNCHANGED log
  BY <1>1 DEF TypeOK, Resend
<1> QED
  BY <1>1, <1>4, <1>5, <1>6, QuietStep, Zenon DEF TypeOK, Resend

\* The log grows by one entry.
LEMMA LogGrows ==
  ASSUME TypeOK, NEW e \in Entries, log' = Append(log, e)
  PROVE  /\ log' \in Seq(Entries) /\ Len(log) <= Len(log') /\ \A i \in 1 .. Len(log) : log'[i] = log[i]
         /\ Len(log') = Len(log) + 1 /\ log'[Len(log) + 1] = e
BY DEF TypeOK

\* Raft commits a request.
LEMMA CommitStep ==
  ASSUME ReplicationInv, NEW c \in Clients, Commit(c)
  PROVE  ReplicationInv'
<1>1. TypeOK
  BY Zenon DEF ReplicationInv
<1>2. PICK q : q = flight[c] /\ q \in Seq(Requests)
  BY <1>1, Zenon DEF TypeOK
<1>3. PICK i \in DOMAIN q : log' = Append(log, q[i]) /\ flight' = [flight EXCEPT ![c] = Without(q, i)]
  BY <1>2, Zenon DEF Commit
<1>4. q[i] \in Requests
  BY <1>2, <1>3
<1>5. Without(q, i) \in Seq(Requests)
  <2>1. Len(q) \in Nat /\ Len(q) - 1 \in Nat /\ i \in 1 .. Len(q)
    BY <1>2, <1>3
  <2>2. \A j \in 1 .. Len(q) - 1 : (IF j < i THEN q[j] ELSE q[j + 1]) \in Requests
    BY <1>2, <2>1
  <2> QED
    BY <2>1, <2>2 DEF Without
<1>6. flight' \in [Clients -> Seq(Requests)]
  BY <1>1, <1>3, <1>5, Zenon DEF TypeOK
<1>7. \A n \in Nodes : clock[n] \in 0 .. MaxTime
  BY <1>1, Zenon DEF TypeOK, NodeOK
<1>8. log' \in Seq(Entries) /\ Len(log) <= Len(log') /\ \A j \in 1 .. Len(log) : log'[j] = log[j]
  <2>1. q[i] \in Entries
    BY <1>4, Zenon DEF Entries
  <2> QED
    BY <1>1, <1>3, <2>1, LogGrows, Zenon
<1> QED
  BY <1>1, <1>6, <1>7, <1>8, QuietStep, Zenon DEF TypeOK, Commit

\* Raft commits another entry.
LEMMA CommitOtherStep ==
  ASSUME ReplicationInv, NEW e \in Others, CommitOther(e)
  PROVE  ReplicationInv'
<1>1. TypeOK
  BY Zenon DEF ReplicationInv
<1>2. \A n \in Nodes : clock[n] \in 0 .. MaxTime
  BY <1>1, Zenon DEF TypeOK, NodeOK
<1>3. log' \in Seq(Entries) /\ Len(log) <= Len(log') /\ \A j \in 1 .. Len(log) : log'[j] = log[j]
  BY <1>1, LogGrows, Zenon DEF CommitOther, Entries
<1> QED
  BY <1>1, <1>2, <1>3, QuietStep, Zenon DEF TypeOK, CommitOther

\* A client gets its reply, a clock advances, or nothing happens.
LEMMA OtherSteps ==
  ASSUME ReplicationInv,
         \/ \E c \in Clients, n \in Nodes : Answer(c, n)
         \/ \E n \in Nodes : Tick(n)
         \/ UNCHANGED vars
  PROVE  ReplicationInv'
<1>1. TypeOK
  BY Zenon DEF ReplicationInv
<1>2. DOMAIN clock' = Nodes /\ \A n \in Nodes : clock'[n] \in 0 .. MaxTime
  <2>1. DOMAIN clock = Nodes /\ \A n \in Nodes : clock[n] \in 0 .. MaxTime
    BY <1>1, Zenon DEF TypeOK, NodeOK
  <2>2. CASE clock' = clock
    BY <2>1, <2>2, Zenon
  <2>3. CASE \E n \in Nodes : Tick(n)
    <3>1. PICK n \in Nodes : clock[n] < MaxTime /\ clock' = [clock EXCEPT ![n] = clock[n] + 1]
      BY <2>3, Zenon DEF Tick
    <3>2. clock[n] + 1 \in 0 .. MaxTime
      BY <2>1, <3>1, ReplicationAssumption
    <3> QED
      BY <2>1, <3>1, <3>2, Zenon
  <2> QED
    BY <2>2, <2>3, Zenon DEF Answer, vars
<1>3. waiting' \in [Clients -> BOOLEAN]
  BY <1>1, Zenon DEF TypeOK, Answer, Tick, vars
<1>4. UNCHANGED <<log, sm, ran, replies, flight, serial>>
  BY Zenon DEF Answer, Tick, vars
<1>5. log' \in Seq(Entries) /\ Len(log) <= Len(log')
  BY <1>1, <1>4 DEF TypeOK
<1> QED
  BY <1>1, <1>2, <1>3, <1>4, <1>5, QuietStep, Zenon DEF TypeOK

\* A node applies the next entry.
LEMMA ApplyStep ==
  ASSUME ReplicationInv, NEW n \in Nodes, Apply(n)
  PROVE  /\ ReplicationInv'
         /\ \E e, d : /\ Applies(sm[n], sm[n].applied + 1, e, d) /\ sm'[n] = d.s
                      /\ e \in Entries /\ e = log[sm[n].applied + 1]
                      /\ d = apply(sm[n], sm[n].applied + 1, e, clock[n])
<1>1. TypeOK /\ HistoryOK(n)
  BY Zenon DEF ReplicationInv, HistoryOK
<1>2. PICK a : a = sm[n].applied
  OBVIOUS
<1>3. PICK e : e = log[a + 1]
  OBVIOUS
<1>4. PICK d : d = apply(sm[n], a + 1, e, clock[n])
  OBVIOUS
<1>5. /\ StateOK(sm[n]) /\ a \in Nat /\ ran[n] \subseteq 1 .. a /\ Len(log) \in Nat
      /\ Len(replies[n]) = a /\ replies[n] \in Seq(Range(replies[n])) /\ clock[n] \in 0 .. MaxTime
  BY <1>1, <1>2, NodeTypes, Zenon
<1>6. PICK r : r = IF Repeated(sm[n], e) THEN ran[n] ELSE ran[n] \cup {a + 1}
  OBVIOUS
<1>7. PICK q : q = Append(replies[n], d.reply)
  OBVIOUS
<1>8. /\ a + 1 <= Len(log) /\ sm' = [sm EXCEPT ![n] = d.s]
      /\ replies' = [replies EXCEPT ![n] = q] /\ ran' = [ran EXCEPT ![n] = r]
      /\ UNCHANGED <<log, clock, flight, serial, waiting>>
  BY <1>2, <1>3, <1>4, <1>6, <1>7, Zenon DEF Apply
<1>9. sm'[n] = d.s /\ replies'[n] = q /\ ran'[n] = r
  BY <1>1, <1>8, Zenon DEF TypeOK
<1>10. e \in Entries
  BY <1>1, <1>3, <1>5, <1>8, LogTypes
<1>11. Applies(sm[n], a + 1, e, d)
  BY <1>4, <1>5, <1>10, ApplyFollows, Zenon
<1>12. StateOK(d.s) /\ d.s.applied = a + 1
  BY <1>11, Zenon DEF Applies
<1>13. NodeOK(n)'
  <2>1. a + 1 \in 0 .. Len(log) /\ r \subseteq 1 .. a + 1
    BY <1>5, <1>6, <1>8
  <2>2. q \in Seq(Range(q)) /\ Len(q) = a + 1
    <3>1. Len(q) = a + 1 /\ q = [i \in 1 .. a + 1 |-> q[i]]
      BY <1>5, <1>7
    <3>2. \A i \in 1 .. a + 1 : q[i] \in Range(q)
      BY <3>1, Zenon DEF Range
    <3>3. PICK z, S : z = a + 1 /\ S = Range(q)
      OBVIOUS
    <3>4. z \in Nat
      BY <1>5, <3>3
    <3>5. [i \in 1 .. z |-> q[i]] \in Seq(S)
      BY <3>2, <3>3, <3>4
    <3> QED
      BY <3>1, <3>3, <3>5, Zenon
  <2> QED
    BY <1>5, <1>8, <1>9, <1>12, <2>1, <2>2, Zenon DEF NodeOK
<1>14. HistoryOK(n)'
  BY <1>1, <1>2, <1>3, <1>4, <1>6, <1>7, <1>8, <1>9, ApplyHistory, ZenonT(30)
<1>15. ReplicationInv'
  BY <1>8, <1>13, <1>14, NodeStep, Zenon
<1> QED
  BY <1>2, <1>3, <1>4, <1>9, <1>10, <1>11, <1>15, Zenon

\* A node takes over the state of another one.
LEMMA SnapshotStep ==
  ASSUME ReplicationInv, NEW n \in Nodes, NEW m \in Nodes, InstallSnapshot(n, m)
  PROVE  ReplicationInv'
<1>1. TypeOK /\ HistoryOK(m) /\ NodeOK(m) /\ NodeOK(n)
  BY Zenon DEF ReplicationInv, HistoryOK, TypeOK
<1>2. sm'[n] = sm[m] /\ replies'[n] = replies[m] /\ ran'[n] = ran[m]
  BY <1>1, Zenon DEF TypeOK, InstallSnapshot
<1>3. UNCHANGED <<log, clock, flight, serial, waiting>>
  BY Zenon DEF InstallSnapshot
<1>4. NodeOK(n)'
  BY <1>1, <1>2, <1>3, Zenon DEF NodeOK
<1>5. HistoryOK(n)'
  BY <1>1, <1>2, <1>3, HistoryKept, Zenon
<1> QED
  BY <1>3, <1>4, <1>5, NodeStep, Zenon DEF InstallSnapshot

\* Every step keeps the invariant.
LEMMA ReplicationStep == ReplicationInv /\ [Next]_vars => ReplicationInv'
<1> SUFFICES ASSUME ReplicationInv, [Next]_vars PROVE ReplicationInv'
  OBVIOUS
<1> QED
  BY SendStep, ResendStep, CommitStep, CommitOtherStep, OtherSteps, ApplyStep, SnapshotStep, Zenon
     DEF Next

\* The inductive invariant of the replicated state machine: what a node has
\* noted as the last request of a client is the last one of it that it executed.
THEOREM ReplicationInvHolds == Spec => []ReplicationInv
BY ReplicationInit, ReplicationStep, PTL DEF Spec

-----------------------------------------------------------------------------
(* Requests that are sent several times *)

\* The execution that a request got its reply from.
LEMMA Source ==
  ASSUME ReplicationInv, NEW n \in Nodes, NEW i \in 1 .. sm[n].applied, log[i].txid # NoTx
  PROVE  \E k \in ran[n] :
           /\ k <= i /\ log[k].txid = log[i].txid /\ replies[n][k] = replies[n][i]
           /\ \A h \in ran[n] : k < h /\ h < i => ~By(log[i].txid.client, h)
<1>1. CASE i \in ran[n]
  <2>1. TypeOK
    BY Zenon DEF ReplicationInv
  <2>2. ran[n] \subseteq Nat /\ i \in Nat
    BY <2>1, NodeTypes
  <2>3. i <= i /\ \A h \in ran[n] : ~(i < h /\ h < i)
    BY <2>2
  <2> QED
    BY <1>1, <2>3, Zenon
<1>2. CASE i \notin ran[n]
  <2>1. PICK k \in ran[n] :
          /\ k < i /\ log[k].txid = log[i].txid /\ replies[n][k] = replies[n][i]
          /\ \A h \in ran[n] : k < h /\ h < i => ~By(log[i].txid.client, h)
    BY <1>2, Zenon DEF ReplicationInv, SkippedOK
  <2>2. TypeOK
    BY Zenon DEF ReplicationInv
  <2>3. k <= i
    BY <2>1, <2>2, NodeTypes
  <2> QED
    BY <2>1, <2>3, Zenon
<1> QED
  BY <1>1, <1>2, Zenon

\* Between two copies of a request and after the execution of the first, the node
\* has executed nothing else of the client: so not the second one either.
LEMMA NothingBetween ==
  ASSUME ReplicationInv, NEW n \in Nodes, NEW i \in 1 .. sm[n].applied, NEW j \in Nat, Copies(n, i, j),
         NEW k \in ran[n], log[k].txid = log[i].txid,
         \A h \in ran[n] : k < h /\ h < i => ~By(log[i].txid.client, h),
         NEW g \in ran[n], g <= j, k < g, log[g].txid = log[i].txid
  PROVE  FALSE
<1>1. TypeOK /\ RanOK(n)
  BY Zenon DEF ReplicationInv
<1>2. ran[n] \subseteq Nat /\ i \in Nat /\ sm[n].applied \in Nat
  BY <1>1, NodeTypes
<1>3. log[i].txid # NoTx
  BY Zenon DEF Copies
<1>4. PICK h \in ran[n] : /\ k < h /\ h < g /\ By(log[g].txid.client, h) /\ log[h].txid # log[g].txid
  BY <1>1, <1>3, Zenon DEF RanOK
<1>5. CASE h < i
  BY <1>4, <1>5, Zenon
<1>6. CASE h = i
  BY <1>4, <1>6, Zenon
<1>7. CASE i < h
  <2>1. h < j
    BY <1>2, <1>4
  <2> QED
    BY <1>4, <1>7, <2>1, Zenon DEF Copies, By
<1> QED
  BY <1>2, <1>5, <1>6, <1>7

\* A copy is not executed again.
LEMMA OnlyFirst == ReplicationInv => OnlyFirstApplied
<1> SUFFICES ASSUME ReplicationInv, NEW n \in Nodes, NEW i \in 1 .. sm[n].applied,
                    NEW j \in ran[n], Copies(n, i, j)
             PROVE  FALSE
  BY Zenon DEF OnlyFirstApplied
<1>1. i < j /\ log[i].txid # NoTx /\ log[i].txid = log[j].txid
  BY Zenon DEF Copies
<1>2. TypeOK
  BY Zenon DEF ReplicationInv
<1>3. ran[n] \subseteq Nat /\ i \in Nat
  BY <1>2, NodeTypes
<1>4. PICK k \in ran[n] :
        /\ k <= i /\ log[k].txid = log[i].txid /\ replies[n][k] = replies[n][i]
        /\ \A h \in ran[n] : k < h /\ h < i => ~By(log[i].txid.client, h)
  BY <1>1, Source, Zenon
<1>5. PICK g \in ran[n] : g = j
  OBVIOUS
<1>6. j \in Nat /\ g <= j /\ k < g /\ log[g].txid = log[i].txid
  BY <1>1, <1>3, <1>4, <1>5
<1> QED
  BY <1>4, <1>6, NothingBetween, Zenon

\* All copies got their reply from one execution.
LEMMA SameReply == ReplicationInv => CopiesGetTheSameReply
<1> SUFFICES ASSUME ReplicationInv, NEW n \in Nodes, NEW i \in 1 .. sm[n].applied,
                    NEW j \in 1 .. sm[n].applied, Copies(n, i, j)
             PROVE  replies[n][i] = replies[n][j]
  BY Zenon DEF CopiesGetTheSameReply
<1>1. i < j /\ log[i].txid # NoTx /\ log[i].txid = log[j].txid
  BY Zenon DEF Copies
<1>2. TypeOK
  BY Zenon DEF ReplicationInv
<1>3. ran[n] \subseteq Nat /\ i \in Nat /\ j \in Nat
  BY <1>2, NodeTypes
<1>4. PICK k \in ran[n] :
        /\ k <= i /\ log[k].txid = log[i].txid /\ replies[n][k] = replies[n][i]
        /\ \A h \in ran[n] : k < h /\ h < i => ~By(log[i].txid.client, h)
  BY <1>1, Source, Zenon
<1>5. PICK g \in ran[n] :
        /\ g <= j /\ log[g].txid = log[j].txid /\ replies[n][g] = replies[n][j]
        /\ \A h \in ran[n] : g < h /\ h < j => ~By(log[j].txid.client, h)
  BY <1>1, Source, Zenon
<1>6. ~(k < g)
  BY <1>1, <1>3, <1>4, <1>5, NothingBetween, Zenon
<1>7. ~(g < k)
  <2>1. k < j /\ By(log[j].txid.client, k)
    BY <1>1, <1>3, <1>4 DEF By
  <2> QED
    BY <1>5, <2>1, Zenon
<1>8. k = g
  BY <1>3, <1>6, <1>7
<1> QED
  BY <1>4, <1>5, <1>8, Zenon

\* "Only the first of them will be applied" (raft_txid.rs): a request that was
\* sent several times is executed once on every node, for any number of nodes,
\* clients, commands, copies and log entries.
THEOREM CopiesAreSkipped == Spec => []OnlyFirstApplied
BY ReplicationInvHolds, OnlyFirst, PTL

\* "No update will be made and the previous resp is returned": whichever copy of
\* a request a node answers, the reply is that of the execution.
THEOREM RepliesAreKept == Spec => []CopiesGetTheSameReply
BY ReplicationInvHolds, SameReply, PTL

\* StateMachine::apply gives a record that it changes a seq that is larger than
\* every one before, for every command, transaction and clock.
THEOREM SeqsGrow == Spec => SeqGrows
<1>1. ASSUME ReplicationInv, NEW n \in Nodes, NEW k \in Keys, Apply(n)
      PROVE  \/ sm'[n].kv[k] = sm[n].kv[k]
             \/ sm'[n].kv[k] = Absent
             \/ sm'[n].kv[k].seq > sm[n].seqs[GenericKV]
  <2>1. PICK e, d : Applies(sm[n], sm[n].applied + 1, e, d) /\ sm'[n] = d.s
    BY <1>1, ApplyStep, Zenon
  <2> QED
    BY <2>1, Zenon DEF Applies, Renumbered
<1>2. ReplicationInv /\ [Next]_vars =>
        [\A n \in Nodes, k \in Keys : Apply(n) =>
           \/ sm'[n].kv[k] = sm[n].kv[k]
           \/ sm'[n].kv[k] = Absent
           \/ sm'[n].kv[k].seq > sm[n].seqs[GenericKV]]_vars
  BY <1>1, Zenon
<1> QED
  BY <1>2, ReplicationInvHolds, PTL DEF Spec, SeqGrows

-----------------------------------------------------------------------------
(* The clock of a node plays no part where no record expires *)

\* No record of s has an expiry time.
Lasting(s) == \A k \in Keys : s.kv[k].expire = Never

\* A record without an expiry time is never gone.
LEMMA Unexpired ==
  ASSUME NEW sv, sv.expire = Never, NEW now \in 0 .. MaxTime
  PROVE  unexpired(sv, now) = sv
<1>1. ~(Never < now)
  BY ReplicationAssumption
<1> QED
  BY <1>1, Zenon DEF unexpired

\* The clock at the start is one of the clocks.
LEMMA ZeroClock == 0 \in 0 .. MaxTime
BY ReplicationAssumption

\* An upsert without an expiry time.
LEMMA UpsertLasting ==
  ASSUME NEW s, StateOK(s), Lasting(s), NEW key \in Keys, NEW match, NEW up, up.expire = Never,
         NEW now \in 0 .. MaxTime
  PROVE  /\ txn_sub_tree_upsert(s, key, match, up, now) = txn_sub_tree_upsert(s, key, match, up, 0)
         /\ Lasting(txn_sub_tree_upsert(s, key, match, up, now).s)
<1>1. PICK prev : prev = s.kv[key]
  OBVIOUS
<1>2. unexpired(s.kv[key], now) = prev /\ unexpired(s.kv[key], 0) = prev
  BY <1>1, Unexpired, ZeroClock, Zenon DEF Lasting
<1>3. txn_sub_tree_upsert(s, key, match, up, now) = txn_sub_tree_upsert(s, key, match, up, 0)
  BY <1>2, Zenon DEF txn_sub_tree_upsert
<1>4. PICK d : d = txn_sub_tree_do_update(s, key, prev, up)
  OBVIOUS
<1>5. txn_sub_tree_upsert(s, key, match, up, now).s \in {d.s, s}
  BY <1>2, <1>4, Zenon DEF txn_sub_tree_upsert
<1>6. PICK t : t = txn_incr_seq(s, GenericKV)
  OBVIOUS
<1>7. PICK new : new = [seq    |-> t.seqs[GenericKV],
                        data   |-> IF up.op = "AsIs" THEN prev.data ELSE up.val,
                        expire |-> up.expire]
  OBVIOUS
<1>8. d.s \in {[s EXCEPT !.kv[key] = Absent], s, [t EXCEPT !.kv[key] = new]}
  BY <1>4, <1>6, <1>7, Zenon DEF txn_sub_tree_do_update
<1>9. /\ StateOK(t) /\ t.kv = s.kv /\ t.seqs[GenericKV] \in Nat
  <2>1. GenericKV \in SeqNames
    BY Zenon DEF SeqNames
  <2>2. StateOK(t) /\ t.kv = s.kv
    BY <1>6, <2>1, IncrFollows, Zenon DEF Follows
  <2> QED
    BY <2>1, <2>2, Zenon DEF StateOK
<1>10. ASSUME NEW u, StateOK(u), u.kv = s.kv, NEW v, v.seq \in Nat, v.expire = Never
       PROVE  Lasting([u EXCEPT !.kv[key] = v])
  <2>1. PICK w : w = [u EXCEPT !.kv[key] = v]
    OBVIOUS
  <2>2. w.kv[key] = v /\ \A k \in Keys : k # key => w.kv[k] = u.kv[k]
    BY <1>10, <2>1, OneRecord
  <2> QED
    BY <1>10, <2>1, <2>2, Zenon DEF Lasting
<1>11. Lasting([s EXCEPT !.kv[key] = Absent])
  BY <1>10, AbsentRecord
<1>12. new.seq \in Nat /\ new.expire = Never
  BY <1>7, <1>9, Zenon
<1>13. Lasting([t EXCEPT !.kv[key] = new])
  BY <1>9, <1>10, <1>12, Zenon
<1> QED
  BY <1>3, <1>5, <1>8, <1>11, <1>13, Zenon

\* One operation of a transaction.
LEMMA OperationLasting ==
  ASSUME NEW acc, StateOK(acc.s), Lasting(acc.s), DOMAIN acc = {"s", "replies"},
         NEW op, op.key \in Keys, NEW now \in 0 .. MaxTime
  PROVE  /\ txn_execute_operation(acc, op, now) = txn_execute_operation(acc, op, 0)
         /\ Lasting(txn_execute_operation(acc, op, now).s)
<1>1. PICK up : up = [op |-> IF op.kind = "put" THEN "Update" ELSE "Delete",
                      val |-> op.val, expire |-> Never]
  OBVIOUS
<1>2. up.expire = Never
  BY <1>1, Zenon
<1>3. PICK did : did = txn_sub_tree_upsert(acc.s, op.key, MatchAny, up, now)
  OBVIOUS
<1>4. Lasting(did.s) /\ did = txn_sub_tree_upsert(acc.s, op.key, MatchAny, up, 0)
  BY <1>2, <1>3, UpsertLasting, Zenon
<1>5. PICK r : r = IF op.kind = "get"
                   THEN [acc EXCEPT !.replies = Append(acc.replies, acc.s.kv[op.key])]
                   ELSE [s |-> did.s, replies |-> Append(acc.replies, did.prev)]
  OBVIOUS
<1>6. r = txn_execute_operation(acc, op, now)
  BY <1>1, <1>3, <1>5, Zenon DEF txn_execute_operation
<1>7. r = txn_execute_operation(acc, op, 0)
  BY <1>1, <1>4, <1>5, Zenon DEF txn_execute_operation
<1>8. r.s = acc.s \/ r.s = did.s
  BY <1>5, Zenon
<1> QED
  BY <1>4, <1>6, <1>7, <1>8, Zenon

\* The operations of a transaction.
LEMMA OperationsLasting ==
  ASSUME NEW s, StateOK(s), Lasting(s), NEW ops, ops \in Seq(Range(ops)),
         \A i \in DOMAIN ops : ops[i].key \in Keys, NEW now \in 0 .. MaxTime
  PROVE  /\ txn_execute_operations(s, ops, now) = txn_execute_operations(s, ops, 0)
         /\ Lasting(txn_execute_operations(s, ops, now).s)
<1>1. PICK f : Executes(f, s, ops, now)
  BY Operations, Zenon
<1>2. PICK g : Executes(g, s, ops, 0)
  BY Operations, Zenon
<1>3. /\ f[0] = [s |-> s, replies |-> << >>] /\ g[0] = [s |-> s, replies |-> << >>]
      /\ \A i \in 1 .. Len(ops) : f[i] = txn_execute_operation(f[i - 1], ops[i], now)
      /\ \A i \in 1 .. Len(ops) : g[i] = txn_execute_operation(g[i - 1], ops[i], 0)
      /\ txn_execute_operations(s, ops, now) = f[Len(ops)]
      /\ txn_execute_operations(s, ops, 0) = g[Len(ops)]
  BY <1>1, <1>2, Zenon DEF Executes
<1>4. PICK N : N = Len(ops)
  OBVIOUS
<1>5. N \in Nat /\ DOMAIN ops = 1 .. N
  BY <1>4
<1>6. PICK T : T = {i \in 0 .. N : /\ DOMAIN f[i] = {"s", "replies"} /\ StateOK(f[i].s)
                                   /\ Lasting(f[i].s) /\ g[i] = f[i]}
  OBVIOUS
<1>7. 0 \in T
  <2>1. DOMAIN f[0] = {"s", "replies"} /\ f[0].s = s /\ g[0] = f[0]
    BY <1>3
  <2>2. 0 \in 0 .. N
    BY <1>5
  <2> QED
    BY <1>6, <2>1, <2>2, Zenon
<1>8. ASSUME NEW i \in 0 .. N, i \in T, i < N PROVE i + 1 \in T
  <2>1. i + 1 \in 1 .. N /\ i + 1 \in 0 .. N /\ (i + 1) - 1 = i
    BY <1>5, <1>8
  <2>2. /\ f[i + 1] = txn_execute_operation(f[i], ops[i + 1], now) /\ ops[i + 1].key \in Keys
        /\ g[i + 1] = txn_execute_operation(g[i], ops[i + 1], 0)
    BY <1>3, <1>4, <1>5, <2>1, Zenon
  <2>3. DOMAIN f[i] = {"s", "replies"} /\ StateOK(f[i].s) /\ Lasting(f[i].s) /\ g[i] = f[i]
    BY <1>6, <1>8, Zenon
  <2>4. DOMAIN f[i + 1] = {"s", "replies"} /\ StateOK(f[i + 1].s)
    <3>1. DOMAIN f[i + 1] = {"s", "replies"} /\ Follows(f[i].s, f[i + 1].s)
      BY <2>2, <2>3, OperationFollows, Zenon
    <3> QED
      BY <3>1, Zenon DEF Follows
  <2>5. Lasting(f[i + 1].s) /\ g[i + 1] = f[i + 1]
    BY <2>2, <2>3, OperationLasting, Zenon
  <2> QED
    BY <1>6, <2>1, <2>4, <2>5, Zenon
<1>9. \A i \in 0 .. N : i \in T /\ i < N => i + 1 \in T
  BY <1>8, Zenon
<1>10. N \in 0 .. N /\ \A i \in 0 .. N : i \in T
  <2>1. \A i \in 0 .. N : i \in T
    BY <1>5, <1>7, <1>9, UpTo, Zenon
  <2> QED
    BY <1>5, <2>1
<1> QED
  BY <1>3, <1>4, <1>6, <1>10, Zenon

\* A command that gives no record an expiry time.
LEMMA CommandLasting ==
  ASSUME NEW s, StateOK(s), Lasting(s), NEW cmd, IsCommand(cmd),
         ~(cmd.kind = "UpsertKV" /\ cmd.expire # Never), NEW now \in 0 .. MaxTime
  PROVE  /\ apply_cmd(s, cmd, now) = apply_cmd(s, cmd, 0)
         /\ Lasting(apply_cmd(s, cmd, now).s)
<1>1. CASE cmd.kind = "IncrSeq" /\ cmd.name \in SeqNames
  <2>1. apply_cmd(s, cmd, now) = apply_cmd(s, cmd, 0)
    BY <1>1, Zenon DEF apply_cmd
  <2>2. apply_cmd(s, cmd, now).s = txn_incr_seq(s, cmd.name)
    BY <1>1, Zenon DEF apply_cmd, apply_incr_seq_cmd
  <2>3. txn_incr_seq(s, cmd.name).kv = s.kv
    BY <1>1, IncrFollows, Zenon
  <2> QED
    BY <2>1, <2>2, <2>3, Zenon DEF Lasting
<1>2. CASE cmd.kind \in {"Add", "Remove"} /\ cmd.space \in {"nodes", "addrs"}
  <2>1. apply_cmd(s, cmd, now) = apply_cmd(s, cmd, 0)
    BY <1>2, Zenon DEF apply_cmd
  <2>2. PICK x : apply_cmd(s, cmd, now).s = [s EXCEPT ![cmd.space] = x]
    <3>1. CASE cmd.kind = "Add"
      BY <3>1, Zenon DEF apply_cmd, apply_add_cmd
    <3>2. CASE cmd.kind = "Remove"
      BY <3>2, Zenon DEF apply_cmd, apply_remove_cmd
    <3> QED
      BY <1>2, <3>1, <3>2, Zenon
  <2>3. PICK t : t = apply_cmd(s, cmd, now).s
    OBVIOUS
  <2>4. t["kv"] = s["kv"]
    BY <1>2, <2>2, <2>3, OnePart, Parts, Zenon DEF StateOK
  <2> QED
    BY <2>1, <2>3, <2>4, Zenon DEF Lasting
<1>3. CASE cmd.kind = "UpsertKV" /\ cmd.key \in Keys
  <2>1. PICK did : did = txn_sub_tree_upsert(s, cmd.key, cmd.match, cmd, now)
    OBVIOUS
  <2>2. did = txn_sub_tree_upsert(s, cmd.key, cmd.match, cmd, 0) /\ Lasting(did.s)
    BY <1>3, <2>1, UpsertLasting, Zenon
  <2>3. PICK r : r = [s |-> did.s, reply |-> [kind |-> "KV", prev |-> did.prev, result |-> did.result]]
    OBVIOUS
  <2>4. r = apply_cmd(s, cmd, now) /\ r.s = did.s
    BY <1>3, <2>1, <2>3, Zenon DEF apply_cmd, apply_update_kv_cmd
  <2>5. r = apply_cmd(s, cmd, 0)
    BY <1>3, <2>2, <2>3, Zenon DEF apply_cmd, apply_update_kv_cmd
  <2> QED
    BY <2>2, <2>4, <2>5, Zenon
<1>4. CASE /\ cmd.kind = "Transaction"
           /\ \A ops \in {cmd.if_then, cmd.else_then} :
                ops \in Seq(Range(ops)) /\ \A i \in DOMAIN ops : ops[i].key \in Keys
  <2>1. apply_cmd(s, cmd, now) = apply_txn_cmd(s, cmd, now) /\ apply_cmd(s, cmd, 0) = apply_txn_cmd(s, cmd, 0)
    BY <1>4, Zenon DEF apply_cmd
  <2>2. PICK ops \in {cmd.if_then, cmd.else_then} :
          ops = IF txn_execute_condition(s, cmd.condition) THEN cmd.if_then ELSE cmd.else_then
    OBVIOUS
  <2>3. PICK done : done = txn_execute_operations(s, ops, now)
    OBVIOUS
  <2>4. done = txn_execute_operations(s, ops, 0) /\ Lasting(done.s)
    BY <1>4, <2>3, OperationsLasting, Zenon
  <2>5. PICK r : r = [s |-> done.s,
                      reply |-> [kind |-> "TxnReply", success |-> txn_execute_condition(s, cmd.condition),
                                 replies |-> done.replies]]
    OBVIOUS
  <2>6. r = apply_txn_cmd(s, cmd, now) /\ r.s = done.s
    BY <2>2, <2>3, <2>5, Zenon DEF apply_txn_cmd
  <2>7. r = apply_txn_cmd(s, cmd, 0)
    BY <2>2, <2>4, <2>5, Zenon DEF apply_txn_cmd
  <2> QED
    BY <2>1, <2>4, <2>6, <2>7, Zenon
<1> QED
  BY <1>1, <1>2, <1>3, <1>4, Zenon DEF IsCommand

\* StateMachine::apply of an entry that gives no record an expiry time.
LEMMA ApplyLasting ==
  ASSUME NEW s, StateOK(s), Lasting(s), NEW index, NEW e \in Entries, ~Expires(e),
         NEW now \in 0 .. MaxTime
  PROVE  /\ apply(s, index, e, now) = apply(s, index, e, 0)
         /\ Lasting(apply(s, index, e, now).s)
<1>1. PICK t : t = [s EXCEPT !.applied = index]
  OBVIOUS
<1>2. StateOK(t) /\ t.kv = s.kv
  BY <1>1, AppliedPart, Zenon
<1>3. Lasting(t)
  BY <1>2, Zenon DEF Lasting
<1>4. PICK d : d = apply(s, index, e, now)
  OBVIOUS
<1>5. CASE e.payload = "Blank"
  <2>1. d = apply(s, index, e, 0) /\ d.s = t
    BY <1>1, <1>4, <1>5, Zenon DEF apply
  <2> QED
    BY <1>3, <1>4, <2>1, Zenon
<1>6. CASE e.payload = "Membership"
  <2>1. d = apply(s, index, e, 0) /\ d.s = [t EXCEPT !.membership = index]
    BY <1>1, <1>4, <1>6, Zenon DEF apply
  <2>2. d.s.kv = t.kv
    <3>1. PICK u : u = [t EXCEPT !.membership = index]
      OBVIOUS
    <3>2. u.kv = t.kv
      BY <1>2, <3>1, MembershipPart, Zenon
    <3> QED
      BY <2>1, <3>1, <3>2, Zenon
  <2>3. Lasting(d.s)
    BY <1>3, <2>2, Zenon DEF Lasting
  <2> QED
    BY <1>4, <2>1, <2>3, Zenon
<1>7. CASE e.payload = "Normal" /\ Repeated(s, e)
  <2>1. d = apply(s, index, e, 0) /\ d.s = t
    BY <1>1, <1>4, <1>7, Zenon DEF apply
  <2> QED
    BY <1>3, <1>4, <2>1, Zenon
<1>8. CASE e.payload = "Normal" /\ ~Repeated(s, e)
  <2>1. PICK done : done = apply_cmd(t, e.cmd, now)
    OBVIOUS
  <2>2. IsCommand(e.cmd) /\ ~(e.cmd.kind = "UpsertKV" /\ e.cmd.expire # Never)
    BY <1>8, EntryTypes, Zenon DEF Expires
  <2>3. done = apply_cmd(t, e.cmd, 0) /\ Lasting(done.s)
    BY <1>2, <1>3, <2>1, <2>2, CommandLasting, Zenon
  <2>4. StateOK(done.s)
    <3>1. Follows(t, done.s)
      BY <1>2, <2>1, <2>2, CommandFollows, Zenon
    <3> QED
      BY <3>1, Zenon DEF Follows
  <2>5. CASE e.txid = NoTx
    <3>1. d = done
      BY <1>1, <1>4, <1>8, <2>1, <2>5, Zenon DEF apply
    <3>2. apply(s, index, e, 0) = done
      BY <1>1, <1>8, <2>3, <2>5, Zenon DEF apply
    <3> QED
      BY <1>4, <2>3, <3>1, <3>2, Zenon
  <2>6. CASE e.txid # NoTx
    <3>1. PICK b, x, u : /\ b = e.txid.client /\ u = done.s
                         /\ x = [serial |-> e.txid.serial, reply |-> done.reply]
      OBVIOUS
    <3>2. PICK r : r = [s |-> [u EXCEPT !.last[b] = x], reply |-> done.reply]
      OBVIOUS
    <3>3. d = r
      BY <1>1, <1>4, <1>8, <2>1, <2>6, <3>1, <3>2, Zenon DEF apply
    <3>4. apply(s, index, e, 0) = r
      BY <1>1, <1>8, <2>3, <2>6, <3>1, <3>2, Zenon DEF apply
    <3>5. b \in Clients /\ StateOK(u) /\ Lasting(u)
      BY <2>3, <2>4, <2>6, <3>1, EntryTypes, TxidTypes, Zenon
    <3>6. r.s = SetLast(u, b, x)
      BY <3>2 DEF SetLast
    <3>7. r.s.kv = u.kv
      <4>1. LastSet(u, b, x, SetLast(u, b, x))
        BY <3>5, LastPart, Zenon
      <4> QED
        BY <3>6, <4>1, Zenon DEF LastSet
    <3> QED
      BY <1>4, <3>3, <3>4, <3>5, <3>7, Zenon DEF Lasting
  <2> QED
    BY <2>5, <2>6, Zenon
<1> QED
  BY <1>5, <1>6, <1>7, <1>8, EntryTypes, Zenon

-----------------------------------------------------------------------------
(* Nodes that have applied the same logs *)

\* h[i] is the state after i logs, applied by a clock that stands still.
States(h) == /\ h[0] = Empty
             /\ \A i \in 1 .. Len(log) : h[i] = apply(h[i - 1], i, log[i], 0).s

\* None of the first i logs gives a record an expiry time.
NoExpiry(i) == \A j \in 1 .. i : ~Expires(log[j])

\* The node is in the state that its logs lead to.
Agrees(n, h) == NoExpiry(sm[n].applied) => sm[n] = h[sm[n].applied] /\ Lasting(sm[n])

AgreeInv == \E h : States(h) /\ \A n \in Nodes : Agrees(n, h)

\* A new state machine holds no record.
LEMMA AgreeInit == Init => AgreeInv
<1> SUFFICES ASSUME Init PROVE AgreeInv
  OBVIOUS
<1>1. PICK h : h = [i \in 0 .. 0 |-> Empty]
  OBVIOUS
<1>2. h[0] = Empty /\ Len(log) = 0
  BY <1>1 DEF Init
<1>3. States(h)
  BY <1>2 DEF States
<1>4. Lasting(Empty)
  BY AbsentRecord, Zenon DEF Lasting, Empty
<1>5. \A n \in Nodes : sm[n] = Empty
  BY Zenon DEF Init
<1> QED
  BY <1>2, <1>3, <1>4, <1>5, EmptyOK, Zenon DEF AgreeInv, Agrees

\* A step that changes neither the log nor a state machine.
LEMMA AgreeKept ==
  ASSUME AgreeInv, UNCHANGED <<log, sm>>
  PROVE  AgreeInv'
<1>1. PICK h : States(h) /\ \A n \in Nodes : Agrees(n, h)
  BY Zenon DEF AgreeInv
<1>2. States(h)'
  BY <1>1, Zenon DEF States
<1>3. \A n \in Nodes : Agrees(n, h)'
  BY <1>1, Zenon DEF Agrees, NoExpiry
<1> QED
  BY <1>2, <1>3, Zenon DEF AgreeInv

\* The log grows by one entry.
LEMMA AgreeLonger ==
  ASSUME AgreeInv, TypeOK, NEW e \in Entries, log' = Append(log, e), UNCHANGED sm
  PROVE  AgreeInv'
<1>1. PICK h : States(h) /\ \A n \in Nodes : Agrees(n, h)
  BY Zenon DEF AgreeInv
<1>2. PICK N : N = Len(log)
  OBVIOUS
<1>3. N \in Nat /\ Len(log') = N + 1 /\ log'[N + 1] = e /\ \A i \in 1 .. N : log'[i] = log[i]
  BY <1>2, LogGrows DEF TypeOK
<1>4. PICK s : s = apply(h[N], N + 1, e, 0).s
  OBVIOUS
<1>5. PICK g : g = [i \in 0 .. N + 1 |-> IF i = N + 1 THEN s ELSE h[i]]
  OBVIOUS
<1>6. g[N + 1] = s /\ \A i \in 0 .. N : g[i] = h[i]
  BY <1>3, <1>5
<1>7. States(g)'
  <2>1. g[0] = Empty
    BY <1>1, <1>3, <1>6 DEF States
  <2>2. ASSUME NEW i \in 1 .. N + 1
        PROVE  g[i] = apply(g[i - 1], i, log'[i], 0).s
    <3>1. CASE i = N + 1
      <4>1. i - 1 = N /\ N \in 0 .. N
        BY <1>3, <3>1
      <4> QED
        BY <1>3, <1>4, <1>6, <3>1, <4>1, Zenon
    <3>2. CASE i # N + 1
      <4>1. i \in 1 .. N /\ i \in 0 .. N /\ i - 1 \in 0 .. N
        BY <1>3, <3>2
      <4> QED
        BY <1>1, <1>2, <1>3, <1>6, <4>1, Zenon DEF States
    <3> QED
      BY <3>1, <3>2, Zenon
  <2> QED
    BY <1>3, <2>1, <2>2, Zenon DEF States
<1>8. ASSUME NEW n \in Nodes
      PROVE  Agrees(n, g)'
  <2>1. sm[n].applied \in 0 .. N /\ \A j \in 1 .. sm[n].applied : j \in 1 .. N
    BY <1>2, <1>3, NodeTypes
  <2>2. NoExpiry(sm[n].applied)' => NoExpiry(sm[n].applied)
    BY <1>3, <2>1, Zenon DEF NoExpiry
  <2> QED
    BY <1>1, <1>6, <2>1, <2>2, Zenon DEF Agrees
<1> QED
  BY <1>7, <1>8, Zenon DEF AgreeInv

\* A node applies the next entry.
LEMMA AgreeApply ==
  ASSUME AgreeInv, ReplicationInv, NEW n \in Nodes, Apply(n)
  PROVE  AgreeInv'
<1>1. PICK h : States(h) /\ \A m \in Nodes : Agrees(m, h)
  BY Zenon DEF AgreeInv
<1>2. TypeOK
  BY Zenon DEF ReplicationInv
<1>3. PICK a : a = sm[n].applied
  OBVIOUS
<1>4. PICK e, d : /\ Applies(sm[n], a + 1, e, d) /\ sm'[n] = d.s
                  /\ e \in Entries /\ e = log[a + 1]
                  /\ d = apply(sm[n], a + 1, e, clock[n])
  BY <1>3, ApplyStep, Zenon
<1>5. StateOK(sm[n]) /\ a \in Nat /\ clock[n] \in 0 .. MaxTime /\ a + 1 \in 1 .. Len(log) /\ log' = log
  BY <1>2, <1>3, NodeTypes DEF Apply
<1>6. sm'[n].applied = a + 1
  BY <1>4, Zenon DEF Applies
<1>7. \A m \in Nodes : m # n => sm'[m] = sm[m]
  BY <1>2, Zenon DEF Apply, TypeOK
<1>8. States(h)'
  BY <1>1, <1>5, Zenon DEF States
<1>9. ASSUME NEW m \in Nodes, m # n
      PROVE  Agrees(m, h)'
  BY <1>1, <1>5, <1>7, <1>9, Zenon DEF Agrees, NoExpiry
<1>10. Agrees(n, h)'
  <2>1. SUFFICES ASSUME \A j \in 1 .. a + 1 : ~Expires(log[j])
                 PROVE  d.s = h[a + 1] /\ Lasting(d.s)
    BY <1>4, <1>5, <1>6, Zenon DEF Agrees, NoExpiry
  <2>2. NoExpiry(a) /\ ~Expires(e)
    BY <1>4, <1>5, <2>1 DEF NoExpiry
  <2>3. sm[n] = h[a] /\ Lasting(sm[n])
    BY <1>1, <1>3, <2>2, Zenon DEF Agrees
  <2>4. d = apply(sm[n], a + 1, e, 0) /\ Lasting(d.s)
    BY <1>4, <1>5, <2>2, <2>3, ApplyLasting, Zenon
  <2>5. (a + 1) - 1 = a
    BY <1>5
  <2>6. h[a + 1] = apply(h[a], a + 1, log[a + 1], 0).s
    BY <1>1, <1>5, <2>5, Zenon DEF States
  <2> QED
    BY <1>4, <2>3, <2>4, <2>6, Zenon
<1> QED
  BY <1>8, <1>9, <1>10, Zenon DEF AgreeInv

\* A node takes over the state of another one.
LEMMA AgreeSnapshot ==
  ASSUME AgreeInv, TypeOK, NEW n \in Nodes, NEW m \in Nodes, InstallSnapshot(n, m)
  PROVE  AgreeInv'
<1>1. PICK h : States(h) /\ \A i \in Nodes : Agrees(i, h)
  BY Zenon DEF AgreeInv
<1>2. sm'[n] = sm[m] /\ (\A i \in Nodes : i # n => sm'[i] = sm[i]) /\ log' = log
  BY Zenon DEF InstallSnapshot, TypeOK
<1>3. States(h)'
  BY <1>1, <1>2, Zenon DEF States
<1>4. ASSUME NEW i \in Nodes
      PROVE  Agrees(i, h)'
  <2>1. PICK j \in Nodes : sm'[i] = sm[j]
    BY <1>2, Zenon
  <2> QED
    BY <1>1, <1>2, <2>1, Zenon DEF Agrees, NoExpiry
<1> QED
  BY <1>3, <1>4, Zenon DEF AgreeInv

\* Every step keeps it.
LEMMA AgreeStep == AgreeInv /\ ReplicationInv /\ [Next]_vars => AgreeInv'
<1> SUFFICES ASSUME AgreeInv, ReplicationInv, [Next]_vars PROVE AgreeInv'
  OBVIOUS
<1>1. TypeOK
  BY Zenon DEF ReplicationInv
<1>2. ASSUME NEW c \in Clients, Commit(c) PROVE AgreeInv'
  <2>1. PICK i \in DOMAIN flight[c] : log' = Append(log, flight[c][i])
    BY <1>2, Zenon DEF Commit
  <2>2. flight[c][i] \in Entries
    BY <1>1 DEF TypeOK, Entries
  <2> QED
    BY <1>1, <1>2, <2>1, <2>2, AgreeLonger, Zenon DEF Commit
<1>3. ASSUME NEW e \in Others, CommitOther(e) PROVE AgreeInv'
  BY <1>1, <1>3, AgreeLonger, Zenon DEF CommitOther, Entries
<1>4. ASSUME \/ \E c \in Clients, cmd \in Cmds : Send(c, cmd)
             \/ \E c \in Clients : Resend(c)
             \/ \E n \in Nodes : Tick(n)
             \/ \E c \in Clients, n \in Nodes : Answer(c, n)
             \/ UNCHANGED vars
      PROVE  AgreeInv'
  <2>1. UNCHANGED <<log, sm>>
    BY <1>4, Zenon DEF Send, Resend, Tick, Answer, vars
  <2> QED
    BY <2>1, AgreeKept, Zenon
<1> QED
  BY <1>1, <1>2, <1>3, <1>4, AgreeApply, AgreeSnapshot, Zenon DEF Next

\* The states of the nodes are a function of the logs they applied, as long as no
\* record with an expiry time is among them: for any number of nodes, clocks,
\* snapshots, repeated requests and log entries.
THEOREM NodesAgree == Spec => []ReplicasAgree
<1>1. AgreeInv => ReplicasAgree
  BY Zenon DEF AgreeInv, Agrees, NoExpiry, ReplicasAgree
<1> QED
  BY <1>1, AgreeInit, AgreeStep, ReplicationInvHolds, PTL DEF Spec
=============================================================================
