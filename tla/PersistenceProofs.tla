------------------------- MODULE PersistenceProofs -------------------------
(***************************************************************************)
(* Proofs about the three users of the database: bans with the firewall    *)
(* (BanStore), accounts and sign-in (Accounts), and the content moderator  *)
(* (Moderation).  The database itself is Database.  The invariants they    *)
(* share are about its queue: what is still owed to the tables and what    *)
(* the tables will hold once the worker has run what is waiting.           *)
(***************************************************************************)
EXTENDS BanStore, Accounts, Moderation, DataLemmas


-----------------------------------------------------------------------------
(* Running the queue.  The recursive functions of RunAll and HelpAll exist. *)

Runs(f, at, d, q, n) ==
    /\ f = [k \in 0..n |-> f[k]]
    /\ f[0] = d /\ \A k \in 1..n : f[k] = Run(at, f[k - 1], q[k])

LEMMA RunsExist ==
    ASSUME NEW at, NEW d, NEW q
    PROVE  \A n \in Nat : \E f : Runs(f, at, d, q, n)
<1> DEFINE S == {n \in Nat : \E f : Runs(f, at, d, q, n)}
<1>1. 0 \in S
  <2>1. Runs([k \in 0..0 |-> d], at, d, q, 0)
    BY DEF Runs
  <2> QED BY <2>1
<1>2. ASSUME NEW n \in Nat, n \in S PROVE n + 1 \in S
  <2>1. PICK f : Runs(f, at, d, q, n)
    BY <1>2
  <2> DEFINE g == [k \in 0..(n + 1) |-> IF k <= n THEN f[k] ELSE Run(at, f[k - 1], q[k])]
  <2>2. g = [k \in 0..(n + 1) |-> g[k]] /\ g[0] = d
    <3>1. f[0] = d
      BY <2>1 DEF Runs
    <3>2. g[0] = f[0]
      OBVIOUS
    <3>3. g = [k \in 0..(n + 1) |-> g[k]]
      OBVIOUS
    <3> QED BY <3>1, <3>2, <3>3, Zenon
  <2>3. ASSUME NEW k \in 1..(n + 1)
        PROVE  g[k] = Run(at, g[k - 1], q[k])
    <3>1. g[k - 1] = f[k - 1]
      OBVIOUS
    <3>2. CASE k <= n
      <4>1. g[k] = f[k] /\ k \in 1..n
        BY <3>2
      <4>2. f[k] = Run(at, f[k - 1], q[k])
        BY <2>1, <4>1, Zenon DEF Runs
      <4> QED BY <3>1, <4>1, <4>2, Zenon
    <3>3. CASE ~(k <= n)
      <4>1. k \in 0..(n + 1)
        OBVIOUS
      <4>2. g[k] = Run(at, f[k - 1], q[k])
        BY <3>3, <4>1, Zenon
      <4> QED BY <3>1, <4>2, Zenon
    <3> QED BY <3>2, <3>3
  <2>4. Runs(g, at, d, q, n + 1)
    BY <2>2, <2>3, Zenon DEF Runs
  <2> QED BY <2>4
<1> HIDE DEF S
<1>3. \A n \in Nat : n \in S
  BY <1>1, <1>2, InductionBySet
<1> QED BY <1>3 DEF S

LEMMA RunAllUnfolds ==
    ASSUME NEW at, NEW d, NEW q, Len(q) \in Nat
    PROVE  \E f : Runs(f, at, d, q, Len(q)) /\ RunAll(at, d, q) = f[Len(q)]
<1> DEFINE n == Len(q)
           Def(f) == [k \in 0..n |-> IF k = 0 THEN d ELSE Run(at, f[k - 1], q[k])]
           g == CHOOSE f : f = Def(f)
<1>1. PICK f : Runs(f, at, d, q, n)
  BY RunsExist
<1>2. f = Def(f)
  <2>1. ASSUME NEW k \in 0..n PROVE f[k] = Def(f)[k]
    <3>1. CASE k = 0
      BY <1>1, <3>1 DEF Runs
    <3>2. CASE k # 0
      <4>1. k \in 1..n
        BY <3>2
      <4>2. f[k] = Run(at, f[k - 1], q[k])
        BY <1>1, <4>1, Zenon DEF Runs
      <4> QED BY <3>2, <4>2, Zenon
    <3> QED BY <3>1, <3>2
  <2>2. f = [k \in 0..n |-> f[k]]
    BY <1>1, Zenon DEF Runs
  <2> QED BY <2>1, <2>2, Zenon
<1>3. g = Def(g)
  BY <1>2, Zenon
<1>4. RunAll(at, d, q) = g[n]
  BY DEF RunAll
<1> HIDE DEF g
<1>5. Runs(g, at, d, q, n)
  <2>1. ASSUME NEW k \in 1..n PROVE g[k] = Run(at, g[k - 1], q[k])
    <3>1. k # 0 /\ k \in 0..n
      OBVIOUS
    <3> QED BY <1>3, <3>1, Zenon
  <2>2. g = [k \in 0..n |-> g[k]]
    BY <1>3, Zenon
  <2>3. g[0] = d
    <3>1. 0 \in 0..n
      OBVIOUS
    <3> QED BY <1>3, <3>1, Zenon
  <2> QED BY <2>1, <2>2, <2>3, Zenon DEF Runs
<1> QED BY <1>4, <1>5

\* The states the tables go through are determined.
LEMMA RunsUnique ==
    ASSUME NEW at, NEW d, NEW q, NEW n \in Nat, NEW f, NEW g, Runs(f, at, d, q, n), Runs(g, at, d, q, n)
    PROVE  \A k \in 0..n : f[k] = g[k]
<1> DEFINE S == {k \in Nat : k <= n => f[k] = g[k]}
<1>1. 0 \in S
  BY DEF Runs
<1>2. ASSUME NEW k \in Nat, k \in S PROVE k + 1 \in S
  <2> SUFFICES ASSUME k + 1 <= n PROVE f[k + 1] = g[k + 1]
    OBVIOUS
  <2>1. f[k] = g[k] /\ k + 1 \in 1..n /\ (k + 1) - 1 = k
    BY <1>2
  <2>2. f[k + 1] = Run(at, f[(k + 1) - 1], q[k + 1]) /\ g[k + 1] = Run(at, g[(k + 1) - 1], q[k + 1])
    BY <2>1, Zenon DEF Runs
  <2> QED BY <2>1, <2>2, Zenon
<1> HIDE DEF S
<1>3. \A k \in Nat : k \in S
  BY <1>1, <1>2, InductionBySet
<1> QED BY <1>3 DEF S

LEMMA RunAllEmpty == \A at, d : RunAll(at, d, <<>>) = d
<1> SUFFICES ASSUME NEW at, NEW d PROVE RunAll(at, d, <<>>) = d
  OBVIOUS
<1>1. Len(<<>>) = 0
  OBVIOUS
<1>2. PICK f : Runs(f, at, d, <<>>, Len(<<>>)) /\ RunAll(at, d, <<>>) = f[Len(<<>>)]
  BY <1>1, RunAllUnfolds
<1> QED BY <1>1, <1>2 DEF Runs

\* A task queued last is run last ...
LEMMA RunAllAppend ==
    ASSUME NEW T, NEW at, NEW d, NEW q \in Seq(T), NEW t \in T
    PROVE  RunAll(at, d, Append(q, t)) = Run(at, RunAll(at, d, q), t)
<1> DEFINE r == Append(q, t)
           n == Len(q)
<1>1. n \in Nat /\ Len(r) = n + 1 /\ r[n + 1] = t /\ \A k \in 1..n : r[k] = q[k]
  OBVIOUS
<1> HIDE DEF r
<1>2. PICK f : Runs(f, at, d, q, n) /\ RunAll(at, d, q) = f[n]
  BY <1>1, RunAllUnfolds
<1>3. PICK g : Runs(g, at, d, r, n + 1) /\ RunAll(at, d, r) = g[n + 1]
  BY <1>1, RunAllUnfolds
<1> DEFINE h == [k \in 0..n |-> g[k]]
<1>4. Runs(h, at, d, q, n)
  <2>1. ASSUME NEW k \in 1..n PROVE h[k] = Run(at, h[k - 1], q[k])
    <3>1. k \in 1..(n + 1) /\ k \in 0..n /\ k - 1 \in 0..n /\ r[k] = q[k]
      BY <1>1
    <3>2. g[k] = Run(at, g[k - 1], r[k])
      BY <1>3, <3>1, Zenon DEF Runs
    <3> QED BY <3>1, <3>2, Zenon
  <2>2. h[0] = d
    <3>1. 0 \in 0..n
      BY <1>1
    <3> QED BY <1>3, <3>1, Zenon DEF Runs
  <2>3. h = [k \in 0..n |-> h[k]]
    OBVIOUS
  <2> HIDE DEF h
  <2> QED BY <2>1, <2>2, <2>3, Zenon DEF Runs
<1>5. h[n] = f[n] /\ n \in 0..n
  <2> HIDE DEF h
  <2> QED BY <1>1, <1>2, <1>4, RunsUnique
<1>6. n + 1 \in 1..(n + 1) /\ (n + 1) - 1 = n
  BY <1>1
<1>7. g[n + 1] = Run(at, g[n], r[n + 1])
  BY <1>3, <1>6, Zenon DEF Runs
<1> QED BY <1>1, <1>2, <1>3, <1>5, <1>7, Zenon DEF r

\* ... and the one at the head first.
LEMMA RunAllHead ==
    ASSUME NEW T, NEW at, NEW d, NEW q \in Seq(T), q # <<>>
    PROVE  RunAll(at, d, q) = RunAll(at, Run(at, d, Head(q)), Tail(q))
<1> DEFINE r == Tail(q)
           n == Len(r)
           e == Run(at, d, Head(q))
<1>1. n \in Nat /\ Len(q) = n + 1 /\ q[1] = Head(q) /\ \A k \in 1..n : r[k] = q[k + 1]
  OBVIOUS
<1> HIDE DEF r
<1>2. PICK f : Runs(f, at, d, q, n + 1) /\ RunAll(at, d, q) = f[n + 1]
  BY <1>1, RunAllUnfolds
<1>3. PICK g : Runs(g, at, e, r, n) /\ RunAll(at, e, r) = g[n]
  BY <1>1, RunAllUnfolds
<1> DEFINE h == [k \in 0..n |-> f[k + 1]]
<1>4. Runs(h, at, e, r, n)
  <2>1. ASSUME NEW k \in 1..n PROVE h[k] = Run(at, h[k - 1], r[k])
    <3>1. k + 1 \in 1..(n + 1) /\ k \in 0..n /\ k - 1 \in 0..n /\ r[k] = q[k + 1] /\ (k + 1) - 1 = k /\ (k - 1) + 1 = k
      BY <1>1
    <3>2. f[k + 1] = Run(at, f[(k + 1) - 1], q[k + 1])
      BY <1>2, <3>1, Zenon DEF Runs
    <3> QED BY <3>1, <3>2, Zenon
  <2>2. h[0] = e
    <3>1. 0 \in 0..n /\ 1 \in 1..(n + 1) /\ 0 + 1 = 1 /\ 1 - 1 = 0
      BY <1>1
    <3>2. f[0] = d /\ f[1] = Run(at, f[1 - 1], q[1])
      BY <1>2, <3>1, Zenon DEF Runs
    <3> QED BY <1>1, <3>1, <3>2, Zenon
  <2>3. h = [k \in 0..n |-> h[k]]
    OBVIOUS
  <2> HIDE DEF h
  <2> QED BY <2>1, <2>2, <2>3, Zenon DEF Runs
<1>5. h[n] = g[n] /\ n \in 0..n
  <2> HIDE DEF h
  <2> QED BY <1>1, <1>3, <1>4, RunsUnique
<1> QED BY <1>2, <1>3, <1>5, Zenon DEF r
-----------------------------------------------------------------------------
Helps(f, d, q, n) ==
    /\ f = [k \in 0..n |-> f[k]]
    /\ f[0] = d /\ \A k \in 1..n : f[k] = Helper(f[k - 1], q[k])

LEMMA HelpsExist ==
    ASSUME NEW d, NEW q
    PROVE  \A n \in Nat : \E f : Helps(f, d, q, n)
<1> DEFINE S == {n \in Nat : \E f : Helps(f, d, q, n)}
<1>1. 0 \in S
  <2>1. Helps([k \in 0..0 |-> d], d, q, 0)
    BY DEF Helps
  <2> QED BY <2>1
<1>2. ASSUME NEW n \in Nat, n \in S PROVE n + 1 \in S
  <2>1. PICK f : Helps(f, d, q, n)
    BY <1>2
  <2> DEFINE g == [k \in 0..(n + 1) |-> IF k <= n THEN f[k] ELSE Helper(f[k - 1], q[k])]
  <2>2. g = [k \in 0..(n + 1) |-> g[k]] /\ g[0] = d
    <3>1. f[0] = d
      BY <2>1 DEF Helps
    <3>2. g[0] = f[0]
      OBVIOUS
    <3>3. g = [k \in 0..(n + 1) |-> g[k]]
      OBVIOUS
    <3> QED BY <3>1, <3>2, <3>3, Zenon
  <2>3. ASSUME NEW k \in 1..(n + 1)
        PROVE  g[k] = Helper(g[k - 1], q[k])
    <3>1. g[k - 1] = f[k - 1]
      OBVIOUS
    <3>2. CASE k <= n
      <4>1. g[k] = f[k] /\ k \in 1..n
        BY <3>2
      <4>2. f[k] = Helper(f[k - 1], q[k])
        BY <2>1, <4>1, Zenon DEF Helps
      <4> QED BY <3>1, <4>1, <4>2, Zenon
    <3>3. CASE ~(k <= n)
      <4>1. k \in 0..(n + 1)
        OBVIOUS
      <4>2. g[k] = Helper(f[k - 1], q[k])
        BY <3>3, <4>1, Zenon
      <4> QED BY <3>1, <4>2, Zenon
    <3> QED BY <3>2, <3>3
  <2>4. Helps(g, d, q, n + 1)
    BY <2>2, <2>3, Zenon DEF Helps
  <2> QED BY <2>4
<1> HIDE DEF S
<1>3. \A n \in Nat : n \in S
  BY <1>1, <1>2, InductionBySet
<1> QED BY <1>3 DEF S

LEMMA HelpAllUnfolds ==
    ASSUME NEW d, NEW q, Len(q) \in Nat
    PROVE  \E f : Helps(f, d, q, Len(q)) /\ HelpAll(d, q) = f[Len(q)]
<1> DEFINE n == Len(q)
           Def(f) == [k \in 0..n |-> IF k = 0 THEN d ELSE Helper(f[k - 1], q[k])]
           g == CHOOSE f : f = Def(f)
<1>1. PICK f : Helps(f, d, q, n)
  BY HelpsExist
<1>2. f = Def(f)
  <2>1. ASSUME NEW k \in 0..n PROVE f[k] = Def(f)[k]
    <3>1. CASE k = 0
      BY <1>1, <3>1 DEF Helps
    <3>2. CASE k # 0
      <4>1. k \in 1..n
        BY <3>2
      <4>2. f[k] = Helper(f[k - 1], q[k])
        BY <1>1, <4>1, Zenon DEF Helps
      <4> QED BY <3>2, <4>2, Zenon
    <3> QED BY <3>1, <3>2
  <2>2. f = [k \in 0..n |-> f[k]]
    BY <1>1, Zenon DEF Helps
  <2> QED BY <2>1, <2>2, Zenon
<1>3. g = Def(g)
  BY <1>2, Zenon
<1>4. HelpAll(d, q) = g[n]
  BY DEF HelpAll
<1> HIDE DEF g
<1>5. Helps(g, d, q, n)
  <2>1. ASSUME NEW k \in 1..n PROVE g[k] = Helper(g[k - 1], q[k])
    <3>1. k # 0 /\ k \in 0..n
      OBVIOUS
    <3> QED BY <1>3, <3>1, Zenon
  <2>2. g = [k \in 0..n |-> g[k]]
    BY <1>3, Zenon
  <2>3. g[0] = d
    <3>1. 0 \in 0..n
      OBVIOUS
    <3> QED BY <1>3, <3>1, Zenon
  <2> QED BY <2>1, <2>2, <2>3, Zenon DEF Helps
<1> QED BY <1>4, <1>5

\* So are those of the kernel.
LEMMA HelpsUnique ==
    ASSUME NEW d, NEW q, NEW n \in Nat, NEW f, NEW g, Helps(f, d, q, n), Helps(g, d, q, n)
    PROVE  \A k \in 0..n : f[k] = g[k]
<1> DEFINE S == {k \in Nat : k <= n => f[k] = g[k]}
<1>1. 0 \in S
  BY DEF Helps
<1>2. ASSUME NEW k \in Nat, k \in S PROVE k + 1 \in S
  <2> SUFFICES ASSUME k + 1 <= n PROVE f[k + 1] = g[k + 1]
    OBVIOUS
  <2>1. f[k] = g[k] /\ k + 1 \in 1..n /\ (k + 1) - 1 = k
    BY <1>2
  <2>2. f[k + 1] = Helper(f[(k + 1) - 1], q[k + 1]) /\ g[k + 1] = Helper(g[(k + 1) - 1], q[k + 1])
    BY <2>1, Zenon DEF Helps
  <2> QED BY <2>1, <2>2, Zenon
<1> HIDE DEF S
<1>3. \A k \in Nat : k \in S
  BY <1>1, <1>2, InductionBySet
<1> QED BY <1>3 DEF S

LEMMA HelpAllEmpty == \A d : HelpAll(d, <<>>) = d
<1> SUFFICES ASSUME NEW d PROVE HelpAll(d, <<>>) = d
  OBVIOUS
<1>1. Len(<<>>) = 0
  OBVIOUS
<1>2. PICK f : Helps(f, d, <<>>, Len(<<>>)) /\ HelpAll(d, <<>>) = f[Len(<<>>)]
  BY <1>1, HelpAllUnfolds
<1> QED BY <1>1, <1>2 DEF Helps

\* A command queued last is the last ...
LEMMA HelpAllAppend ==
    ASSUME NEW T, NEW d, NEW q \in Seq(T), NEW t \in T
    PROVE  HelpAll(d, Append(q, t)) = Helper(HelpAll(d, q), t)
<1> DEFINE r == Append(q, t)
           n == Len(q)
<1>1. n \in Nat /\ Len(r) = n + 1 /\ r[n + 1] = t /\ \A k \in 1..n : r[k] = q[k]
  OBVIOUS
<1> HIDE DEF r
<1>2. PICK f : Helps(f, d, q, n) /\ HelpAll(d, q) = f[n]
  BY <1>1, HelpAllUnfolds
<1>3. PICK g : Helps(g, d, r, n + 1) /\ HelpAll(d, r) = g[n + 1]
  BY <1>1, HelpAllUnfolds
<1> DEFINE h == [k \in 0..n |-> g[k]]
<1>4. Helps(h, d, q, n)
  <2>1. ASSUME NEW k \in 1..n PROVE h[k] = Helper(h[k - 1], q[k])
    <3>1. k \in 1..(n + 1) /\ k \in 0..n /\ k - 1 \in 0..n /\ r[k] = q[k]
      BY <1>1
    <3>2. g[k] = Helper(g[k - 1], r[k])
      BY <1>3, <3>1, Zenon DEF Helps
    <3> QED BY <3>1, <3>2, Zenon
  <2>2. h[0] = d
    <3>1. 0 \in 0..n
      BY <1>1
    <3> QED BY <1>3, <3>1, Zenon DEF Helps
  <2>3. h = [k \in 0..n |-> h[k]]
    OBVIOUS
  <2> HIDE DEF h
  <2> QED BY <2>1, <2>2, <2>3, Zenon DEF Helps
<1>5. h[n] = f[n] /\ n \in 0..n
  <2> HIDE DEF h
  <2> QED BY <1>1, <1>2, <1>4, HelpsUnique
<1>6. n + 1 \in 1..(n + 1) /\ (n + 1) - 1 = n
  BY <1>1
<1>7. g[n + 1] = Helper(g[n], r[n + 1])
  BY <1>3, <1>6, Zenon DEF Helps
<1> QED BY <1>1, <1>2, <1>3, <1>5, <1>7, Zenon DEF r

\* ... and the one at the head is the first.
LEMMA HelpAllHead ==
    ASSUME NEW T, NEW d, NEW q \in Seq(T), q # <<>>
    PROVE  HelpAll(d, q) = HelpAll(Helper(d, Head(q)), Tail(q))
<1> DEFINE r == Tail(q)
           n == Len(r)
           e == Helper(d, Head(q))
<1>1. n \in Nat /\ Len(q) = n + 1 /\ q[1] = Head(q) /\ \A k \in 1..n : r[k] = q[k + 1]
  OBVIOUS
<1> HIDE DEF r
<1>2. PICK f : Helps(f, d, q, n + 1) /\ HelpAll(d, q) = f[n + 1]
  BY <1>1, HelpAllUnfolds
<1>3. PICK g : Helps(g, e, r, n) /\ HelpAll(e, r) = g[n]
  BY <1>1, HelpAllUnfolds
<1> DEFINE h == [k \in 0..n |-> f[k + 1]]
<1>4. Helps(h, e, r, n)
  <2>1. ASSUME NEW k \in 1..n PROVE h[k] = Helper(h[k - 1], r[k])
    <3>1. k + 1 \in 1..(n + 1) /\ k \in 0..n /\ k - 1 \in 0..n /\ r[k] = q[k + 1] /\ (k + 1) - 1 = k /\ (k - 1) + 1 = k
      BY <1>1
    <3>2. f[k + 1] = Helper(f[(k + 1) - 1], q[k + 1])
      BY <1>2, <3>1, Zenon DEF Helps
    <3> QED BY <3>1, <3>2, Zenon
  <2>2. h[0] = e
    <3>1. 0 \in 0..n /\ 1 \in 1..(n + 1) /\ 0 + 1 = 1 /\ 1 - 1 = 0
      BY <1>1
    <3>2. f[0] = d /\ f[1] = Helper(f[1 - 1], q[1])
      BY <1>2, <3>1, Zenon DEF Helps
    <3> QED BY <1>1, <3>1, <3>2, Zenon
  <2>3. h = [k \in 0..n |-> h[k]]
    OBVIOUS
  <2> HIDE DEF h
  <2> QED BY <2>1, <2>2, <2>3, Zenon DEF Helps
<1>5. h[n] = g[n] /\ n \in 0..n
  <2> HIDE DEF h
  <2> QED BY <1>1, <1>3, <1>4, HelpsUnique
<1> QED BY <1>2, <1>3, <1>5, Zenon DEF r

-----------------------------------------------------------------------------
(* Bans: StoreKept.                                                        *)

Durs == {Permanent} \cup Nat
Row == [id : Nat, ipid : Ipids, hdid : Hdids \cup {NoHdid}, ip : BOOLEAN, time : Nat, dur : Durs]
Tables == [bans : Seq(Row), users : {NoTables.users}, tokens : {<<>>}, mutes : {{}}, events : {<<>>}]
BanTask == [op : {"add_ban"}, entry : Row] \cup [op : {"invalidate_ban"}, id : Nat]
              \cup [op : {"update_ban"}, id : Nat, field : {"duration"}, value : Durs]

\* The row a task on rows changes, and the duration it gives it.
Change == [op : {"invalidate_ban"}, id : Nat]
              \cup [op : {"update_ban"}, id : Nat, field : {"duration"}, value : Durs]
Given(t) == IF t.op = "invalidate_ban" THEN 0 ELSE t.value

\* The rows with the duration of row c set to v.
With1(rows, c, v) == [rows EXCEPT ![c] = [@ EXCEPT !.dur = v]]

Active(at, e) == e.dur # 0 /\ (e.dur = Permanent \/ at <= e.time + e.dur)

LEMMA ActiveNow ==
    /\ now \in Int => \A e \in Row : is_ban_active(e) = Active(now, e)
    /\ now' \in Int => \A e \in Row : is_ban_active(e)' = Active(now', e)
BY DEF is_ban_active, is_expired, Active, Row, Durs, Permanent

LEMMA TablesExcept ==
    ASSUME NEW d \in Tables, NEW s \in Seq(Row)
    PROVE  [d EXCEPT !.bans = s] \in Tables /\ [d EXCEPT !.bans = s].bans = s
<1>1. DOMAIN d = {"bans", "users", "tokens", "mutes", "events"}
  BY DEF Tables
<1> QED BY <1>1 DEF Tables

LEMMA TablesBans == \A d \in Tables : d.bans \in Seq(Row)
BY DEF Tables

LEMMA AppendRow ==
    ASSUME NEW d \in Tables, NEW e \in Row
    PROVE  Append(d.bans, e) \in Seq(Row)
BY DEF Tables

LEMMA ChangedRow ==
    ASSUME NEW d \in Tables, NEW k \in DOMAIN d.bans, NEW v \in Durs
    PROVE  With1(d.bans, k, v) \in Seq(Row)
<1>1. d.bans \in Seq(Row) /\ d.bans[k] \in Row
  BY DEF Tables
<1> DEFINE r == [d.bans[k] EXCEPT !.dur = v]
<1>2. r \in Row
  BY <1>1 DEF Row
<1> HIDE DEF r
<1>3. [d.bans EXCEPT ![k] = r] \in Seq(Row)
  BY <1>1, <1>2
<1> QED BY <1>3 DEF r, With1

\* What each task does to the table of bans.
LEMMA AddRuns ==
    ASSUME NEW at, NEW d \in Tables, NEW t \in BanTask, t.op = "add_ban"
    PROVE  /\ Run(at, d, t) \in Tables /\ t.entry \in Row
           /\ Run(at, d, t).bans = Append(d.bans, t.entry)
<1>1. Run(at, d, t) = [d EXCEPT !.bans = Append(@, t.entry)]
  BY DEF Run, add_ban
<1>2. t.entry \in Row
  BY DEF BanTask
<1> QED BY <1>1, <1>2, TablesExcept, AppendRow

LEMMA ChangeRuns ==
    ASSUME NEW at, NEW d \in Tables, NEW t \in Change, t.id \in DOMAIN d.bans
    PROVE  /\ Run(at, d, t) \in Tables /\ Given(t) \in Durs
           /\ Run(at, d, t).bans = With1(d.bans, t.id, Given(t))
<1>1. Given(t) \in Durs
  BY DEF Change, Given, Durs
<1>2. Run(at, d, t) = [d EXCEPT !.bans = [d.bans EXCEPT ![t.id] = [@ EXCEPT !.dur = Given(t)]]]
  <2>1. CASE t.op = "invalidate_ban"
    BY <2>1 DEF Run, invalidate_ban, Given
  <2>2. CASE t.op = "update_ban"
    <3>1. t.field = "duration"
      BY <2>2 DEF Change
    <3> QED BY <2>2, <3>1 DEF Run, update_ban, Given
  <2> QED BY <2>1, <2>2 DEF Change
<1>3. With1(d.bans, t.id, Given(t)) \in Seq(Row)
  BY <1>1, ChangedRow
<1> QED BY <1>1, <1>2, <1>3, TablesExcept DEF With1

LEMMA TaskKinds ==
    ASSUME NEW t \in BanTask
    PROVE  t.op = "add_ban" \/ (t.op # "add_ban" /\ t \in Change /\ t.id \in Nat)
BY DEF BanTask, Change

\* A change of a row that is not there does nothing.
LEMMA NoRowRuns ==
    ASSUME NEW at, NEW d, NEW t \in Change, t.id \notin DOMAIN d.bans
    PROVE  Run(at, d, t) = d
BY DEF Run, invalidate_ban, update_ban, Change

\* The bans of d grow into those of e.
Grown(d, e) ==
    /\ d \in Tables /\ e \in Tables /\ Len(d.bans) <= Len(e.bans)
    /\ \A k \in DOMAIN d.bans : e.bans[k].ipid = d.bans[k].ipid

LEMMA TaskGrows ==
    ASSUME NEW at, NEW d \in Tables, NEW t \in BanTask
    PROVE  Grown(d, Run(at, d, t))
<1>1. CASE t.op = "add_ban"
  <2> DEFINE e == Run(at, d, t)
  <2>1. e \in Tables /\ t.entry \in Row /\ e.bans = Append(d.bans, t.entry) /\ d.bans \in Seq(Row)
    BY <1>1, AddRuns, TablesBans
  <2> HIDE DEF e
  <2>2. Len(d.bans) <= Len(e.bans) /\ \A k \in DOMAIN d.bans : e.bans[k] = d.bans[k]
    BY <2>1
  <2> QED BY <2>1, <2>2, Zenon DEF Grown, e
<1>2. CASE t \in Change /\ t.id \in DOMAIN d.bans
  <2> DEFINE e == Run(at, d, t)
  <2>1. e \in Tables /\ e.bans = With1(d.bans, t.id, Given(t)) /\ d.bans \in Seq(Row)
    BY <1>2, ChangeRuns, TablesBans
  <2> HIDE DEF e
  <2>2. Len(d.bans) = Len(e.bans) /\ \A k \in DOMAIN d.bans : e.bans[k].ipid = d.bans[k].ipid
    BY <2>1 DEF Row, With1
  <2>3. Len(d.bans) <= Len(e.bans)
    BY <2>2, <2>1
  <2> QED BY <2>1, <2>2, <2>3, Zenon DEF Grown, e
<1>3. CASE t \in Change /\ t.id \notin DOMAIN d.bans
  <2>1. Run(at, d, t) = d /\ Len(d.bans) \in Nat
    BY <1>3, NoRowRuns DEF Tables
  <2> QED BY <2>1 DEF Grown
<1> QED BY <1>1, <1>2, <1>3, TaskKinds

LEMMA RunsGrow ==
    ASSUME NEW at, NEW d \in Tables, NEW q \in Seq(BanTask), NEW f, Runs(f, at, d, q, Len(q))
    PROVE  \A n \in 0..Len(q) : Grown(d, f[n])
<1> DEFINE S == {n \in Nat : n <= Len(q) => Grown(d, f[n])}
<1>1. 0 \in S
  BY DEF Runs, Grown, Tables
<1>2. ASSUME NEW n \in Nat, n \in S PROVE n + 1 \in S
  <2> SUFFICES ASSUME n + 1 <= Len(q) PROVE Grown(d, f[n + 1])
    OBVIOUS
  <2>1. Grown(d, f[n]) /\ n + 1 \in 1..Len(q) /\ (n + 1) - 1 = n /\ q[n + 1] \in BanTask
    BY <1>2
  <2>2. f[n + 1] = Run(at, f[n], q[n + 1])
    BY <2>1, Zenon DEF Runs
  <2>3. Grown(f[n], f[n + 1]) /\ f[n] \in Tables /\ f[n + 1] \in Tables
    <3>1. f[n] \in Tables
      BY <2>1 DEF Grown
    <3>2. Grown(f[n], f[n + 1])
      BY <2>1, <2>2, <3>1, TaskGrows
    <3> QED BY <3>1, <3>2 DEF Grown
  <2>4. \A k \in DOMAIN d.bans : k \in DOMAIN f[n].bans
    BY <2>1, <2>3 DEF Grown, Tables
  <2>5. Len(d.bans) \in Nat /\ Len(f[n].bans) \in Nat /\ Len(f[n + 1].bans) \in Nat
    BY <2>3 DEF Grown, Tables
  <2>6. Len(d.bans) <= Len(f[n].bans) /\ Len(f[n].bans) <= Len(f[n + 1].bans)
    BY <2>1, <2>3, Zenon DEF Grown
  <2>7. \A k \in DOMAIN d.bans : f[n + 1].bans[k].ipid = d.bans[k].ipid
    BY <2>1, <2>3, <2>4, Zenon DEF Grown
  <2>8. Len(d.bans) <= Len(f[n + 1].bans)
    BY <2>5, <2>6
  <2> QED BY <2>3, <2>7, <2>8, Zenon DEF Grown
<1> HIDE DEF S
<1>3. \A n \in Nat : n \in S
  BY <1>1, <1>2, InductionBySet
<1> QED BY <1>3 DEF S

LEMMA QueueGrows ==
    ASSUME NEW at, NEW d \in Tables, NEW q \in Seq(BanTask)
    PROVE  Grown(d, RunAll(at, d, q))
<1>1. Len(q) \in Nat /\ Len(q) \in 0..Len(q)
  OBVIOUS
<1>2. PICK f : Runs(f, at, d, q, Len(q)) /\ RunAll(at, d, q) = f[Len(q)]
  BY <1>1, RunAllUnfolds
<1> QED BY <1>1, <1>2, RunsGrow

\* No task on bans looks at the clock.
LEMMA BansIgnoreTime ==
    ASSUME NEW at, NEW to, NEW d \in Tables, NEW q \in Seq(BanTask)
    PROVE  RunAll(at, d, q) = RunAll(to, d, q)
<1> DEFINE n == Len(q)
<1>1. n \in Nat /\ n \in 0..n
  OBVIOUS
<1>2. PICK f : Runs(f, at, d, q, n) /\ RunAll(at, d, q) = f[n]
  BY <1>1, RunAllUnfolds
<1>3. PICK g : Runs(g, to, d, q, n) /\ RunAll(to, d, q) = g[n]
  BY <1>1, RunAllUnfolds
<1>4. ASSUME NEW e, NEW t \in BanTask PROVE Run(at, e, t) = Run(to, e, t)
  <2>1. t.op \in {"add_ban", "invalidate_ban", "update_ban"}
    BY DEF BanTask
  <2> QED BY <2>1 DEF Run
<1>5. Runs(g, at, d, q, n)
  <2>1. ASSUME NEW k \in 1..n PROVE g[k] = Run(at, g[k - 1], q[k])
    <3>1. q[k] \in BanTask
      OBVIOUS
    <3>2. g[k] = Run(to, g[k - 1], q[k])
      BY <1>3, Zenon DEF Runs
    <3> QED BY <1>4, <3>1, <3>2, Zenon
  <2> QED BY <1>3, <2>1, Zenon DEF Runs
<1> QED BY <1>1, <1>2, <1>3, <1>5, RunsUnique

\* Row k of rows is the ban e, and the bans that follow it for its address are over.
Same(r, e) == r.ipid = e.ipid /\ r.time = e.time /\ r.dur = e.dur

StandsAt(at, rows, k, e) ==
    /\ k \in DOMAIN rows /\ Same(rows[k], e)
    /\ \A m \in DOMAIN rows : m > k /\ rows[m].ipid = e.ipid => ~Active(at, rows[m])

LEMMA StandsNew ==
    ASSUME NEW at, NEW rows \in Seq(Row), NEW r \in Row
    PROVE  StandsAt(at, Append(rows, r), Len(rows) + 1, r)
<1> DEFINE q == Append(rows, r)
<1>1. DOMAIN q = 1..(Len(rows) + 1) /\ q[Len(rows) + 1] = r /\ Len(rows) \in Nat
  OBVIOUS
<1> HIDE DEF q
<1>2. StandsAt(at, q, Len(rows) + 1, r)
  BY <1>1 DEF StandsAt, Same
<1> QED BY <1>2 DEF q

LEMMA StandsAppend ==
    ASSUME NEW at, NEW rows \in Seq(Row), NEW r \in Row, NEW e, NEW k, StandsAt(at, rows, k, e), r.ipid # e.ipid
    PROVE  StandsAt(at, Append(rows, r), k, e)
<1> DEFINE q == Append(rows, r)
<1>1. DOMAIN q = 1..(Len(rows) + 1) /\ q[Len(rows) + 1] = r /\ Len(rows) \in Nat /\ DOMAIN rows = 1..Len(rows)
      /\ \A j \in DOMAIN rows : q[j] = rows[j]
  OBVIOUS
<1> HIDE DEF q
<1>2. \A j \in DOMAIN q : j \in DOMAIN rows \/ j = Len(rows) + 1
  BY <1>1
<1>3. StandsAt(at, q, k, e)
  BY <1>1, <1>2 DEF StandsAt, Same
<1> QED BY <1>3 DEF q

LEMMA ChangedAt ==
    ASSUME NEW rows \in Seq(Row), NEW c \in DOMAIN rows, NEW v \in Durs
    PROVE  /\ DOMAIN With1(rows, c, v) = DOMAIN rows
           /\ \A j \in DOMAIN rows : j # c => With1(rows, c, v)[j] = rows[j]
           /\ \A j \in DOMAIN rows : With1(rows, c, v)[j].ipid = rows[j].ipid /\ With1(rows, c, v)[j].time = rows[j].time
           /\ With1(rows, c, v)[c].dur = v
<1>1. rows[c] \in Row
  OBVIOUS
<1>2. With1(rows, c, v)[c] = [rows[c] EXCEPT !.dur = v]
  BY DEF With1
<1>3. \A j \in DOMAIN rows : j # c => With1(rows, c, v)[j] = rows[j]
  BY DEF With1
<1>4. [rows[c] EXCEPT !.dur = v].ipid = rows[c].ipid /\ [rows[c] EXCEPT !.dur = v].time = rows[c].time /\ [rows[c] EXCEPT !.dur = v].dur = v
  BY <1>1 DEF Row
<1>5. DOMAIN With1(rows, c, v) = DOMAIN rows
  BY DEF With1
<1> QED BY <1>2, <1>3, <1>4, <1>5

LEMMA StandsChanged ==
    ASSUME NEW at, NEW rows \in Seq(Row), NEW c \in DOMAIN rows, NEW v \in Durs, NEW e, NEW k, StandsAt(at, rows, k, e),
           rows[c].ipid = e.ipid => c < k
    PROVE  StandsAt(at, With1(rows, c, v), k, e)
<1>1. k \in DOMAIN rows /\ Same(rows[k], e) /\ rows[k].ipid = e.ipid /\ k \in Nat /\ c \in Nat
  BY DEF StandsAt, Same
<1>2. k # c
  BY <1>1
<1>3. \A m \in DOMAIN rows : m > k /\ rows[m].ipid = e.ipid => m # c
  BY <1>1
<1> DEFINE q == With1(rows, c, v)
<1>4. /\ DOMAIN q = DOMAIN rows /\ q[k] = rows[k]
      /\ \A j \in DOMAIN rows : q[j].ipid = rows[j].ipid
      /\ \A j \in DOMAIN rows : j # c => q[j] = rows[j]
  BY <1>1, <1>2, ChangedAt
<1> HIDE DEF q
<1>5. \A m \in DOMAIN q : m > k /\ q[m].ipid = e.ipid => ~Active(at, q[m])
  BY <1>3, <1>4 DEF StandsAt
<1>6. StandsAt(at, q, k, e)
  BY <1>1, <1>4, <1>5 DEF StandsAt
<1> QED BY <1>6 DEF q

LEMMA StandsOwn ==
    ASSUME NEW at, NEW rows \in Seq(Row), NEW v \in Durs, NEW e \in Row, NEW k, StandsAt(at, rows, k, e)
    PROVE  StandsAt(at, With1(rows, k, v), k, [e EXCEPT !.dur = v])
<1>1. k \in DOMAIN rows /\ Same(rows[k], e) /\ k \in Nat
  BY DEF StandsAt
<1> DEFINE q == With1(rows, k, v)
           g == [e EXCEPT !.dur = v]
<1>2. /\ DOMAIN q = DOMAIN rows
      /\ \A j \in DOMAIN rows : q[j].ipid = rows[j].ipid /\ q[j].time = rows[j].time
      /\ \A j \in DOMAIN rows : j # k => q[j] = rows[j]
      /\ q[k].dur = v
  BY <1>1, ChangedAt
<1>3. g.ipid = e.ipid /\ g.time = e.time /\ g.dur = v
  BY DEF Row
<1> HIDE DEF q, g
<1>4. Same(q[k], g)
  BY <1>1, <1>2, <1>3 DEF Same
<1>5. \A m \in DOMAIN q : m > k /\ q[m].ipid = g.ipid => ~Active(at, q[m])
  <2>1. \A m \in DOMAIN rows : m > k => m # k
    BY <1>1
  <2> QED BY <1>2, <1>3, <2>1 DEF StandsAt
<1>6. StandsAt(at, q, k, g)
  BY <1>1, <1>2, <1>4, <1>5 DEF StandsAt
<1> QED BY <1>6 DEF q, g

LEMMA StandsLater ==
    ASSUME NEW at \in Nat, NEW to \in Nat, at <= to, NEW rows \in Seq(Row), NEW k, NEW e, StandsAt(at, rows, k, e)
    PROVE  StandsAt(to, rows, k, e)
<1>1. \A m \in DOMAIN rows : rows[m].time \in Nat /\ rows[m].dur \in Durs
  <2>1. \A m \in DOMAIN rows : rows[m] \in Row
    BY SeqIsFunction
  <2> QED BY <2>1 DEF Row
<1>2. \A m \in DOMAIN rows : Active(to, rows[m]) => Active(at, rows[m])
  BY <1>1 DEF Active, Durs, Permanent
<1> QED BY <1>2 DEF StandsAt

StoreTypeOK ==
    /\ db \in Tables /\ dbQueue \in Seq(BanTask)
    /\ now \in Nat /\ up \in BOOLEAN /\ (~up => dbQueue = <<>>)
    /\ DOMAIN bans \subseteq Ipids /\ \A i \in DOMAIN bans : bans[i] \in Row /\ bans[i].ipid = i
    /\ DOMAIN owed \subseteq Ipids /\ \A i \in DOMAIN owed : owed[i] \in Row /\ owed[i].ipid = i

\* What memory holds is on disk once the queue has run: under its id if it was loaded, unless an edit could not reach it.
MemoryInv ==
    \A i \in DOMAIN bans :
        /\ bans[i].id > 0 => /\ bans[i].id \in DOMAIN db.bans /\ db.bans[bans[i].id].ipid = i
                             /\ StandsAt(now, Drained.bans, bans[i].id, bans[i])
        /\ bans[i].id = 0 /\ i \notin edited => \E k \in DOMAIN Drained.bans : StandsAt(now, Drained.bans, k, bans[i])

\* Every queued change is of a row on disk.
ChangeInv == \A n \in DOMAIN dbQueue : dbQueue[n].op # "add_ban" => dbQueue[n].id \in DOMAIN db.bans

\* The ban e stands on disk in row k, and no change queued is of that row or a later one of its address.
Settled(at, rows, q, k, e) ==
    /\ StandsAt(at, rows, k, e)
    /\ \A n \in DOMAIN q : q[n].op # "add_ban" /\ rows[q[n].id].ipid = e.ipid => q[n].id < k

\* A ban that is owed is settled and known to memory, and no row of its address is queued.
OwedInv ==
    \A i \in DOMAIN owed :
        /\ Unwritten(i, dbQueue) = {}
        /\ Active(now, owed[i]) => /\ up => i \in DOMAIN bans /\ Same(bans[i], owed[i])
                                   /\ \E k \in DOMAIN db.bans : Settled(now, db.bans, dbQueue, k, owed[i])

StoreInv == StoreTypeOK /\ MemoryInv /\ ChangeInv /\ OwedInv

storeVars == <<db, dbQueue, now, up, bans, owed, edited>>

LEMMA StoreStutters == ASSUME StoreInv, UNCHANGED storeVars PROVE StoreInv'
BY DEF StoreInv, StoreTypeOK, MemoryInv, ChangeInv, OwedInv, Settled, Unwritten, storeVars, Drained, StandsAt, Same, Active

LEMMA DrainedType ==
    ASSUME StoreTypeOK
    PROVE  /\ Drained \in Tables /\ Drained.bans \in Seq(Row) /\ db.bans \in Seq(Row)
           /\ \A k \in DOMAIN db.bans : k \in DOMAIN Drained.bans /\ Drained.bans[k].ipid = db.bans[k].ipid
<1>1. Grown(db, Drained)
  BY QueueGrows DEF StoreTypeOK, Drained
<1>2. Drained \in Tables /\ db \in Tables
  BY <1>1 DEF Grown
<1>3. Drained.bans \in Seq(Row) /\ db.bans \in Seq(Row)
  BY <1>2, TablesBans
<1> QED BY <1>1, <1>2, <1>3 DEF Grown

LEMMA DrainedAppends ==
    ASSUME StoreTypeOK, NEW t \in BanTask, enqueue(t), UNCHANGED <<db, now>>
    PROVE  Drained' = Run(now, Drained, t)
BY RunAllAppend DEF StoreTypeOK, Drained, enqueue

LEMMA DrainedWorks ==
    ASSUME StoreTypeOK, worker_loop
    PROVE  Drained' = Drained
BY RunAllHead DEF StoreTypeOK, Drained, worker_loop

LEMMA StoreInit == ASSUME DbInit, BanInit PROVE StoreInv
<1>1. db \in Tables /\ dbQueue \in Seq(BanTask)
  BY DEF DbInit, Tables, NoTables
<1>2. DOMAIN bans = {} /\ DOMAIN owed = {}
  BY DEF BanInit, Nobody
<1>3. StoreTypeOK
  BY <1>1, <1>2 DEF StoreTypeOK, DbInit, BanInit
<1>4. ChangeInv
  BY DEF ChangeInv, DbInit
<1>5. MemoryInv /\ OwedInv
  BY <1>2 DEF MemoryInv, OwedInv
<1> QED BY <1>3, <1>4, <1>5 DEF StoreInv

\* The first task of the queue, and what is left of it.
LEMMA QueueHead ==
    ASSUME StoreTypeOK, dbQueue # <<>>
    PROVE  /\ Head(dbQueue) \in BanTask /\ Tail(dbQueue) \in Seq(BanTask)
           /\ Head(dbQueue) = dbQueue[1] /\ 1 \in DOMAIN dbQueue
           /\ \A n \in DOMAIN Tail(dbQueue) : n + 1 \in DOMAIN dbQueue /\ Tail(dbQueue)[n] = dbQueue[n + 1]
BY ToSetTail, SeqIsFunction DEF StoreTypeOK

LEMMA RowType == ASSUME NEW r \in Row PROVE r.id \in Nat /\ r.ipid \in Ipids /\ r.time \in Nat /\ r.dur \in Durs
BY DEF Row

\* Taking the task t off the queue leaves a settled ban settled.
LEMMA WorkerSettles ==
    ASSUME StoreTypeOK, ChangeInv, worker_loop, NEW e \in Row, NEW k, Settled(now, db.bans, dbQueue, k, e),
           Unwritten(e.ipid, dbQueue) = {}
    PROVE  Settled(now', db'.bans, dbQueue', k, e)
<1> DEFINE t == Head(dbQueue)
<1>1. /\ t \in BanTask /\ t = dbQueue[1] /\ 1 \in DOMAIN dbQueue /\ now' = now
      /\ db' = Run(now, db, t) /\ dbQueue' = Tail(dbQueue)
      /\ \A n \in DOMAIN dbQueue' : n + 1 \in DOMAIN dbQueue /\ dbQueue'[n] = dbQueue[n + 1]
  BY QueueHead DEF worker_loop
<1>2. db \in Tables /\ db.bans \in Seq(Row)
  BY TablesBans DEF StoreTypeOK
<1> HIDE DEF t
<1>3. \A j \in DOMAIN db.bans : db'.bans[j].ipid = db.bans[j].ipid
  BY <1>1, <1>2, TaskGrows DEF Grown
<1>4. StandsAt(now, db'.bans, k, e)
  <2>1. CASE t.op = "add_ban"
    <3>1. db'.bans = Append(db.bans, t.entry) /\ t.entry \in Row
      BY <1>1, <1>2, <2>1, AddRuns
    <3>2. t.entry.ipid # e.ipid
      BY <1>1, <2>1 DEF Unwritten
    <3> QED BY <1>2, <3>1, <3>2, StandsAppend DEF Settled
  <2>2. CASE t.op # "add_ban"
    <3>1. t \in Change /\ t.id \in DOMAIN db.bans
      BY <1>1, <2>2, TaskKinds DEF ChangeInv
    <3>2. db'.bans = With1(db.bans, t.id, Given(t)) /\ Given(t) \in Durs
      BY <1>1, <1>2, <3>1, ChangeRuns
    <3>3. db.bans[t.id].ipid = e.ipid => t.id < k
      BY <1>1, <2>2 DEF Settled
    <3> QED BY <1>2, <3>1, <3>2, <3>3, StandsChanged DEF Settled
  <2> QED BY <2>1, <2>2
<1>5. ASSUME NEW n \in DOMAIN dbQueue', dbQueue'[n].op # "add_ban", db'.bans[dbQueue'[n].id].ipid = e.ipid
      PROVE  dbQueue'[n].id < k
  <2>1. n + 1 \in DOMAIN dbQueue /\ dbQueue'[n] = dbQueue[n + 1]
    BY <1>1
  <2>2. dbQueue'[n].id \in DOMAIN db.bans
    BY <1>5, <2>1 DEF ChangeInv
  <2> QED BY <1>3, <1>5, <2>1, <2>2 DEF Settled
<1> QED BY <1>1, <1>4, <1>5 DEF Settled

LEMMA StoreWorker == ASSUME StoreInv, Worker PROVE StoreInv'
<1> USE DEF StoreInv
<1> DEFINE t == Head(dbQueue)
<1>1. /\ t \in BanTask /\ t = dbQueue[1] /\ 1 \in DOMAIN dbQueue /\ now' = now
      /\ db' = Run(now, db, t) /\ dbQueue' = Tail(dbQueue) /\ dbQueue' \in Seq(BanTask)
      /\ \A n \in DOMAIN dbQueue' : n + 1 \in DOMAIN dbQueue /\ dbQueue'[n] = dbQueue[n + 1]
  BY QueueHead DEF worker_loop, Worker
<1>2. UNCHANGED <<up, bans, edited, now>> /\ up /\ worker_loop
  BY DEF Worker, worker_loop
<1>3. db \in Tables /\ db.bans \in Seq(Row) /\ now \in Nat
  BY TablesBans DEF StoreTypeOK
<1> DEFINE new == t.op = "add_ban" /\ t.entry.ipid \in DOMAIN bans \ edited /\ bans[t.entry.ipid] = t.entry
                    /\ Unwritten(t.entry.ipid, dbQueue') = {}
<1>4. owed' = IF new THEN With(owed, t.entry.ipid, t.entry) ELSE owed
  BY <1>1 DEF Worker
<1> HIDE DEF t
<1>5. /\ Grown(db, db') /\ db' \in Tables
  BY <1>1, <1>3, TaskGrows DEF Grown
<1>6. \A j \in DOMAIN db.bans : j \in DOMAIN db'.bans /\ db'.bans[j].ipid = db.bans[j].ipid
  BY <1>5, TablesBans DEF Grown
<1>7. new => t.entry \in Row /\ t.entry.ipid \in Ipids /\ db'.bans = Append(db.bans, t.entry)
  BY <1>1, <1>3, AddRuns, RowType
<1>8. \A i \in DOMAIN owed' : \/ new /\ i = t.entry.ipid /\ owed'[i] = t.entry
                              \/ i \in DOMAIN owed /\ owed'[i] = owed[i] /\ (~new \/ i # t.entry.ipid)
  BY <1>4 DEF With
<1>9. StoreTypeOK'
  <2>1. DOMAIN owed' \subseteq Ipids /\ \A i \in DOMAIN owed' : owed'[i] \in Row /\ owed'[i].ipid = i
    BY <1>7, <1>8 DEF StoreTypeOK
  <2> QED BY <1>1, <1>2, <1>3, <1>5, <2>1 DEF StoreTypeOK
<1>10. MemoryInv'
  <2>1. Drained' = Drained
    BY <1>2, DrainedWorks
  <2> QED BY <1>2, <1>6, <2>1 DEF MemoryInv
<1>11. ChangeInv'
  BY <1>1, <1>6 DEF ChangeInv
<1>12. OwedInv'
  <2> SUFFICES ASSUME NEW i \in DOMAIN owed'
               PROVE  /\ Unwritten(i, dbQueue') = {}
                      /\ Active(now, owed'[i]) => /\ up' => i \in DOMAIN bans' /\ Same(bans'[i], owed'[i])
                                                  /\ \E k \in DOMAIN db'.bans : Settled(now', db'.bans, dbQueue', k, owed'[i])
    BY <1>2 DEF OwedInv
  <2>1. CASE new /\ i = t.entry.ipid /\ owed'[i] = t.entry
    <3>1. StandsAt(now, db'.bans, Len(db.bans) + 1, t.entry)
      BY <1>3, <1>7, <2>1, StandsNew
    <3>2. \A n \in DOMAIN dbQueue' : dbQueue'[n].op # "add_ban" => dbQueue'[n].id < Len(db.bans) + 1
      <4>1. \A n \in DOMAIN dbQueue' : dbQueue'[n].op # "add_ban" => dbQueue'[n].id \in DOMAIN db.bans
        BY <1>1 DEF ChangeInv
      <4> QED BY <1>3, <4>1
    <3>3. Settled(now', db'.bans, dbQueue', Len(db.bans) + 1, t.entry)
      BY <1>1, <1>2, <2>1, <3>1, <3>2 DEF Settled
    <3>4. Len(db.bans) + 1 \in DOMAIN db'.bans
      BY <3>1 DEF StandsAt
    <3> QED BY <1>2, <2>1, <3>3, <3>4 DEF Same
  <2>2. CASE i \in DOMAIN owed /\ owed'[i] = owed[i]
    <3>1. Unwritten(i, dbQueue) = {} /\ owed[i] \in Row /\ owed[i].ipid = i
      BY <2>2 DEF OwedInv, StoreTypeOK
    <3>2. Unwritten(i, dbQueue') = {}
      BY <1>1, <3>1 DEF Unwritten
    <3>3. ASSUME Active(now, owed[i]) PROVE \E k \in DOMAIN db'.bans : Settled(now', db'.bans, dbQueue', k, owed[i])
      <4>1. PICK k \in DOMAIN db.bans : Settled(now, db.bans, dbQueue, k, owed[i])
        BY <2>2, <3>3 DEF OwedInv
      <4>2. Settled(now', db'.bans, dbQueue', k, owed[i])
        BY <1>2, <3>1, <4>1, WorkerSettles
      <4>3. k \in DOMAIN db'.bans
        BY <1>6
      <4> QED BY <4>2, <4>3
    <3> QED BY <1>2, <2>2, <3>2, <3>3 DEF OwedInv
  <2> QED BY <1>8, <2>1, <2>2
<1> QED BY <1>9, <1>10, <1>11, <1>12

\* A change of a row of i that memory knows is queued behind the rest.
LEMMA ChangeQueued ==
    ASSUME StoreInv, NEW i \in DOMAIN bans, bans[i].id > 0, NEW t \in Change, t.id = bans[i].id, enqueue(t),
           UNCHANGED <<db, now>>
    PROVE  /\ dbQueue' \in Seq(BanTask) /\ ChangeInv'
           /\ Drained'.bans = With1(Drained.bans, bans[i].id, Given(t)) /\ Given(t) \in Durs
           /\ bans[i].id \in DOMAIN Drained.bans /\ Drained.bans[bans[i].id].ipid = i
           /\ \A j \in DOMAIN owed \ {i} :
                /\ Unwritten(j, dbQueue') = {}
                /\ \A k : Settled(now, db.bans, dbQueue, k, owed[j]) => Settled(now, db.bans, dbQueue', k, owed[j])
<1> USE DEF StoreInv
<1>1. t \in BanTask /\ t.op # "add_ban"
  BY DEF Change, BanTask
<1>2. /\ bans[i].id \in DOMAIN db.bans /\ db.bans[bans[i].id].ipid = i
      /\ StandsAt(now, Drained.bans, bans[i].id, bans[i])
  BY DEF MemoryInv
<1>3. bans[i].id \in DOMAIN Drained.bans /\ Drained.bans[bans[i].id].ipid = i
  BY <1>2 DEF StandsAt, Same, StoreTypeOK
<1>4. dbQueue \in Seq(BanTask) /\ dbQueue' = Append(dbQueue, t)
  BY DEF enqueue, StoreTypeOK
<1>5. dbQueue' \in Seq(BanTask) /\ \A n \in DOMAIN dbQueue' : dbQueue'[n] = t \/ (n \in DOMAIN dbQueue /\ dbQueue'[n] = dbQueue[n])
  BY <1>1, <1>4, ToSetAppend
<1>6. ChangeInv'
  BY <1>2, <1>5 DEF ChangeInv
<1>7. Drained'.bans = With1(Drained.bans, bans[i].id, Given(t)) /\ Given(t) \in Durs
  BY <1>1, <1>3, DrainedType, DrainedAppends, ChangeRuns
<1>8. ASSUME NEW j \in DOMAIN owed \ {i}
      PROVE  /\ Unwritten(j, dbQueue') = {}
             /\ \A k : Settled(now, db.bans, dbQueue, k, owed[j]) => Settled(now, db.bans, dbQueue', k, owed[j])
  <2>1. Unwritten(j, dbQueue) = {} /\ owed[j].ipid = j
    BY DEF OwedInv, StoreTypeOK
  <2>2. Unwritten(j, dbQueue') = {}
    BY <1>1, <1>5, <2>1 DEF Unwritten
  <2> QED BY <1>2, <1>5, <2>1, <2>2 DEF Settled
<1> QED BY <1>3, <1>5, <1>6, <1>7, <1>8

LEMMA StoreAdd ==
    ASSUME StoreInv, NEW i \in Ipids, NEW h \in Hdids \cup {NoHdid}, NEW a \in BOOLEAN, NEW dur \in Durations,
           BanAdd(i, h, a, dur)
    PROVE  StoreInv'
<1> USE DEF StoreInv
<1> DEFINE e == [id |-> 0, ipid |-> i, hdid |-> h, ip |-> a, time |-> now, dur |-> dur]
           t == [op |-> "add_ban", entry |-> e]
<1>1. /\ UNCHANGED <<db, now, up>> /\ up /\ now \in Nat
      /\ bans' = With(bans, i, e) /\ owed' = Without(owed, {i}) /\ edited' = edited \ {i}
      /\ enqueue(t)
  BY DEF BanAdd, StoreTypeOK
<1>2. e \in Row /\ e.ipid = i /\ e.id = 0 /\ e.dur = dur
  BY <1>1, BanAssumption DEF Row, Durs
<1>3. t \in BanTask /\ t.op = "add_ban" /\ t.entry = e
  BY <1>2 DEF BanTask
<1>4. dbQueue \in Seq(BanTask) /\ dbQueue' = Append(dbQueue, t)
  BY <1>1 DEF enqueue, StoreTypeOK
<1>5. /\ dbQueue' \in Seq(BanTask)
      /\ \A n \in DOMAIN dbQueue' : dbQueue'[n] = t \/ (n \in DOMAIN dbQueue /\ dbQueue'[n] = dbQueue[n])
  BY <1>3, <1>4, ToSetAppend
<1>6. Drained'.bans = Append(Drained.bans, e) /\ Drained.bans \in Seq(Row)
  <2> HIDE DEF e, t
  <2>1. Drained' = Run(now, Drained, t)
    BY <1>1, <1>3, DrainedAppends
  <2>2. Drained \in Tables /\ Drained.bans \in Seq(Row)
    BY DrainedType
  <2> QED BY <1>3, <2>1, <2>2, AddRuns
<1> HIDE DEF e, t
<1>7. /\ DOMAIN bans' = DOMAIN bans \cup {i} /\ bans'[i] = e /\ \A j \in DOMAIN bans : j # i => bans'[j] = bans[j]
      /\ DOMAIN owed' = DOMAIN owed \ {i} /\ \A j \in DOMAIN owed' : owed'[j] = owed[j]
  BY <1>1 DEF With, Without, Restrict
<1>8. StoreTypeOK'
  BY <1>1, <1>2, <1>5, <1>7 DEF StoreTypeOK
<1>9. MemoryInv'
  <2>1. StandsAt(now, Drained'.bans, Len(Drained.bans) + 1, e)
    BY <1>2, <1>6, StandsNew
  <2>2. Len(Drained.bans) + 1 \in DOMAIN Drained'.bans
    BY <2>1 DEF StandsAt
  <2>3. ASSUME NEW j \in DOMAIN bans, j # i, NEW k, StandsAt(now, Drained.bans, k, bans[j])
        PROVE  StandsAt(now, Drained'.bans, k, bans[j]) /\ k \in DOMAIN Drained'.bans
    <3>1. bans[j].ipid = j
      BY DEF StoreTypeOK
    <3>2. StandsAt(now, Drained'.bans, k, bans[j])
      BY <1>2, <1>6, <2>3, <3>1, StandsAppend
    <3> QED BY <3>2 DEF StandsAt
  <2> QED BY <1>1, <1>2, <1>7, <2>1, <2>2, <2>3 DEF MemoryInv
<1>10. ChangeInv'
  BY <1>1, <1>3, <1>5 DEF ChangeInv
<1>11. OwedInv'
  <2>1. ASSUME NEW j \in DOMAIN owed, j # i
        PROVE  /\ Unwritten(j, dbQueue') = {}
               /\ \A k : Settled(now, db.bans, dbQueue, k, owed[j]) => Settled(now, db.bans, dbQueue', k, owed[j])
    <3>1. Unwritten(j, dbQueue) = {} /\ owed[j].ipid = j
      BY DEF OwedInv, StoreTypeOK
    <3> QED BY <1>2, <1>3, <1>5, <2>1, <3>1 DEF Settled, Unwritten
  <2> QED BY <1>1, <1>7, <2>1 DEF OwedInv
<1> QED BY <1>8, <1>9, <1>10, <1>11

LEMMA StoreRemove == ASSUME StoreInv, NEW i \in Ipids, BanRemove(i) PROVE StoreInv'
<1> USE DEF StoreInv
<1>1. /\ UNCHANGED <<db, now, up, edited>> /\ up /\ i \in DOMAIN bans
      /\ bans' = Without(bans, {i}) /\ owed' = Without(owed, {i})
      /\ IF bans[i].id > 0 THEN enqueue([op |-> "invalidate_ban", id |-> bans[i].id]) ELSE UNCHANGED dbQueue
  BY DEF BanRemove
<1>2. /\ DOMAIN bans' = DOMAIN bans \ {i} /\ \A j \in DOMAIN bans' : bans'[j] = bans[j]
      /\ DOMAIN owed' = DOMAIN owed \ {i} /\ \A j \in DOMAIN owed' : owed'[j] = owed[j]
  BY <1>1 DEF Without, Restrict
<1>3. bans[i].id \in Nat /\ now \in Nat
  BY <1>1, RowType DEF StoreTypeOK
<1>4. CASE bans[i].id > 0
  <2> DEFINE t == [op |-> "invalidate_ban", id |-> bans[i].id]
  <2>1. t \in Change /\ t.id = bans[i].id /\ Given(t) = 0 /\ enqueue(t)
    BY <1>1, <1>3, <1>4 DEF Change, Given
  <2> HIDE DEF t
  <2>2. /\ dbQueue' \in Seq(BanTask) /\ ChangeInv'
        /\ Drained'.bans = With1(Drained.bans, bans[i].id, Given(t)) /\ Given(t) \in Durs
        /\ bans[i].id \in DOMAIN Drained.bans /\ Drained.bans[bans[i].id].ipid = i
        /\ \A j \in DOMAIN owed \ {i} :
             /\ Unwritten(j, dbQueue') = {}
             /\ \A k : Settled(now, db.bans, dbQueue, k, owed[j]) => Settled(now, db.bans, dbQueue', k, owed[j])
    BY <1>1, <1>4, <2>1, ChangeQueued
  <2>3. StoreTypeOK'
    BY <1>1, <1>2, <2>2 DEF StoreTypeOK
  <2>4. MemoryInv'
    <3>1. ASSUME NEW j \in DOMAIN bans, j # i, NEW k, StandsAt(now, Drained.bans, k, bans[j])
          PROVE  StandsAt(now, Drained'.bans, k, bans[j]) /\ k \in DOMAIN Drained'.bans
      <4>1. bans[j].ipid = j
        BY DEF StoreTypeOK
      <4>2. StandsAt(now, Drained'.bans, k, bans[j])
        BY <2>2, <3>1, <4>1, StandsChanged, DrainedType
      <4> QED BY <4>2 DEF StandsAt
    <3> QED BY <1>1, <1>2, <3>1 DEF MemoryInv
  <2>5. OwedInv'
    BY <1>1, <1>2, <2>2 DEF OwedInv
  <2> QED BY <2>2, <2>3, <2>4, <2>5
<1>5. CASE ~(bans[i].id > 0)
  <2>1. dbQueue' = dbQueue /\ Drained' = Drained
    BY <1>1, <1>5 DEF Drained
  <2>2. StoreTypeOK'
    BY <1>1, <1>2, <2>1 DEF StoreTypeOK
  <2>3. MemoryInv'
    BY <1>1, <1>2, <2>1 DEF MemoryInv
  <2>4. ChangeInv' /\ OwedInv'
    BY <1>1, <1>2, <2>1 DEF ChangeInv, OwedInv
  <2> QED BY <2>2, <2>3, <2>4
<1> QED BY <1>4, <1>5

LEMMA StoreEdit == ASSUME StoreInv, NEW i \in Ipids, NEW d \in Durations, BanEdit(i, d) PROVE StoreInv'
<1> USE DEF StoreInv
<1> DEFINE t == [op |-> "update_ban", id |-> bans[i].id, field |-> "duration", value |-> d]
<1>1. /\ UNCHANGED <<db, now, up>> /\ up /\ i \in DOMAIN bans
      /\ bans' = [bans EXCEPT ![i].dur = d] /\ owed' = Without(owed, {i}) /\ edited' = edited \cup {i}
      /\ IF bans[i].id > 0 THEN enqueue(t) ELSE UNCHANGED dbQueue
  BY DEF BanEdit
<1> DEFINE e == [bans[i] EXCEPT !.dur = d]
<1>2. bans[i] \in Row /\ bans[i].id \in Nat /\ now \in Nat /\ d \in Durs
  BY <1>1, RowType, BanAssumption DEF StoreTypeOK, Durs
<1>3. e \in Row /\ e.ipid = bans[i].ipid /\ e.id = bans[i].id
  BY <1>2 DEF Row
<1>4. /\ DOMAIN bans' = DOMAIN bans /\ bans'[i] = e /\ \A j \in DOMAIN bans : j # i => bans'[j] = bans[j]
      /\ DOMAIN owed' = DOMAIN owed \ {i} /\ \A j \in DOMAIN owed' : owed'[j] = owed[j]
  BY <1>1 DEF Without, Restrict
<1>5. t \in Change /\ t.id = bans[i].id /\ Given(t) = d
  BY <1>2 DEF Change, Given
<1> HIDE DEF e, t
<1>6. CASE bans[i].id > 0
  <2>2. /\ dbQueue' \in Seq(BanTask) /\ ChangeInv'
        /\ Drained'.bans = With1(Drained.bans, bans[i].id, d)
        /\ bans[i].id \in DOMAIN Drained.bans /\ Drained.bans[bans[i].id].ipid = i
        /\ \A j \in DOMAIN owed \ {i} :
             /\ Unwritten(j, dbQueue') = {}
             /\ \A k : Settled(now, db.bans, dbQueue, k, owed[j]) => Settled(now, db.bans, dbQueue', k, owed[j])
    BY <1>1, <1>5, <1>6, ChangeQueued
  <2>3. StoreTypeOK'
    BY <1>1, <1>3, <1>4, <2>2 DEF StoreTypeOK
  <2>4. MemoryInv'
    <3>1. ASSUME NEW j \in DOMAIN bans, j # i, NEW k, StandsAt(now, Drained.bans, k, bans[j])
          PROVE  StandsAt(now, Drained'.bans, k, bans[j]) /\ k \in DOMAIN Drained'.bans
      <4>1. bans[j].ipid = j
        BY DEF StoreTypeOK
      <4>2. StandsAt(now, Drained'.bans, k, bans[j])
        BY <1>2, <2>2, <3>1, <4>1, StandsChanged, DrainedType
      <4> QED BY <4>2 DEF StandsAt
    <3>2. StandsAt(now, Drained'.bans, bans[i].id, e)
      <4>1. StandsAt(now, Drained.bans, bans[i].id, bans[i])
        BY <1>1, <1>6 DEF MemoryInv
      <4> QED BY <1>2, <2>2, <4>1, StandsOwn, DrainedType DEF e
    <3>3. ASSUME NEW j \in DOMAIN bans'
          PROVE  /\ bans'[j].id > 0 => /\ bans'[j].id \in DOMAIN db.bans /\ db.bans[bans'[j].id].ipid = j
                                       /\ StandsAt(now, Drained'.bans, bans'[j].id, bans'[j])
                 /\ bans'[j].id = 0 /\ j \notin edited' => \E k \in DOMAIN Drained'.bans : StandsAt(now, Drained'.bans, k, bans'[j])
      <4>1. CASE j = i
        BY <1>1, <1>3, <1>4, <1>6, <3>2, <4>1 DEF MemoryInv
      <4>2. CASE j # i
        BY <1>1, <1>4, <3>1, <4>2 DEF MemoryInv
      <4> QED BY <4>1, <4>2
    <3> QED BY <1>1, <3>3 DEF MemoryInv
  <2>5. OwedInv'
    BY <1>1, <1>4, <2>2 DEF OwedInv
  <2> QED BY <2>2, <2>3, <2>4, <2>5
<1>7. CASE ~(bans[i].id > 0)
  <2>1. dbQueue' = dbQueue /\ Drained' = Drained
    BY <1>1, <1>7 DEF Drained
  <2>2. StoreTypeOK'
    BY <1>1, <1>3, <1>4, <2>1 DEF StoreTypeOK
  <2>3. MemoryInv'
    BY <1>1, <1>3, <1>4, <1>7, <2>1 DEF MemoryInv
  <2>4. ChangeInv' /\ OwedInv'
    BY <1>1, <1>4, <2>1 DEF ChangeInv, OwedInv
  <2> QED BY <2>2, <2>3, <2>4
<1> QED BY <1>6, <1>7

\* A set of positions has a greatest element.
LEMMA LastOf ==
    ASSUME NEW n \in Nat, NEW T \in SUBSET (1..n), T # {}
    PROVE  Max(T) \in T /\ \A k \in T : k <= Max(T)
<1> DEFINE U == {n - k : k \in T}
<1>1. U \in SUBSET Nat /\ U # {}
  <2>1. \A k \in T : n - k \in Nat
    OBVIOUS
  <2> QED BY <2>1, Zenon
<1>2. PICK u \in U : \A y \in U : u <= y
  BY <1>1, LeastNat
<1>3. PICK m \in T : u = n - m
  BY <1>2
<1>4. \A k \in T : m >= k
  <2> TAKE k \in T
  <2>1. n - k \in U
    BY Zenon
  <2>2. u <= n - k
    BY <1>2, <2>1, Zenon
  <2> QED BY <1>3, <2>2
<1>5. Max(T) \in T /\ \A k \in T : Max(T) >= k
  BY <1>4 DEF Max
<1> QED BY <1>5

LEMMA ActiveRows ==
    ASSUME StoreTypeOK
    PROVE  /\ all_active_bans(db) = {k \in DOMAIN db.bans : Active(now, db.bans[k])}
           /\ \A k \in DOMAIN db.bans : db.bans[k] \in Row
<1>1. \A k \in DOMAIN db.bans : db.bans[k] \in Row
  BY DrainedType, SeqIsFunction
<1> QED BY <1>1, ActiveNow DEF all_active_bans, StoreTypeOK

\* load_from_db keeps the last active row of each address.
LEMMA LoadedRows ==
    ASSUME StoreTypeOK
    PROVE  /\ DOMAIN LoadedBans = {db.bans[k].ipid : k \in all_active_bans(db)}
           /\ \A i \in DOMAIN LoadedBans :
                /\ LastRow(all_active_bans(db), i) \in all_active_bans(db)
                /\ StandsAt(now, db.bans, LastRow(all_active_bans(db), i), LoadedBans[i])
                /\ LoadedBans[i] \in Row /\ LoadedBans[i].ipid = i
                /\ LoadedBans[i].id = LastRow(all_active_bans(db), i) /\ LoadedBans[i].id > 0
                /\ \A k : k \in all_active_bans(db) /\ db.bans[k].ipid = i => k <= LoadedBans[i].id
<1> DEFINE rows == all_active_bans(db)
<1>1. DOMAIN LoadedBans = {db.bans[k].ipid : k \in rows}
  BY DEF LoadedBans
<1>2. rows = {k \in DOMAIN db.bans : Active(now, db.bans[k])} /\ \A k \in DOMAIN db.bans : db.bans[k] \in Row
  BY ActiveRows
<1>3. DOMAIN db.bans = 1..Len(db.bans) /\ Len(db.bans) \in Nat
  BY DrainedType, SeqIsFunction
<1> SUFFICES ASSUME NEW i \in DOMAIN LoadedBans
             PROVE  /\ LastRow(rows, i) \in rows
                    /\ StandsAt(now, db.bans, LastRow(rows, i), LoadedBans[i])
                    /\ LoadedBans[i] \in Row /\ LoadedBans[i].ipid = i
                    /\ LoadedBans[i].id = LastRow(rows, i) /\ LoadedBans[i].id > 0
                    /\ \A k : k \in rows /\ db.bans[k].ipid = i => k <= LoadedBans[i].id
  BY <1>1
<1> DEFINE T == {k \in rows : db.bans[k].ipid = i}
           m == LastRow(rows, i)
<1>4. LoadedBans[i] = [db.bans[m] EXCEPT !.id = m]
  BY <1>1 DEF LoadedBans
<1>5. T \in SUBSET (1..Len(db.bans)) /\ T # {}
  BY <1>1, <1>2, <1>3
<1>6. m \in T /\ \A k \in T : k <= m
  BY <1>3, <1>5, LastOf DEF LastRow
<1> HIDE DEF m
<1>7. m \in DOMAIN db.bans /\ db.bans[m] \in Row /\ m \in Nat /\ m > 0 /\ db.bans[m].ipid = i /\ m \in rows
  BY <1>2, <1>3, <1>6
<1> DEFINE e == [db.bans[m] EXCEPT !.id = m]
<1>8. e \in Row /\ Same(db.bans[m], e) /\ e.ipid = i /\ e.id = m
  BY <1>7 DEF Row, Same
<1> HIDE DEF e, rows
<1>9. \A j \in DOMAIN db.bans : j > m /\ db.bans[j].ipid = i => j \notin rows
  <2> SUFFICES ASSUME NEW j \in DOMAIN db.bans, j > m, db.bans[j].ipid = i, j \in rows PROVE FALSE
    OBVIOUS
  <2>1. j <= m /\ j \in Nat
    BY <1>3, <1>6
  <2> QED BY <1>7, <2>1
<1>10. StandsAt(now, db.bans, m, e)
  BY <1>2, <1>7, <1>8, <1>9 DEF StandsAt
<1> QED BY <1>4, <1>6, <1>7, <1>8, <1>10 DEF e, m

LEMMA StoreLoad == ASSUME StoreInv, load_from_db PROVE StoreInv'
<1> USE DEF StoreInv
<1>1. ~up /\ up' = TRUE /\ UNCHANGED <<db, dbQueue, now, owed, edited>> /\ bans' = LoadedBans
  BY DEF load_from_db, dbVars, histVars
<1>2. dbQueue = <<>> /\ Drained = db /\ Drained' = db
  BY <1>1, RunAllEmpty DEF StoreTypeOK, Drained
<1> DEFINE rows == all_active_bans(db)
<1>3. /\ DOMAIN bans' = {db.bans[k].ipid : k \in rows}
      /\ \A i \in DOMAIN bans' :
           /\ LastRow(rows, i) \in rows
           /\ StandsAt(now, db.bans, LastRow(rows, i), bans'[i])
           /\ bans'[i] \in Row /\ bans'[i].ipid = i
           /\ bans'[i].id = LastRow(rows, i) /\ bans'[i].id > 0
           /\ \A k : k \in rows /\ db.bans[k].ipid = i => k <= bans'[i].id
  BY <1>1, LoadedRows
<1>4. rows = {k \in DOMAIN db.bans : Active(now, db.bans[k])} /\ \A k \in DOMAIN db.bans : db.bans[k] \in Row
  BY ActiveRows
<1> HIDE DEF rows
<1>5. StoreTypeOK'
  <2>1. DOMAIN bans' \subseteq Ipids
    BY <1>3, RowType
  <2> QED BY <1>1, <1>3, <2>1 DEF StoreTypeOK
<1>6. MemoryInv'
  <2>1. \A i \in DOMAIN bans' : db.bans[bans'[i].id].ipid = i /\ bans'[i].id \in DOMAIN db.bans
    BY <1>3 DEF StandsAt, Same
  <2> QED BY <1>1, <1>2, <1>3, <2>1 DEF MemoryInv
<1>7. ChangeInv'
  BY <1>1, <1>2 DEF ChangeInv
<1>8. OwedInv'
  <2> SUFFICES ASSUME NEW i \in DOMAIN owed, Active(now, owed[i])
               PROVE  i \in DOMAIN bans' /\ Same(bans'[i], owed[i])
    BY <1>1 DEF OwedInv
  <2>1. PICK k \in DOMAIN db.bans : Settled(now, db.bans, dbQueue, k, owed[i])
    BY DEF OwedInv
  <2>2. owed[i] \in Row /\ owed[i].ipid = i /\ StandsAt(now, db.bans, k, owed[i])
    BY <2>1 DEF Settled, StoreTypeOK
  <2>3. Same(db.bans[k], owed[i]) /\ Active(now, db.bans[k])
    BY <2>2 DEF StandsAt, Same, Active
  <2>4. k \in rows /\ db.bans[k].ipid = i
    BY <1>4, <2>2, <2>3 DEF Same
  <2>5. i \in DOMAIN bans'
    BY <1>3, <2>4
  <2> DEFINE m == bans'[i].id
  <2>6. m \in rows /\ k <= m /\ StandsAt(now, db.bans, m, bans'[i]) /\ bans'[i].ipid = i
    BY <1>3, <2>4, <2>5
  <2>7. m \in DOMAIN db.bans /\ Active(now, db.bans[m]) /\ Same(db.bans[m], bans'[i])
    BY <1>4, <2>6 DEF StandsAt
  <2>8. ~(m > k)
    BY <2>2, <2>6, <2>7 DEF StandsAt, Same
  <2>9. m = k
    <3>1. m \in Nat /\ k \in Nat
      BY <2>6, <2>7, DrainedType, SeqIsFunction
    <3> QED BY <2>6, <2>8, <3>1
  <2> QED BY <2>3, <2>5, <2>7, <2>9 DEF Same
<1> QED BY <1>5, <1>6, <1>7, <1>8

LEMMA NoTasks == <<>> \in Seq(BanTask) /\ FALSE \in BOOLEAN
OBVIOUS

LEMMA StoreShutdown == ASSUME StoreInv, Shutdown PROVE StoreInv'
<1> USE DEF StoreInv
<1>1. /\ up /\ up' = FALSE /\ now' = now /\ db' = Drained /\ dbQueue' = <<>> /\ bans' = Nobody
      /\ owed' = [i \in {j \in DOMAIN bans : j \notin edited \/ bans[j].id > 0} |-> bans[i]]
  BY DEF Shutdown, close, Forget
<1>2. DOMAIN bans' = {} /\ Drained \in Tables /\ Unwritten(0, <<>>) = {}
  BY <1>1, DrainedType DEF Nobody, Unwritten
<1>3. StoreTypeOK'
  <2>1. \A i \in DOMAIN bans : bans[i] \in Row /\ bans[i].ipid = i /\ i \in Ipids
    BY DEF StoreTypeOK
  <2>2. DOMAIN owed' \subseteq DOMAIN bans /\ \A i \in DOMAIN owed' : owed'[i] = bans[i]
    BY <1>1
  <2>3. now' \in Nat /\ up' \in BOOLEAN /\ dbQueue' \in Seq(BanTask)
    <3>1. now \in Nat
      BY DEF StoreTypeOK
    <3> QED BY <1>1, <3>1, NoTasks
  <2>4. (DOMAIN bans \subseteq Ipids /\ \A i \in DOMAIN bans : bans[i] \in Row /\ bans[i].ipid = i)'
    BY <1>2
  <2>5. (DOMAIN owed \subseteq Ipids /\ \A i \in DOMAIN owed : owed[i] \in Row /\ owed[i].ipid = i)'
    BY <2>1, <2>2
  <2> QED BY <1>1, <1>2, <2>3, <2>4, <2>5, Zenon DEF StoreTypeOK
<1>4. MemoryInv' /\ ChangeInv'
  BY <1>1, <1>2 DEF MemoryInv, ChangeInv
<1>5. OwedInv'
  <2> SUFFICES ASSUME NEW i \in DOMAIN owed'
               PROVE  Unwritten(i, <<>>) = {} /\ \E k \in DOMAIN Drained.bans : Settled(now, Drained.bans, <<>>, k, owed'[i])
    BY <1>1 DEF OwedInv
  <2>1. i \in DOMAIN bans /\ owed'[i] = bans[i] /\ (i \notin edited \/ bans[i].id > 0) /\ bans[i].id \in Nat
    BY <1>1, RowType DEF StoreTypeOK
  <2>2. PICK k : StandsAt(now, Drained.bans, k, bans[i])
    BY <2>1 DEF MemoryInv
  <2>3. k \in DOMAIN Drained.bans /\ Settled(now, Drained.bans, <<>>, k, bans[i]) /\ Unwritten(i, <<>>) = {}
    BY <2>2 DEF Settled, StandsAt, Unwritten
  <2> QED BY <2>1, <2>3
<1> QED BY <1>3, <1>4, <1>5

LEMMA StoreCrash == ASSUME StoreInv, Crash \/ CrashWhileMigrating PROVE StoreInv'
<1> USE DEF StoreInv
<1>1. UNCHANGED <<db, now, owed>> /\ dbQueue' = <<>>
  BY DEF Crash, CrashWhileMigrating, DbCrash, histVars
<1>2. (bans' = Nobody /\ up' = FALSE) \/ (UNCHANGED <<up, bans, edited>> /\ dbQueue = <<>>)
  BY DEF Crash, CrashWhileMigrating, Forget, StoreTypeOK, histVars
<1>3. CASE bans' = Nobody /\ up' = FALSE
  <2>1. DOMAIN bans' = {}
    BY <1>3 DEF Nobody
  <2>2. StoreTypeOK'
    <3>1. (DOMAIN bans \subseteq Ipids /\ \A i \in DOMAIN bans : bans[i] \in Row /\ bans[i].ipid = i)'
      BY <2>1
    <3>2. dbQueue' \in Seq(BanTask) /\ up' \in BOOLEAN
      BY <1>1, <1>3, NoTasks
    <3> QED BY <1>1, <3>1, <3>2, Zenon DEF StoreTypeOK
  <2>3. MemoryInv' /\ ChangeInv'
    BY <1>1, <2>1 DEF MemoryInv, ChangeInv
  <2>4. ASSUME NEW i \in DOMAIN owed, Active(now, owed[i])
        PROVE  \E k \in DOMAIN db.bans : Settled(now, db.bans, <<>>, k, owed[i])
    <3>1. PICK k \in DOMAIN db.bans : Settled(now, db.bans, dbQueue, k, owed[i])
      BY <2>4 DEF OwedInv
    <3>2. Settled(now, db.bans, <<>>, k, owed[i])
      BY <3>1 DEF Settled
    <3> QED BY <3>2
  <2>5. \A i : Unwritten(i, <<>>) = {}
    BY DEF Unwritten
  <2>6. OwedInv'
    BY <1>1, <1>3, <2>4, <2>5 DEF OwedInv
  <2> QED BY <2>2, <2>3, <2>6
<1>4. CASE UNCHANGED <<up, bans, edited>> /\ dbQueue = <<>>
  BY <1>1, <1>4, StoreStutters DEF storeVars
<1> QED BY <1>2, <1>3, <1>4

LEMMA StoreTick == ASSUME StoreInv, Tick PROVE StoreInv'
<1> USE DEF StoreInv
<1>1. now' = now + 1 /\ UNCHANGED <<db, dbQueue, up, bans, owed, edited>> /\ now \in Nat /\ now' \in Nat /\ now <= now'
  BY DEF Tick, histVars, StoreTypeOK
<1>2. Drained' = Drained
  BY <1>1, BansIgnoreTime DEF Drained, StoreTypeOK
<1>3. Drained.bans \in Seq(Row) /\ db.bans \in Seq(Row)
  BY DrainedType
<1>4. \A k, e : /\ StandsAt(now, Drained.bans, k, e) => StandsAt(now', Drained.bans, k, e)
                /\ StandsAt(now, db.bans, k, e) => StandsAt(now', db.bans, k, e)
  BY <1>1, <1>3, StandsLater
<1>5. StoreTypeOK'
  BY <1>1 DEF StoreTypeOK
<1>6. MemoryInv'
  BY <1>1, <1>2, <1>4 DEF MemoryInv
<1>7. ChangeInv'
  BY <1>1 DEF ChangeInv
<1>8. \A i \in DOMAIN owed : Active(now', owed[i]) => Active(now, owed[i])
  <2>1. \A i \in DOMAIN owed : owed[i].time \in Nat /\ owed[i].dur \in Durs
    BY RowType DEF StoreTypeOK
  <2> QED BY <1>1, <2>1 DEF Active, Durs, Permanent
<1>9. \A k, e : Settled(now, db.bans, dbQueue, k, e) => Settled(now', db.bans, dbQueue, k, e)
  BY <1>4 DEF Settled
<1>10. OwedInv'
  BY <1>1, <1>8, <1>9 DEF OwedInv
<1> QED BY <1>5, <1>6, <1>7, <1>10

LEMMA StoreStep == ASSUME StoreInv, [BanNext]_<<dbVars, banVars>> PROVE StoreInv'
<1> USE DEF dbVars, banVars, fwVars, histVars, storeVars
<1>1. CASE DbOpen
  BY <1>1, StoreStutters DEF DbOpen, open, Migration, migrate_step, migrate_commit, migrate_rollback
<1>2. CASE exec_loop \/ sweep_erase \/ flush
  BY <1>2, StoreStutters DEF exec_loop, sweep_erase, flush
<1>3. ASSUME NEW i \in Ipids, sweep_enqueue(i) \/ FirewallRemove(i) \/ \E d \in Durations : FirewallAdd(i, d) PROVE StoreInv'
  BY <1>3, StoreStutters DEF sweep_enqueue, FirewallRemove, FirewallAdd
<1>4. CASE UNCHANGED <<dbVars, banVars>>
  BY <1>4, StoreStutters
<1> QED BY <1>1, <1>2, <1>3, <1>4, StoreLoad, StoreWorker, StoreAdd, StoreRemove, StoreEdit, StoreShutdown, StoreCrash,
           StoreTick DEF BanNext

LEMMA MigrationStep ==
    ASSUME MigrationAtomic, dbTx \in Nat, dbVersion \in Nat, [BanNext]_<<dbVars, banVars>>
    PROVE  MigrationAtomic' /\ dbTx' \in Nat /\ dbVersion' \in Nat
<1> USE DatabaseAssumption DEF MigrationAtomic, dbVars
<1>1. CASE DbOpen
  BY <1>1 DEF DbOpen, open, Migration, migrate_step, migrate_commit, migrate_rollback
<1>2. CASE load_from_db \/ Worker \/ exec_loop \/ sweep_erase \/ flush \/ Tick
  BY <1>2 DEF load_from_db, Worker, worker_loop, exec_loop, sweep_erase, flush, Tick
<1>3. CASE Shutdown \/ Crash \/ CrashWhileMigrating
  BY <1>3 DEF Shutdown, close, Crash, CrashWhileMigrating, DbCrash
<1>4. ASSUME NEW i \in Ipids, sweep_enqueue(i) \/ FirewallRemove(i) \/ BanRemove(i)
      PROVE  UNCHANGED <<dbTx, dbVersion>>
  BY <1>4 DEF sweep_enqueue, FirewallRemove, BanRemove
<1>5. ASSUME NEW i \in Ipids, NEW d \in Durations, FirewallAdd(i, d) \/ BanEdit(i, d)
      PROVE  UNCHANGED <<dbTx, dbVersion>>
  BY <1>5 DEF FirewallAdd, BanEdit
<1>6. ASSUME NEW i \in Ipids, NEW d, NEW h, NEW a, BanAdd(i, h, a, d)
      PROVE  UNCHANGED <<dbTx, dbVersion>>
  BY <1>6 DEF BanAdd
<1> QED BY <1>1, <1>2, <1>3, <1>4, <1>5, <1>6 DEF BanNext

LEMMA StoreImplies == ASSUME StoreInv PROVE OwedBansEnforced
<1> SUFFICES ASSUME up, NEW i \in DOMAIN owed, is_ban_active(owed[i]) PROVE Banned(i)
  BY DEF OwedBansEnforced, check_ban
<1>1. owed[i] \in Row /\ now \in Int /\ Active(now, owed[i])
  BY ActiveNow DEF StoreInv, StoreTypeOK
<1>2. i \in DOMAIN bans /\ Same(bans[i], owed[i])
  BY <1>1 DEF StoreInv, OwedInv
<1> QED BY <1>2 DEF Banned, is_ban_active, is_expired, Same

\* What the store owes is kept for any number of bans, edits, crashes, restarts and migrations (add_ban, close, migrate,
\* load_from_db).
THEOREM StoreAlwaysKept == BanSpec => []StoreKept
<1> DEFINE Inv == StoreInv /\ MigrationAtomic /\ dbTx \in Nat /\ dbVersion \in Nat
<1>1. DbInit /\ BanInit => Inv
  BY StoreInit, DatabaseAssumption DEF DbInit, MigrationAtomic
<1>2. Inv /\ [BanNext]_<<dbVars, banVars>> => Inv'
  BY StoreStep, MigrationStep
<1>3. Inv => StoreKept
  BY StoreImplies DEF StoreKept
<1> QED BY <1>1, <1>2, <1>3, PTL DEF BanSpec

-----------------------------------------------------------------------------
(* The firewall: FirewallInStep.                                           *)

Places == Ipids \cup {"none"}
Cmds == [action : {"init", "flush", "add", "remove"}, target : Places]
Kernels == [table : BOOLEAN, set : SUBSET Places]
Bare(t) == [table |-> t, set |-> {}]

LEMMA HelperIs ==
    ASSUME NEW k \in Kernels, NEW c \in Cmds
    PROVE  /\ Helper(k, c) \in Kernels
           /\ c.action = "init" => Helper(k, c).table = TRUE /\ Helper(k, c).set = k.set
           /\ c.action = "flush" => Helper(k, c).table = FALSE /\ Helper(k, c).set = {}
           /\ c.action = "add" => Helper(k, c).table = k.table /\ Helper(k, c).set = (IF k.table THEN k.set \cup {c.target} ELSE k.set)
           /\ c.action = "remove" => Helper(k, c).table = k.table /\ Helper(k, c).set = k.set \ {c.target}
<1>1. k.set \subseteq Places /\ c.target \in Places
  BY DEF Kernels, Cmds
<1>2. CASE c.action = "init"
  <2>1. Helper(k, c) = [k EXCEPT !.table = TRUE]
    BY <1>2 DEF Helper
  <2> QED BY <1>2, <2>1 DEF Kernels
<1>3. CASE c.action = "flush"
  <2>1. Helper(k, c) = [table |-> FALSE, set |-> {}]
    BY <1>3 DEF Helper
  <2> QED BY <1>3, <2>1 DEF Kernels
<1>4. CASE c.action = "add"
  <2>1. Helper(k, c) = IF k.table THEN [k EXCEPT !.set = k.set \cup {c.target}] ELSE k
    BY <1>4 DEF Helper
  <2>2. k.set \cup {c.target} \in SUBSET Places
    BY <1>1
  <2> QED BY <1>4, <2>1, <2>2 DEF Kernels
<1>5. CASE c.action = "remove"
  <2>1. Helper(k, c) = [k EXCEPT !.set = k.set \ {c.target}]
    BY <1>5 DEF Helper
  <2>2. k.set \ {c.target} \in SUBSET Places
    BY <1>1
  <2> QED BY <1>5, <2>1, <2>2 DEF Kernels
<1> QED BY <1>2, <1>3, <1>4, <1>5 DEF Cmds

LEMMA HelperAdds ==
    \A k \in Kernels, c \in Cmds : c.action = "add" =>
        /\ Helper(k, c) \in Kernels /\ Helper(k, c).table = k.table
        /\ Helper(k, c).set = (IF k.table THEN k.set \cup {c.target} ELSE k.set)
BY HelperIs

LEMMA HelperRemoves ==
    \A k \in Kernels, c \in Cmds : c.action = "remove" =>
        Helper(k, c) \in Kernels /\ Helper(k, c).table = k.table /\ Helper(k, c).set = k.set \ {c.target}
BY HelperIs

\* Two kernels with the same table: what the queue leaves in one that it does not leave in the other was there before.
Alike(a, b, k, l) ==
    /\ a \in Kernels /\ b \in Kernels /\ a.table = b.table
    /\ a.set \subseteq b.set \cup k.set
    /\ (l.set \subseteq k.set => b.set \subseteq a.set)

LEMMA HelperAlike ==
    ASSUME NEW k, NEW l, NEW a, NEW b, Alike(a, b, k, l), NEW c \in Cmds
    PROVE  Alike(Helper(a, c), Helper(b, c), k, l)
<1> DEFINE x == Helper(a, c)
           y == Helper(b, c)
<1>1. a \in Kernels /\ b \in Kernels
  BY DEF Alike
<1>2. /\ x \in Kernels
      /\ c.action = "init" => x.table = TRUE /\ x.set = a.set
      /\ c.action = "flush" => x.table = FALSE /\ x.set = {}
      /\ c.action = "add" => x.table = a.table /\ x.set = (IF a.table THEN a.set \cup {c.target} ELSE a.set)
      /\ c.action = "remove" => x.table = a.table /\ x.set = a.set \ {c.target}
  BY <1>1, HelperIs
<1>3. /\ y \in Kernels
      /\ c.action = "init" => y.table = TRUE /\ y.set = b.set
      /\ c.action = "flush" => y.table = FALSE /\ y.set = {}
      /\ c.action = "add" => y.table = b.table /\ y.set = (IF b.table THEN b.set \cup {c.target} ELSE b.set)
      /\ c.action = "remove" => y.table = b.table /\ y.set = b.set \ {c.target}
  BY <1>1, HelperIs
<1>4. c.action \in {"init", "flush", "add", "remove"}
  BY DEF Cmds
<1> HIDE DEF x, y
<1>5. Alike(x, y, k, l)
  BY <1>2, <1>3, <1>4 DEF Alike
<1> QED BY <1>5 DEF x, y

LEMMA QueueAlike ==
    ASSUME NEW k \in Kernels, NEW l \in Kernels, k.table = l.table, NEW q \in Seq(Cmds)
    PROVE  Alike(HelpAll(k, q), HelpAll(l, q), k, l)
<1> DEFINE n == Len(q)
<1>1. n \in Nat
  OBVIOUS
<1>2. PICK f : Helps(f, k, q, n) /\ HelpAll(k, q) = f[n]
  BY <1>1, HelpAllUnfolds
<1>3. PICK g : Helps(g, l, q, n) /\ HelpAll(l, q) = g[n]
  BY <1>1, HelpAllUnfolds
<1> DEFINE S == {m \in Nat : m <= n => Alike(f[m], g[m], k, l)}
<1>4. 0 \in S
  BY <1>2, <1>3 DEF Helps, Alike
<1>5. ASSUME NEW m \in Nat, m \in S PROVE m + 1 \in S
  <2> SUFFICES ASSUME m + 1 <= n PROVE Alike(f[m + 1], g[m + 1], k, l)
    OBVIOUS
  <2>1. Alike(f[m], g[m], k, l) /\ m + 1 \in 1..n /\ (m + 1) - 1 = m /\ q[m + 1] \in Cmds
    BY <1>5
  <2>2. f[m + 1] = Helper(f[m], q[m + 1]) /\ g[m + 1] = Helper(g[m], q[m + 1])
    BY <1>2, <1>3, <2>1, Zenon DEF Helps
  <2> QED BY <2>1, <2>2, HelperAlike
<1> HIDE DEF S
<1>6. \A m \in Nat : m \in S
  BY <1>4, <1>5, InductionBySet
<1>7. Alike(f[n], g[n], k, l)
  BY <1>1, <1>6 DEF S
<1> QED BY <1>2, <1>3, <1>7

\* A queue that adds elements adds them all once the table is there.
LEMMA AddsAll ==
    ASSUME NEW k \in Kernels, k.table = TRUE, NEW q \in Seq(Cmds), \A n \in DOMAIN q : q[n].action = "add"
    PROVE  /\ HelpAll(k, q) \in Kernels /\ HelpAll(k, q).table = TRUE
           /\ HelpAll(k, q).set = k.set \cup {q[n].target : n \in DOMAIN q}
<1> DEFINE n == Len(q)
<1>1. n \in Nat /\ DOMAIN q = 1..n
  OBVIOUS
<1>2. PICK f : Helps(f, k, q, n) /\ HelpAll(k, q) = f[n]
  BY <1>1, HelpAllUnfolds
<1> DEFINE Good(m) == /\ f[m] \in Kernels /\ f[m].table = TRUE
                      /\ f[m].set = k.set \cup {q[j].target : j \in 1..m}
           S == {m \in Nat : m <= n => Good(m)}
<1>3. 0 \in S
  <2>1. 1..0 = {}
    OBVIOUS
  <2>2. f[0] = k
    BY <1>2 DEF Helps
  <2> QED BY <2>1, <2>2
<1>4. ASSUME NEW m \in Nat, m \in S PROVE m + 1 \in S
  <2> HIDE DEF Good
  <2> SUFFICES ASSUME m + 1 <= n PROVE Good(m + 1)
    OBVIOUS
  <2>1. Good(m) /\ m + 1 \in 1..n /\ (m + 1) - 1 = m /\ q[m + 1] \in Cmds /\ q[m + 1].action = "add"
    BY <1>1, <1>4
  <2> USE DEF Good
  <2>2. f[m + 1] = Helper(f[m], q[m + 1])
    BY <1>2, <2>1, Zenon DEF Helps
  <2>3. f[m + 1] \in Kernels /\ f[m + 1].table = TRUE /\ f[m + 1].set = f[m].set \cup {q[m + 1].target}
    <3>1. f[m] \in Kernels /\ f[m].table = TRUE
      BY <2>1
    <3> DEFINE c == q[m + 1]
    <3>2. c \in Cmds /\ c.action = "add"
      BY <2>1
    <3>3. f[m + 1] = Helper(f[m], c)
      BY <2>2
    <3> HIDE DEF Good, c
    <3>4. Helper(f[m], c) \in Kernels /\ Helper(f[m], c).table = TRUE /\ Helper(f[m], c).set = f[m].set \cup {c.target}
      BY <3>1, <3>2, HelperAdds
    <3> QED BY <3>3, <3>4 DEF c
  <2>4. 1..(m + 1) = (1..m) \cup {m + 1}
    OBVIOUS
  <2> QED BY <2>1, <2>3, <2>4
<1> HIDE DEF S
<1>5. \A m \in Nat : m \in S
  BY <1>3, <1>4, InductionBySet
<1>6. Good(n)
  BY <1>1, <1>5 DEF S
<1> QED BY <1>1, <1>2, <1>6

FirewallTypeOK ==
    /\ Kernel \in Kernels /\ fwQueue \in Seq(Cmds)
    /\ DOMAIN fwRules \subseteq Ipids /\ fwSweep \subseteq Ipids /\ DOMAIN fwFile \subseteq Ipids

\* What the queue alone puts into the kernel's set.
Queued == HelpAll(Bare(table), fwQueue)

FirewallInv ==
    /\ FirewallTypeOK /\ up \in BOOLEAN
    /\ up /\ ~flushed => FinalKernel.table
    /\ up => Queued.set \subseteq DOMAIN fwRules \cup fwSweep
    /\ ~up => kernel \subseteq leftover /\ fwQueue = <<>> /\ fwSweep = {}
    /\ fwSweep \cap DOMAIN fwRules \subseteq raced
    /\ RulesReachKernel /\ NoStuckBlock

LEMMA KernelsAlike ==
    ASSUME FirewallTypeOK
    PROVE  /\ FinalKernel \in Kernels /\ Queued \in Kernels /\ FinalKernel.table = Queued.table
           /\ Queued.set \subseteq FinalKernel.set /\ FinalKernel.set \subseteq Queued.set \cup kernel
<1>1. Kernel \in Kernels /\ Bare(table) \in Kernels /\ Kernel.table = Bare(table).table /\ fwQueue \in Seq(Cmds)
      /\ Kernel.set = kernel /\ Bare(table).set = {}
  BY DEF FirewallTypeOK, Kernel, Bare, Kernels
<1>2. Alike(FinalKernel, Queued, Kernel, Bare(table))
  BY <1>1, QueueAlike DEF FinalKernel, Queued
<1> QED BY <1>1, <1>2 DEF Alike

\* A command queued last acts last.
LEMMA CommandQueued ==
    ASSUME FirewallTypeOK, NEW c \in Cmds, fwQueue' = Append(fwQueue, c), UNCHANGED <<kernel, table>>
    PROVE  /\ FinalKernel' = Helper(FinalKernel, c) /\ Queued' = Helper(Queued, c)
           /\ Kernel' = Kernel /\ fwQueue' \in Seq(Cmds)
<1>1. Kernel' = Kernel /\ fwQueue \in Seq(Cmds)
  BY DEF Kernel, FirewallTypeOK
<1>2. HelpAll(Kernel, fwQueue') = Helper(HelpAll(Kernel, fwQueue), c)
  BY <1>1, HelpAllAppend
<1>3. HelpAll(Bare(table), fwQueue') = Helper(HelpAll(Bare(table), fwQueue), c)
  BY <1>1, HelpAllAppend
<1> QED BY <1>1, <1>2, <1>3 DEF FinalKernel, Queued

LEMMA CmdType == ASSUME NEW i \in Places, NEW a \in {"init", "flush", "add", "remove"} PROVE Cmd(a, i) \in Cmds /\ Cmd(a, i).action = a /\ Cmd(a, i).target = i
BY DEF Cmd, Cmds

firewallVars == <<up, fwRules, fwQueue, fwSweep, kernel, table, leftover, flushed, raced>>

LEMMA FirewallStutters == ASSUME FirewallInv, UNCHANGED firewallVars, DOMAIN fwFile' \subseteq Ipids PROVE FirewallInv'
<1>1. FinalKernel' = FinalKernel /\ Queued' = Queued /\ Kernel' = Kernel
  BY DEF FinalKernel, Queued, Kernel, firewallVars
<1> QED BY <1>1 DEF FirewallInv, FirewallTypeOK, RulesReachKernel, NoStuckBlock, firewallVars

\* The rule of i is added, and its element is the last command queued.
LEMMA FirewallBlocks ==
    ASSUME FirewallInv, up, NEW i \in Ipids, UNCHANGED <<up, fwSweep, kernel, table, leftover, flushed>>,
           DOMAIN fwRules' = DOMAIN fwRules \cup {i}, DOMAIN fwFile' \subseteq Ipids,
           raced' = IF i \in fwSweep THEN raced \cup {i} ELSE raced \ {i},
           \/ fwQueue' = Append(fwQueue, Cmd("add", i))
           \/ fwQueue' = Append(Append(fwQueue, Cmd("remove", i)), Cmd("add", i))
    PROVE  FirewallInv'
<1> DEFINE F == FinalKernel
           Q == Queued
<1>1. FirewallTypeOK /\ fwQueue \in Seq(Cmds) /\ Cmd("add", i) \in Cmds /\ Cmd("remove", i) \in Cmds
      /\ Cmd("add", i).action = "add" /\ Cmd("remove", i).action = "remove" /\ Cmd("add", i).target = i /\ Cmd("remove", i).target = i
  BY CmdType DEF FirewallInv, FirewallTypeOK, Places
<1>2. F \in Kernels /\ Q \in Kernels /\ F.table = Q.table
  BY <1>1, KernelsAlike
<1>3. Kernel' = Kernel
  BY DEF Kernel
<1>4. \E a, b \in Kernels :
         /\ FinalKernel' = Helper(a, Cmd("add", i)) /\ Queued' = Helper(b, Cmd("add", i)) /\ fwQueue' \in Seq(Cmds)
         /\ a.table = F.table /\ b.table = F.table
         /\ a.set \subseteq F.set /\ F.set \ {i} \subseteq a.set /\ b.set \subseteq Q.set
  <2>1. CASE fwQueue' = Append(fwQueue, Cmd("add", i))
    <3>1. FinalKernel' = Helper(F, Cmd("add", i)) /\ Queued' = Helper(Q, Cmd("add", i)) /\ fwQueue' \in Seq(Cmds)
      BY <1>1, <2>1, CommandQueued
    <3> QED BY <1>2, <3>1
  <2>2. CASE fwQueue' = Append(Append(fwQueue, Cmd("remove", i)), Cmd("add", i))
    <3> DEFINE a == Helper(F, Cmd("remove", i))
               b == Helper(Q, Cmd("remove", i))
               mid == Append(fwQueue, Cmd("remove", i))
    <3>1. mid \in Seq(Cmds) /\ fwQueue' \in Seq(Cmds)
      BY <1>1, <2>2
    <3>2. HelpAll(Kernel, mid) = a /\ HelpAll(Bare(table), mid) = b
      BY <1>1, HelpAllAppend DEF FinalKernel, Queued
    <3>3. HelpAll(Kernel, fwQueue') = Helper(a, Cmd("add", i)) /\ HelpAll(Bare(table), fwQueue') = Helper(b, Cmd("add", i))
      <4>1. fwQueue' = Append(mid, Cmd("add", i))
        BY <2>2
      <4> HIDE DEF a, b, mid
      <4> QED BY <1>1, <3>1, <3>2, <4>1, HelpAllAppend
    <3>4. FinalKernel' = Helper(a, Cmd("add", i)) /\ Queued' = Helper(b, Cmd("add", i))
      BY <1>3, <3>3 DEF FinalKernel, Queued
    <3>5. /\ a \in Kernels /\ a.table = F.table /\ a.set = F.set \ {i}
          /\ b \in Kernels /\ b.table = Q.table /\ b.set = Q.set \ {i}
      BY <1>1, <1>2, HelperRemoves
    <3> HIDE DEF a, b, F, Q
    <3> QED BY <1>2, <3>1, <3>4, <3>5
  <2> QED BY <2>1, <2>2
<1> HIDE DEF F, Q
<1>5. PICK a, b \in Kernels :
         /\ FinalKernel' = Helper(a, Cmd("add", i)) /\ Queued' = Helper(b, Cmd("add", i)) /\ fwQueue' \in Seq(Cmds)
         /\ a.table = F.table /\ b.table = F.table
         /\ a.set \subseteq F.set /\ F.set \ {i} \subseteq a.set /\ b.set \subseteq Q.set
  BY <1>4
<1>6. /\ FinalKernel'.table = F.table /\ FinalKernel'.set = (IF F.table THEN a.set \cup {i} ELSE a.set)
      /\ Queued'.set \subseteq b.set \cup {i}
  <2> DEFINE c == Cmd("add", i)
  <2>1. c \in Cmds /\ c.action = "add" /\ c.target = i
    BY <1>1
  <2> HIDE DEF c
  <2>2. Helper(a, c).table = a.table /\ Helper(a, c).set = (IF a.table THEN a.set \cup {i} ELSE a.set)
    BY <2>1, HelperAdds
  <2>3. Helper(b, c).set \subseteq b.set \cup {i}
    BY <2>1, HelperAdds
  <2>4. FinalKernel' = Helper(a, c) /\ Queued' = Helper(b, c)
    BY <1>5 DEF c
  <2> QED BY <1>5, <2>2, <2>3, <2>4
<1>7. FirewallTypeOK'
  BY <1>3, <1>5 DEF FirewallInv, FirewallTypeOK
<1>8. RulesReachKernel'
  <2>1. ~flushed => F.table /\ DOMAIN fwRules \ raced \subseteq F.set
    BY DEF FirewallInv, RulesReachKernel, F
  <2>2. (DOMAIN fwRules \cup {i}) \ raced' \subseteq (DOMAIN fwRules \ raced) \cup {i}
    OBVIOUS
  <2> QED BY <1>5, <1>6, <2>1, <2>2 DEF RulesReachKernel
<1>9. NoStuckBlock'
  <2>1. F.set \subseteq DOMAIN fwRules \cup fwSweep \cup leftover
    BY DEF FirewallInv, NoStuckBlock, F
  <2>2. FinalKernel'.set \subseteq F.set \cup {i}
    BY <1>5, <1>6
  <2> QED BY <2>1, <2>2 DEF NoStuckBlock
<1>10. Queued'.set \subseteq DOMAIN fwRules' \cup fwSweep'
  BY <1>5, <1>6 DEF FirewallInv, Q
<1>11. fwSweep' \cap DOMAIN fwRules' \subseteq raced'
  BY DEF FirewallInv
<1> QED BY <1>6, <1>7, <1>8, <1>9, <1>10, <1>11 DEF FirewallInv, F

\* The rule of i is taken out, and its element too.
LEMMA FirewallUnblocks ==
    ASSUME FirewallInv, up, NEW i \in Ipids, UNCHANGED <<up, kernel, table, leftover, flushed, raced>>,
           i \in DOMAIN fwRules \cup fwSweep, i \in DOMAIN fwRules' => i \in raced,
           DOMAIN fwRules \ {i} \subseteq DOMAIN fwRules', DOMAIN fwRules' \subseteq DOMAIN fwRules,
           fwSweep \ {i} \subseteq fwSweep', fwSweep' \subseteq fwSweep, DOMAIN fwFile' \subseteq Ipids,
           fwQueue' = Append(fwQueue, Cmd("remove", i))
    PROVE  FirewallInv'
<1>1. FirewallTypeOK /\ fwQueue \in Seq(Cmds) /\ Cmd("remove", i) \in Cmds
      /\ Cmd("remove", i).action = "remove" /\ Cmd("remove", i).target = i
  BY CmdType DEF FirewallInv, FirewallTypeOK, Places
<1>2. FinalKernel \in Kernels /\ Queued \in Kernels
  BY <1>1, KernelsAlike
<1>3. /\ FinalKernel' = Helper(FinalKernel, Cmd("remove", i)) /\ Queued' = Helper(Queued, Cmd("remove", i))
      /\ Kernel' = Kernel /\ fwQueue' \in Seq(Cmds)
  BY <1>1, CommandQueued
<1>4. /\ FinalKernel'.table = FinalKernel.table /\ FinalKernel'.set = FinalKernel.set \ {i}
      /\ Queued'.set = Queued.set \ {i}
  BY <1>1, <1>2, <1>3, HelperRemoves
<1>5. FirewallTypeOK'
  BY <1>1, <1>3 DEF FirewallTypeOK
<1>6. RulesReachKernel'
  BY <1>4 DEF FirewallInv, RulesReachKernel
<1>7. NoStuckBlock'
  BY <1>4 DEF FirewallInv, NoStuckBlock
<1>8. up' /\ ~flushed' => FinalKernel'.table
  BY <1>4 DEF FirewallInv
<1>9. Queued'.set \subseteq DOMAIN fwRules' \cup fwSweep'
  BY <1>4 DEF FirewallInv
<1> QED BY <1>5, <1>6, <1>7, <1>8, <1>9 DEF FirewallInv

LEMMA FirewallInit == ASSUME BanInit PROVE FirewallInv
<1>1. up = FALSE /\ DOMAIN fwRules = {} /\ DOMAIN fwFile = {} /\ fwQueue = <<>> /\ fwSweep = {} /\ kernel = {} /\ table = FALSE
  BY DEF BanInit, Nobody
<1>2. Kernel \in Kernels
  BY <1>1 DEF Kernel, Kernels
<1>3. <<>> \in Seq(Cmds)
  OBVIOUS
<1>4. FirewallTypeOK
  BY <1>1, <1>2, <1>3, Zenon DEF FirewallTypeOK
<1> QED BY <1>1, <1>4 DEF FirewallInv, RulesReachKernel, NoStuckBlock

LEMMA HelperFlushes ==
    \A k \in Kernels, c \in Cmds : c.action = "flush" => Helper(k, c) \in Kernels /\ Helper(k, c).set = {}
BY HelperIs

LEMMA IntervalFinite == ASSUME NEW n \in Nat PROVE IsFiniteSet(1..n)
<1>1. 1 \in Int /\ n \in Int
  OBVIOUS
<1> QED BY <1>1, FS_Interval

\* block_ip, whoever calls it.
LEMMA BlockKeeps ==
    ASSUME FirewallInv, up, NEW i \in Ipids, NEW dur, block_ip(i, dur), DOMAIN fwFile' \subseteq Ipids,
           UNCHANGED <<up, fwSweep, kernel, table, leftover, flushed>>
    PROVE  FirewallInv'
<1>1. DOMAIN fwRules' = DOMAIN fwRules \cup {i} /\ fwQueue' = Append(fwQueue, Cmd("add", i))
      /\ raced' = IF i \in fwSweep THEN raced \cup {i} ELSE raced \ {i}
  BY DEF block_ip, With
<1> QED BY <1>1, FirewallBlocks

LEMMA UnblockKeeps ==
    ASSUME FirewallInv, up, NEW i \in Ipids, unblock_ip(i), DOMAIN fwFile' \subseteq Ipids,
           UNCHANGED <<up, fwSweep, kernel, table, leftover, flushed, raced>>
    PROVE  FirewallInv'
<1>1. CASE i \in DOMAIN fwRules
  <2>1. DOMAIN fwRules' = DOMAIN fwRules \ {i} /\ fwQueue' = Append(fwQueue, Cmd("remove", i))
    BY <1>1 DEF unblock_ip, Without, Restrict
  <2> QED BY <1>1, <2>1, FirewallUnblocks
<1>2. CASE i \notin DOMAIN fwRules
  BY <1>2, FirewallStutters DEF unblock_ip, firewallVars
<1> QED BY <1>1, <1>2

LEMMA FirewallHelper == ASSUME FirewallInv, exec_loop PROVE FirewallInv'
<1> DEFINE c == Head(fwQueue)
           k == Helper(Kernel, c)
           e == Helper(Bare(table), c)
           q == Tail(fwQueue)
<1>1. /\ up /\ fwQueue # <<>> /\ kernel' = k.set /\ table' = k.table /\ fwQueue' = q /\ leftover' = leftover \cap kernel'
      /\ UNCHANGED <<up, fwRules, fwSweep, fwFile, raced, flushed>>
  BY DEF exec_loop
<1>2. /\ fwQueue \in Seq(Cmds) /\ c \in Cmds /\ q \in Seq(Cmds)
      /\ Kernel \in Kernels /\ Bare(table) \in Kernels /\ Kernel.table = table /\ Bare(table).table = table /\ Bare(table).set = {}
      /\ Kernel.set = kernel
  BY <1>1, ToSetTail DEF FirewallInv, FirewallTypeOK, Kernel, Kernels, Bare
<1>3. /\ k \in Kernels /\ e \in Kernels /\ k.table = e.table
  <2>1. Alike(Kernel, Bare(table), Kernel, Bare(table))
    BY <1>2 DEF Alike
  <2>2. Alike(k, e, Kernel, Bare(table))
    BY <1>2, <2>1, HelperAlike
  <2> QED BY <2>2 DEF Alike
<1>4. FinalKernel = HelpAll(k, q) /\ Queued = HelpAll(e, q)
  BY <1>1, <1>2, HelpAllHead DEF FinalKernel, Queued
<1> HIDE DEF c, k, e, q
<1>5. Kernel' = k /\ Bare(table') = Bare(k.table) /\ Bare(k.table) \in Kernels /\ Bare(k.table).table = k.table /\ Bare(k.table).set = {}
  BY <1>1, <1>3 DEF Kernel, Kernels, Bare
<1>6. FinalKernel' = FinalKernel
  BY <1>1, <1>4, <1>5 DEF FinalKernel
<1>7. Queued' = HelpAll(Bare(k.table), q)
  BY <1>1, <1>5 DEF Queued
<1>8. Alike(HelpAll(e, q), HelpAll(Bare(k.table), q), e, Bare(k.table))
  BY <1>2, <1>3, <1>5, QueueAlike
<1>9. Queued'.set \subseteq Queued.set
  BY <1>4, <1>5, <1>7, <1>8 DEF Alike
<1>10. FirewallTypeOK'
  BY <1>1, <1>2, <1>3, <1>5 DEF FirewallInv, FirewallTypeOK
<1>11. FinalKernel'.set \subseteq Queued'.set \cup kernel'
  <2>1. Alike(HelpAll(k, q), HelpAll(Bare(k.table), q), k, Bare(k.table))
    BY <1>2, <1>3, <1>5, QueueAlike
  <2> QED BY <1>1, <1>4, <1>6, <1>7, <2>1 DEF Alike
<1>12. RulesReachKernel'
  BY <1>1, <1>6 DEF FirewallInv, RulesReachKernel
<1>13. NoStuckBlock'
  BY <1>1, <1>6, <1>9, <1>11 DEF FirewallInv, NoStuckBlock
<1> QED BY <1>1, <1>6, <1>9, <1>10, <1>12, <1>13 DEF FirewallInv

LEMMA FirewallErase == ASSUME FirewallInv, sweep_erase PROVE FirewallInv'
<1>1. /\ up /\ fwSweep = {} /\ fwSweep' = Due /\ DOMAIN fwRules' = DOMAIN fwRules \ Due /\ Due \subseteq DOMAIN fwRules
      /\ UNCHANGED <<up, fwQueue, fwFile, kernel, table, leftover, flushed, raced>>
  BY DEF sweep_erase, Without, Restrict, Due, histVars
<1>2. FinalKernel' = FinalKernel /\ Queued' = Queued /\ Kernel' = Kernel
  BY <1>1 DEF FinalKernel, Queued, Kernel
<1>3. FirewallTypeOK'
  BY <1>1, <1>2 DEF FirewallInv, FirewallTypeOK
<1>4. RulesReachKernel' /\ NoStuckBlock'
  BY <1>1, <1>2 DEF FirewallInv, RulesReachKernel, NoStuckBlock
<1> QED BY <1>1, <1>2, <1>3, <1>4 DEF FirewallInv

LEMMA FirewallFlush == ASSUME FirewallInv, flush PROVE FirewallInv'
<1>1. /\ up /\ DOMAIN fwRules' = {} /\ DOMAIN fwFile' = {} /\ fwQueue' = Append(fwQueue, Cmd("flush", "none")) /\ flushed' = TRUE
      /\ UNCHANGED <<up, fwSweep, kernel, table, leftover, raced>>
  BY DEF flush, Nobody
<1>2. FirewallTypeOK /\ Cmd("flush", "none") \in Cmds /\ Cmd("flush", "none").action = "flush"
  BY CmdType DEF FirewallInv, Places
<1>3. FinalKernel \in Kernels /\ Queued \in Kernels
  BY <1>2, KernelsAlike
<1>4. /\ FinalKernel' = Helper(FinalKernel, Cmd("flush", "none")) /\ Queued' = Helper(Queued, Cmd("flush", "none"))
      /\ Kernel' = Kernel /\ fwQueue' \in Seq(Cmds)
  BY <1>1, <1>2, CommandQueued
<1>5. FinalKernel'.set = {}
  BY <1>2, <1>3, <1>4, HelperFlushes
<1>6. Queued'.set = {}
  BY <1>2, <1>3, <1>4, HelperFlushes
<1>7. FirewallTypeOK'
  BY <1>1, <1>2, <1>4 DEF FirewallTypeOK
<1>8. RulesReachKernel' /\ NoStuckBlock'
  BY <1>1, <1>5 DEF RulesReachKernel, NoStuckBlock
<1> QED BY <1>1, <1>6, <1>7, <1>8 DEF FirewallInv

\* The commands load_from_db queues: init, then an element for every rule.
LEMMA LoadQueue ==
    ASSUME StoreTypeOK, FirewallInv, load_from_db
    PROVE  /\ fwQueue' \in Seq(Cmds) /\ DOMAIN fwRules' \subseteq Ipids
           /\ \A k \in Kernels : /\ HelpAll(k, fwQueue').table = TRUE
                                 /\ HelpAll(k, fwQueue').set = k.set \cup DOMAIN fwRules'
<1> DEFINE rows == {k \in all_active_bans(db) : db.bans[k].ip}
           kept == Restrict(fwFile, {i \in DOMAIN fwFile : ~(fwFile[i] > 0 /\ fwFile[i] <= now)})
           blocked == {db.bans[k].ipid : k \in rows}
           ids == SetToSeq(rows)
           first == SetToSeq(DOMAIN kept)
           a == [n \in DOMAIN first |-> Cmd("add", first[n])]
           b == [n \in DOMAIN ids |-> Cmd("add", [m \in DOMAIN ids |-> db.bans[ids[m]].ipid][n])]
           b1 == [n \in DOMAIN [m \in DOMAIN ids |-> db.bans[ids[m]].ipid] |-> Cmd("add", [m \in DOMAIN ids |-> db.bans[ids[m]].ipid][n])]
           init == Cmd("init", "none")
<1>1. DOMAIN fwRules' = DOMAIN kept \cup blocked /\ fwQueue' = <<init>> \o a \o b1
  BY Zenon DEF load_from_db
<1>2. b1 = b
  OBVIOUS
<1>3. rows \subseteq DOMAIN db.bans /\ \A k \in DOMAIN db.bans : db.bans[k] \in Row
  BY ActiveRows
<1>4. IsFiniteSet(rows)
  <2>1. DOMAIN db.bans = 1..Len(db.bans) /\ Len(db.bans) \in Nat
    BY DrainedType, SeqIsFunction
  <2>2. IsFiniteSet(1..Len(db.bans))
    BY <2>1, IntervalFinite
  <2> QED BY <1>3, <2>1, <2>2, FS_Subset
<1>5. DOMAIN kept \subseteq Ipids /\ IsFiniteSet(DOMAIN kept)
  <2>1. DOMAIN kept \subseteq DOMAIN fwFile
    BY DEF Restrict
  <2>2. DOMAIN kept \subseteq Ipids
    BY <2>1 DEF FirewallInv, FirewallTypeOK
  <2> QED BY <2>2, BanAssumption, FS_Subset
<1> HIDE DEF rows, kept
<1>6. ids \in Seq(rows) /\ ToSet(ids) = rows
  BY <1>4, SetToSeqLists
<1>7. first \in Seq(DOMAIN kept) /\ ToSet(first) = DOMAIN kept
  BY <1>5, SetToSeqLists
<1> HIDE DEF ids, first
<1>8. blocked \subseteq Ipids
  BY <1>3, RowType
<1>9. \A p \in Places : Cmd("add", p) \in Cmds /\ Cmd("add", p).action = "add" /\ Cmd("add", p).target = p
  BY CmdType
<1>10. /\ a \in Seq(Cmds) /\ Len(a) \in Nat /\ DOMAIN a = 1..Len(a) /\ \A n \in DOMAIN a : a[n].action = "add"
       /\ {a[n].target : n \in DOMAIN a} = DOMAIN kept
  <2>1. Len(first) \in Nat /\ DOMAIN first = 1..Len(first) /\ \A n \in DOMAIN first : first[n] \in Places
    BY <1>5, <1>7, SeqIsFunction DEF Places
  <2>2. a \in [1..Len(first) -> Cmds] /\ DOMAIN a = DOMAIN first /\ \A n \in DOMAIN a : a[n].action = "add" /\ a[n].target = first[n]
    BY <1>9, <2>1
  <2> HIDE DEF a
  <2>3. a \in Seq(Cmds) /\ Len(a) = Len(first)
    BY <2>1, <2>2, FunctionIsSeq
  <2>4. {a[n].target : n \in DOMAIN a} = ToSet(first)
    BY <2>2 DEF ToSet
  <2> QED BY <1>7, <2>1, <2>2, <2>3, <2>4
<1>11. /\ b \in Seq(Cmds) /\ Len(b) \in Nat /\ DOMAIN b = 1..Len(b) /\ \A n \in DOMAIN b : b[n].action = "add"
       /\ {b[n].target : n \in DOMAIN b} = blocked
  <2>1. Len(ids) \in Nat /\ DOMAIN ids = 1..Len(ids) /\ \A n \in DOMAIN ids : ids[n] \in rows /\ db.bans[ids[n]].ipid \in Places
    BY <1>3, <1>6, SeqIsFunction, RowType DEF Places
  <2>2. b \in [1..Len(ids) -> Cmds] /\ DOMAIN b = DOMAIN ids /\ \A n \in DOMAIN b : b[n].action = "add" /\ b[n].target = db.bans[ids[n]].ipid
    BY <1>9, <2>1
  <2> HIDE DEF b
  <2>3. b \in Seq(Cmds) /\ Len(b) = Len(ids)
    BY <2>1, <2>2, FunctionIsSeq
  <2>4. {b[n].target : n \in DOMAIN b} = {db.bans[k].ipid : k \in ToSet(ids)}
    BY <2>2 DEF ToSet
  <2> QED BY <1>6, <2>1, <2>2, <2>3, <2>4
<1>12. init \in Cmds /\ init.action = "init"
  BY CmdType DEF Places
<1> HIDE DEF a, b, b1, blocked, init
<1> DEFINE r == a \o b
<1>13. /\ r \in Seq(Cmds) /\ fwQueue' = <<init>> \o r
       /\ \A n \in DOMAIN r : r[n].action = "add"
       /\ {r[n].target : n \in DOMAIN r} = DOMAIN kept \cup blocked
  <2>1. r \in Seq(Cmds) /\ DOMAIN r = 1..(Len(a) + Len(b)) /\ <<init>> \in Seq(Cmds)
    BY <1>10, <1>11, <1>12
  <2>2. \A n \in DOMAIN a : n \in DOMAIN r /\ r[n] = a[n]
    BY <1>10, <1>11
  <2>3. \A n \in DOMAIN b : Len(a) + n \in DOMAIN r /\ r[Len(a) + n] = b[n]
    BY <1>10, <1>11
  <2>4. \A n \in DOMAIN r : n \in DOMAIN a \/ \E m \in DOMAIN b : n = Len(a) + m
    <3> SUFFICES ASSUME NEW n \in DOMAIN r, n \notin DOMAIN a PROVE \E m \in DOMAIN b : n = Len(a) + m
      OBVIOUS
    <3>1. n \in 1..(Len(a) + Len(b)) /\ ~(n <= Len(a))
      BY <1>10, <2>1
    <3>2. n - Len(a) \in DOMAIN b /\ n = Len(a) + (n - Len(a))
      BY <1>10, <1>11, <3>1
    <3> QED BY <3>2
  <2>5. fwQueue' = <<init>> \o r
    BY <1>1, <1>2, <1>10, <1>11, <2>1
  <2>7. \A n \in DOMAIN r : r[n].action = "add"
    BY <1>10, <1>11, <2>2, <2>3, <2>4
  <2> HIDE DEF r
  <2>6. {r[n].target : n \in DOMAIN r} = {a[n].target : n \in DOMAIN a} \cup {b[n].target : n \in DOMAIN b}
    BY <2>2, <2>3, <2>4
  <2> QED BY <1>10, <1>11, <2>1, <2>5, <2>6, <2>7
<1> HIDE DEF r
<1>14. fwQueue' \in Seq(Cmds) /\ fwQueue' # <<>> /\ Head(fwQueue') = init /\ Tail(fwQueue') = r
  BY <1>12, <1>13
<1>15. ASSUME NEW k \in Kernels
       PROVE  HelpAll(k, fwQueue').table = TRUE /\ HelpAll(k, fwQueue').set = k.set \cup DOMAIN fwRules'
  <2> DEFINE l == Helper(k, init)
  <2>1. l \in Kernels /\ l.table = TRUE /\ l.set = k.set
    BY <1>12, HelperIs
  <2>2. HelpAll(k, fwQueue') = HelpAll(l, r)
    BY <1>14, HelpAllHead
  <2> HIDE DEF l
  <2> QED BY <1>1, <1>13, <2>1, <2>2, AddsAll
<1> QED BY <1>1, <1>5, <1>8, <1>14, <1>15

LEMMA FirewallLoad == ASSUME StoreTypeOK, FirewallInv, load_from_db PROVE FirewallInv'
<1>1. /\ ~up /\ up' = TRUE /\ UNCHANGED <<fwSweep, fwFile, kernel, table, leftover, flushed, raced>>
  BY DEF load_from_db, histVars
<1>2. fwSweep = {} /\ kernel \subseteq leftover /\ Kernel \in Kernels /\ Kernel.set = kernel
  BY <1>1 DEF FirewallInv, FirewallTypeOK, Kernel
<1>3. Bare(table) \in Kernels /\ Bare(table).set = {}
  BY <1>2 DEF Kernel, Kernels, Bare
<1>4. /\ fwQueue' \in Seq(Cmds) /\ DOMAIN fwRules' \subseteq Ipids
      /\ \A k \in Kernels : HelpAll(k, fwQueue').table = TRUE /\ HelpAll(k, fwQueue').set = k.set \cup DOMAIN fwRules'
  BY LoadQueue
<1>5. Kernel' = Kernel
  BY <1>1 DEF Kernel
<1>6. FinalKernel'.table = TRUE /\ FinalKernel'.set = kernel \cup DOMAIN fwRules'
  BY <1>2, <1>4, <1>5 DEF FinalKernel
<1>7. Queued'.set = DOMAIN fwRules'
  BY <1>1, <1>3, <1>4 DEF Queued
<1>8. FirewallTypeOK'
  BY <1>1, <1>4, <1>5 DEF FirewallInv, FirewallTypeOK
<1>9. RulesReachKernel' /\ NoStuckBlock'
  BY <1>1, <1>2, <1>6 DEF RulesReachKernel, NoStuckBlock
<1> QED BY <1>1, <1>2, <1>6, <1>7, <1>8, <1>9 DEF FirewallInv

LEMMA FirewallEnds == ASSUME FirewallInv, Shutdown \/ Crash PROVE FirewallInv'
<1>1. /\ up' = FALSE /\ DOMAIN fwRules' = {} /\ fwQueue' = <<>> /\ fwSweep' = {} /\ fwFile' = fwFile /\ leftover' = kernel'
  BY DEF Shutdown, Crash, Forget, Nobody
<1>2. Kernel' \in Kernels
  <2>1. CASE Crash
    BY <2>1 DEF Crash, Kernel, FirewallInv, FirewallTypeOK
  <2>2. CASE Shutdown
    <3>1. Bare(FALSE) \in Kernels /\ fwQueue \in Seq(Cmds)
      BY DEF Bare, Kernels, FirewallInv, FirewallTypeOK
    <3>2. Alike(HelpAll(Bare(FALSE), fwQueue), HelpAll(Bare(FALSE), fwQueue), Bare(FALSE), Bare(FALSE))
      BY <3>1, QueueAlike
    <3>3. ShutKernel = HelpAll(Bare(FALSE), fwQueue)
      BY DEF ShutKernel, Bare
    <3>4. ShutKernel \in Kernels
      BY <3>2, <3>3 DEF Alike
    <3>5. Kernel' = [table |-> ShutKernel.table, set |-> ShutKernel.set]
      BY <2>2 DEF Shutdown, Kernel
    <3> QED BY <3>4, <3>5 DEF Kernels
  <2> QED BY <2>1, <2>2
<1>3. FirewallTypeOK'
  BY <1>1, <1>2 DEF FirewallInv, FirewallTypeOK
<1> QED BY <1>1, <1>3 DEF FirewallInv, RulesReachKernel, NoStuckBlock

LEMMA FirewallStep == ASSUME StoreTypeOK, FirewallInv, [BanNext]_<<dbVars, banVars>> PROVE FirewallInv'
<1> USE DEF dbVars, banVars, fwVars, histVars, firewallVars
<1>0. DOMAIN fwFile \subseteq Ipids /\ DOMAIN fwRules \subseteq Ipids /\ fwSweep \subseteq Ipids
  BY DEF FirewallInv, FirewallTypeOK
<1>1. CASE DbOpen \/ Worker \/ CrashWhileMigrating \/ Tick \/ UNCHANGED <<dbVars, banVars>>
  BY <1>0, <1>1, FirewallStutters DEF DbOpen, Worker, CrashWhileMigrating, Tick
<1>2. ASSUME NEW i \in Ipids, sweep_enqueue(i) PROVE FirewallInv'
  <2>1. /\ up /\ i \in fwSweep /\ fwQueue' = Append(fwQueue, Cmd("remove", i)) /\ fwSweep' = fwSweep \ {i}
        /\ UNCHANGED <<up, fwRules, fwFile, kernel, table, leftover, flushed, raced>>
    BY <1>2 DEF sweep_enqueue
  <2>2. i \in DOMAIN fwRules => i \in raced
    BY <2>1 DEF FirewallInv
  <2> QED BY <1>0, <2>1, <2>2, FirewallUnblocks
<1>3. ASSUME NEW i \in Ipids, FirewallRemove(i) PROVE FirewallInv'
  <2>1. /\ up /\ i \in DOMAIN fwRules /\ unblock_ip(i) /\ fwFile' = fwRules'
        /\ UNCHANGED <<up, fwSweep, kernel, table, leftover, flushed, raced>>
    BY <1>3 DEF FirewallRemove
  <2>2. DOMAIN fwFile' \subseteq Ipids
    BY <1>0, <2>1 DEF unblock_ip, Without, Restrict
  <2> QED BY <2>1, <2>2, UnblockKeeps
<1>4. ASSUME NEW i \in Ipids, BanRemove(i) PROVE FirewallInv'
  <2>1. up /\ UNCHANGED <<up, fwSweep, fwFile, kernel, table, leftover, flushed, raced>>
        /\ IF bans[i].ip THEN unblock_ip(i) ELSE UNCHANGED <<fwRules, fwQueue>>
    BY <1>4 DEF BanRemove
  <2> QED BY <1>0, <2>1, UnblockKeeps, FirewallStutters
<1>5. ASSUME NEW i \in Ipids, NEW d \in Durations, FirewallAdd(i, d) PROVE FirewallInv'
  <2>1. up /\ block_ip(i, d) /\ fwFile' = fwRules' /\ UNCHANGED <<up, fwSweep, kernel, table, leftover, flushed>>
    BY <1>5 DEF FirewallAdd
  <2>2. DOMAIN fwFile' \subseteq Ipids
    BY <1>0, <2>1 DEF block_ip, With
  <2> QED BY <2>1, <2>2, BlockKeeps
<1>6. ASSUME NEW i \in Ipids, NEW d \in Durations, BanEdit(i, d) PROVE FirewallInv'
  <2>1. up /\ UNCHANGED <<up, fwSweep, fwFile, kernel, table, leftover, flushed>>
        /\ IF bans[i].ip
             THEN /\ fwRules' = With(fwRules, i, Expiry(d)) /\ fwQueue' = fwQueue \o reblock(i)
                  /\ raced' = IF i \in fwSweep THEN raced \cup {i} ELSE raced \ {i}
             ELSE UNCHANGED <<fwRules, fwQueue, raced>>
    BY <1>6 DEF BanEdit
  <2>2. CASE ~bans[i].ip
    BY <1>0, <2>1, <2>2, FirewallStutters
  <2>3. CASE bans[i].ip
    <3>1. DOMAIN fwRules' = DOMAIN fwRules \cup {i}
      BY <2>1, <2>3 DEF With
    <3>2. fwQueue \in Seq(Cmds) /\ Cmd("add", i) \in Cmds /\ Cmd("remove", i) \in Cmds
      BY CmdType DEF FirewallInv, FirewallTypeOK, Places
    <3>3. \/ fwQueue' = Append(fwQueue, Cmd("add", i))
          \/ fwQueue' = Append(Append(fwQueue, Cmd("remove", i)), Cmd("add", i))
      <4>1. fwQueue' = fwQueue \o reblock(i)
        BY <2>1, <2>3
      <4>2. reblock(i) = <<>> \o <<Cmd("add", i)>> \/ reblock(i) = <<Cmd("remove", i)>> \o <<Cmd("add", i)>>
        BY DEF reblock
      <4>3. \A q \in Seq(Cmds), c \in Cmds : q \o (<<>> \o <<c>>) = Append(q, c)
        OBVIOUS
      <4>4. \A q \in Seq(Cmds), c, e \in Cmds : q \o (<<c>> \o <<e>>) = Append(Append(q, c), e)
        OBVIOUS
      <4> QED BY <4>1, <4>2, <4>3, <4>4
    <3> QED BY <1>0, <2>1, <2>3, <3>1, <3>3, FirewallBlocks
  <2> QED BY <2>2, <2>3
<1>7. ASSUME NEW i \in Ipids, NEW h, NEW a, NEW d, BanAdd(i, h, a, d) PROVE FirewallInv'
  <2>1. up /\ UNCHANGED <<up, fwSweep, fwFile, kernel, table, leftover, flushed>>
        /\ IF a THEN block_ip(i, d) ELSE UNCHANGED <<fwRules, fwQueue, raced>>
    BY <1>7 DEF BanAdd
  <2> QED BY <1>0, <2>1, BlockKeeps, FirewallStutters
<1> QED BY <1>1, <1>2, <1>3, <1>4, <1>5, <1>6, <1>7, FirewallHelper, FirewallErase, FirewallFlush, FirewallLoad,
           FirewallEnds DEF BanNext

\* The rules and the kernel agree for any number of addresses, rules, bans and restarts (block_ip, unblock_ip,
\* sweep_expired, exec_loop, load, ~FirewallManager).
THEOREM FirewallAlwaysInStep == BanSpec => []FirewallInStep
<1> DEFINE Inv == StoreInv /\ FirewallInv
<1>1. DbInit /\ BanInit => Inv
  BY StoreInit, FirewallInit
<1>2. Inv /\ [BanNext]_<<dbVars, banVars>> => Inv'
  BY StoreStep, FirewallStep DEF StoreInv
<1>3. Inv => FirewallInStep
  BY DEF FirewallInv, FirewallInStep
<1> QED BY <1>1, <1>2, <1>3, PTL DEF BanSpec

-----------------------------------------------------------------------------
(* Accounts, tokens and sessions: AccountsAgree.                           *)

Roles == {"SUPER", "NONE"}
Account == [pw : {1, 2}, acl : Roles]
Token == [user : Users, acl : Roles, expires : Nat, revoked : BOOLEAN]

AcTablesOK(d) ==
    /\ DOMAIN d = {"bans", "users", "tokens", "mutes", "events"}
    /\ DOMAIN d.users \subseteq Users /\ \A u \in DOMAIN d.users : d.users[u] \in Account
    /\ d.tokens \in Seq(Token)

\* The same accounts with the same roles, and the same tokens.
SameRights(d, e) ==
    /\ DOMAIN e.users = DOMAIN d.users /\ \A u \in DOMAIN d.users : e.users[u].acl = d.users[u].acl
    /\ e.tokens = d.tokens

\* The account u is new, with the role acl, if there was none.
NewAccount(d, e, u, acl) ==
    /\ e.tokens = d.tokens /\ DOMAIN e.users = DOMAIN d.users \cup {u}
    /\ \A v \in DOMAIN d.users : e.users[v] = d.users[v]
    /\ u \notin DOMAIN d.users => e.users[u].acl = acl

\* The account u has changed or is gone, and its tokens are revoked.
Revised(d, e, u) ==
    /\ DOMAIN e.users \ {u} = DOMAIN d.users \ {u} /\ DOMAIN e.users \subseteq DOMAIN d.users
    /\ \A v \in DOMAIN d.users \ {u} : e.users[v] = d.users[v]
    /\ DOMAIN e.tokens = DOMAIN d.tokens
    /\ \A k \in DOMAIN d.tokens : /\ e.tokens[k].user = d.tokens[k].user /\ e.tokens[k].acl = d.tokens[k].acl
                                  /\ IF d.tokens[k].user = u THEN e.tokens[k].revoked ELSE e.tokens[k] = d.tokens[k]

NewToken(d, e, tok) == e.users = d.users /\ e.tokens = Append(d.tokens, tok)

RevokedToken(d, e, k) ==
    /\ e.users = d.users /\ DOMAIN e.tokens = DOMAIN d.tokens
    /\ \A j \in DOMAIN d.tokens : /\ e.tokens[j].user = d.tokens[j].user /\ e.tokens[j].acl = d.tokens[j].acl
                                  /\ IF j = k THEN e.tokens[j].revoked ELSE e.tokens[j] = d.tokens[j]

LEMMA CreateRuns ==
    ASSUME NEW at, NEW d, AcTablesOK(d), NEW t, t.op = "create_user", t.user \in Users, t.pw \in {1, 2}, t.acl \in Roles
    PROVE  AcTablesOK(Run(at, d, t)) /\ NewAccount(d, Run(at, d, t), t.user, t.acl)
<1>1. Run(at, d, t) = create_user(d, t)
  BY DEF Run
<1>2. CASE t.user \in DOMAIN d.users
  BY <1>1, <1>2 DEF create_user, Exists, AcTablesOK, NewAccount
<1>3. CASE t.user \notin DOMAIN d.users
  <2> DEFINE f == [u \in DOMAIN d.users \cup {t.user} |-> IF u = t.user THEN [pw |-> t.pw, acl |-> t.acl] ELSE d.users[u]]
  <2>1. Run(at, d, t) = [d EXCEPT !.users = f]
    BY <1>1, <1>3 DEF create_user, Exists
  <2>2. DOMAIN f = DOMAIN d.users \cup {t.user} /\ f[t.user] = [pw |-> t.pw, acl |-> t.acl]
        /\ \A u \in DOMAIN d.users : f[u] = d.users[u]
    BY <1>3
  <2> HIDE DEF f
  <2>3. [pw |-> t.pw, acl |-> t.acl] \in Account
    BY DEF Account
  <2> QED BY <1>3, <2>1, <2>2, <2>3 DEF AcTablesOK, NewAccount
<1> QED BY <1>2, <1>3

LEMMA DeleteRuns ==
    ASSUME NEW at, NEW d, AcTablesOK(d), NEW u, NEW e, e = Run(at, d, [op |-> "delete_user", user |-> u])
    PROVE  /\ AcTablesOK(e) /\ e.tokens = d.tokens /\ DOMAIN e.users = DOMAIN d.users \ {u}
           /\ \A v \in DOMAIN d.users \ {u} : e.users[v] = d.users[v]
<1> DEFINE f == [v \in DOMAIN d.users \ {u} |-> d.users[v]]
<1>1. e = [d EXCEPT !.users = f]
  BY DEF Run, delete_user
<1>2. DOMAIN f = DOMAIN d.users \ {u} /\ \A v \in DOMAIN d.users \ {u} : f[v] = d.users[v]
  OBVIOUS
<1> HIDE DEF f
<1> QED BY <1>1, <1>2 DEF AcTablesOK

LEMMA AclRuns ==
    ASSUME NEW at, NEW d, AcTablesOK(d), NEW t, t.op = "update_acl", t.acl \in Roles
    PROVE  /\ AcTablesOK(Run(at, d, t)) /\ Run(at, d, t).tokens = d.tokens
           /\ DOMAIN Run(at, d, t).users = DOMAIN d.users
           /\ \A u \in DOMAIN d.users \ {t.user} : Run(at, d, t).users[u] = d.users[u]
<1>1. CASE t.user \in DOMAIN d.users
  <2> DEFINE a == [d.users[t.user] EXCEPT !.acl = t.acl]
             f == [d.users EXCEPT ![t.user] = a]
  <2>1. Run(at, d, t) = [d EXCEPT !.users = f]
    BY <1>1 DEF Run, update_acl, Exists
  <2>2. a \in Account
    BY <1>1 DEF AcTablesOK, Account
  <2> HIDE DEF a
  <2>3. DOMAIN f = DOMAIN d.users /\ f[t.user] = a /\ \A u \in DOMAIN d.users \ {t.user} : f[u] = d.users[u]
    BY <1>1
  <2> HIDE DEF f
  <2> QED BY <1>1, <2>1, <2>2, <2>3 DEF AcTablesOK
<1>2. CASE t.user \notin DOMAIN d.users
  BY <1>2 DEF Run, update_acl, Exists
<1> QED BY <1>1, <1>2

LEMMA PasswordRuns ==
    ASSUME NEW at, NEW d, AcTablesOK(d), NEW t, t.op = "update_password", t.pw \in {1, 2}
    PROVE  AcTablesOK(Run(at, d, t)) /\ SameRights(d, Run(at, d, t))
<1>1. CASE t.user \in DOMAIN d.users
  <2> DEFINE a == [d.users[t.user] EXCEPT !.pw = t.pw]
             f == [d.users EXCEPT ![t.user] = a]
  <2>1. Run(at, d, t) = [d EXCEPT !.users = f]
    BY <1>1 DEF Run, update_password, Exists
  <2>2. a \in Account /\ a.acl = d.users[t.user].acl
    BY <1>1 DEF AcTablesOK, Account
  <2> HIDE DEF a
  <2>3. DOMAIN f = DOMAIN d.users /\ f[t.user] = a /\ \A u \in DOMAIN d.users \ {t.user} : f[u] = d.users[u]
    BY <1>1
  <2> HIDE DEF f
  <2> QED BY <1>1, <2>1, <2>2, <2>3 DEF AcTablesOK, SameRights
<1>2. CASE t.user \notin DOMAIN d.users
  BY <1>2 DEF Run, update_password, Exists, SameRights
<1> QED BY <1>1, <1>2

LEMMA TokenRuns ==
    ASSUME NEW at, NEW d, AcTablesOK(d), NEW t, t.op = "create_auth_token",
           t.user \in Users, t.acl \in Roles, t.expires \in Nat
    PROVE  LET tok == [user |-> t.user, acl |-> t.acl, expires |-> t.expires, revoked |-> FALSE]
           IN  AcTablesOK(Run(at, d, t)) /\ NewToken(d, Run(at, d, t), tok) /\ tok \in Token
<1> DEFINE tok == [user |-> t.user, acl |-> t.acl, expires |-> t.expires, revoked |-> FALSE]
<1>1. Run(at, d, t) = [d EXCEPT !.tokens = Append(d.tokens, tok)]
  BY DEF Run, create_auth_token
<1>2. tok \in Token
  BY DEF Token
<1> HIDE DEF tok
<1>3. Append(d.tokens, tok) \in Seq(Token)
  BY <1>2 DEF AcTablesOK
<1>4. AcTablesOK(Run(at, d, t)) /\ NewToken(d, Run(at, d, t), tok)
  BY <1>1, <1>3 DEF AcTablesOK, NewToken
<1> QED BY <1>2, <1>4 DEF tok

LEMMA RevokedRow ==
    ASSUME NEW r \in Token
    PROVE  /\ [r EXCEPT !.revoked = TRUE] \in Token /\ [r EXCEPT !.revoked = TRUE].revoked
           /\ [r EXCEPT !.revoked = TRUE].user = r.user /\ [r EXCEPT !.revoked = TRUE].acl = r.acl
BY DEF Token

LEMMA RevokeRuns ==
    ASSUME NEW at, NEW d, AcTablesOK(d), NEW t, t.op = "revoke_auth_token", t.token \in DOMAIN d.tokens
    PROVE  AcTablesOK(Run(at, d, t)) /\ RevokedToken(d, Run(at, d, t), t.token)
<1> DEFINE r == [d.tokens[t.token] EXCEPT !.revoked = TRUE]
           s == [d.tokens EXCEPT ![t.token] = r]
<1>1. Run(at, d, t) = [d EXCEPT !.tokens = s]
  BY DEF Run, revoke_auth_token
<1>2. d.tokens \in Seq(Token) /\ d.tokens[t.token] \in Token
  BY SeqIsFunction DEF AcTablesOK
<1>3. r \in Token /\ r.revoked /\ r.user = d.tokens[t.token].user /\ r.acl = d.tokens[t.token].acl
  BY <1>2, RevokedRow
<1> HIDE DEF r
<1>4. s \in Seq(Token) /\ DOMAIN s = DOMAIN d.tokens /\ s[t.token] = r /\ \A j \in DOMAIN d.tokens : j # t.token => s[j] = d.tokens[j]
  BY <1>2, <1>3
<1> HIDE DEF s
<1> QED BY <1>1, <1>3, <1>4 DEF AcTablesOK, RevokedToken

LEMMA RevokeAllRuns ==
    ASSUME NEW at, NEW d, AcTablesOK(d), NEW t, t.op = "revoke_all_tokens_for_user"
    PROVE  /\ AcTablesOK(Run(at, d, t)) /\ Run(at, d, t).users = d.users
           /\ DOMAIN Run(at, d, t).tokens = DOMAIN d.tokens
           /\ \A k \in DOMAIN d.tokens :
                /\ Run(at, d, t).tokens[k].user = d.tokens[k].user /\ Run(at, d, t).tokens[k].acl = d.tokens[k].acl
                /\ IF d.tokens[k].user = t.user THEN Run(at, d, t).tokens[k].revoked ELSE Run(at, d, t).tokens[k] = d.tokens[k]
<1> DEFINE s == [i \in DOMAIN d.tokens |-> IF d.tokens[i].user = t.user THEN [d.tokens[i] EXCEPT !.revoked = TRUE] ELSE d.tokens[i]]
<1>1. Run(at, d, t) = [d EXCEPT !.tokens = s]
  BY DEF Run, revoke_all_tokens_for_user
<1>2. /\ d.tokens \in Seq(Token) /\ DOMAIN d.tokens = 1..Len(d.tokens) /\ Len(d.tokens) \in Nat
      /\ \A k \in DOMAIN d.tokens : d.tokens[k] \in Token
  BY SeqIsFunction DEF AcTablesOK
<1>3. ASSUME NEW k \in DOMAIN d.tokens
      PROVE  /\ s[k] \in Token /\ s[k].user = d.tokens[k].user /\ s[k].acl = d.tokens[k].acl
             /\ IF d.tokens[k].user = t.user THEN s[k].revoked ELSE s[k] = d.tokens[k]
  <2>1. s[k] = IF d.tokens[k].user = t.user THEN [d.tokens[k] EXCEPT !.revoked = TRUE] ELSE d.tokens[k]
    OBVIOUS
  <2> HIDE DEF s
  <2>2. d.tokens[k] \in Token
    BY <1>2
  <2> QED BY <2>1, <2>2, RevokedRow
<1>4. DOMAIN s = DOMAIN d.tokens /\ s \in [1..Len(d.tokens) -> Token]
  <2>1. s = [i \in 1..Len(d.tokens) |-> s[i]]
    BY <1>2
  <2> QED BY <1>2, <1>3, <2>1
<1> HIDE DEF s
<1>5. s \in Seq(Token)
  BY <1>2, <1>4, FunctionIsSeq
<1> QED BY <1>1, <1>3, <1>4, <1>5 DEF AcTablesOK

Session == [live : BOOLEAN, mod : BOOLEAN, role : Roles \cup {""}, name : Users \cup {""}, tok : Nat, chg : BOOLEAN]
Holding == [at : {"idle", "login", "bind"}, user : Users \cup {""}, acl : Roles \cup {""}, tok : Nat, stale : BOOLEAN]
Sessions == AoClients \cup NxClients
Revoke(u) == [op |-> "revoke_all_tokens_for_user", user |-> u]

AcTypeOK ==
    /\ AcTablesOK(db) /\ dbQueue \in {<<>>} \cup {<<Revoke(u)>> : u \in Users} /\ now \in Nat
    /\ sess \in [Sessions -> Session] /\ \A c \in Sessions : sess[c].mod => sess[c].live
    /\ rest \in [Threads -> Holding] /\ \A t \in Threads : rest[t].at = "login" => rest[t].user \in Users /\ rest[t].acl \in Roles
    /\ auth_type \in {"SIMPLE", "ADVANCED"} /\ early \in BOOLEAN

\* What a REST thread holds is still so unless it is marked stale.
HeldOK(d, r) ==
    /\ r.at = "login" /\ ~r.stale => r.user \in DOMAIN d.users /\ d.users[r.user].acl = r.acl
    /\ r.at = "bind" => /\ r.tok \in DOMAIN d.tokens /\ d.tokens[r.tok].user = r.user
                        /\ ~r.stale => ~d.tokens[r.tok].revoked

\* A REST session belongs to the account of its token, which is revoked only if the session has outrun it.
BoundOK(d, s, out) ==
    s.live /\ s.tok > 0 => /\ s.tok \in DOMAIN d.tokens /\ d.tokens[s.tok].user = s.name
                           /\ ~out => ~d.tokens[s.tok].revoked

TokensOK(d, out) ==
    \A k \in DOMAIN d.tokens :
       ~d.tokens[k].revoked /\ k \notin out =>
          d.tokens[k].user \in DOMAIN d.users /\ d.users[d.tokens[k].user].acl = d.tokens[k].acl

\* Once there is an account, or the mode is ADVANCED, root is there with SUPER.
RootOK(d, type, soon) ==
    ~soon /\ (type = "ADVANCED" \/ DOMAIN d.users # {}) => "root" \in DOMAIN d.users /\ d.users["root"].acl = "SUPER"

RightsInv ==
    /\ TokensOK(Drained, outrun) /\ RootOK(Drained, auth_type, early)
    /\ \A t \in Threads : HeldOK(Drained, rest[t])
    /\ \A n \in NxClients : BoundOK(Drained, sess[n], n \in outrun)

GaugeInv == moderators = Cardinality({c \in Sessions : sess[c].mod})

AcInv == AcTypeOK /\ RightsInv /\ GaugeInv

-----------------------------------------------------------------------------
LEMMA TheRevocation == \A u : RevokeAfter(u) = <<Revoke(u)>>
BY DEF RevokeAfter, Revoke

LEMMA RunOne == \A at, d, t : RunAll(at, d, <<t>>) = Run(at, d, t)
<1> SUFFICES ASSUME NEW at, NEW d, NEW t PROVE RunAll(at, d, <<t>>) = Run(at, d, t)
  OBVIOUS
<1>1. <<t>> \in Seq({t}) /\ <<t>> # <<>> /\ Head(<<t>>) = t /\ Tail(<<t>>) = <<>>
  OBVIOUS
<1>2. RunAll(at, d, <<t>>) = RunAll(at, Run(at, d, t), <<>>)
  BY <1>1, RunAllHead
<1> QED BY <1>2, RunAllEmpty

\* What the database will hold: what it holds, or that with one user's tokens revoked.
LEMMA DrainedIs ==
    ASSUME AcTypeOK
    PROVE  /\ AcTablesOK(Drained)
           /\ \/ dbQueue = <<>> /\ Drained = db
              \/ \E u \in Users : dbQueue = <<Revoke(u)>> /\ \A at : Drained = Run(at, db, Revoke(u))
<1>1. CASE dbQueue = <<>>
  BY <1>1, RunAllEmpty DEF AcTypeOK, Drained
<1>2. ASSUME NEW u \in Users, dbQueue = <<Revoke(u)>>
      PROVE  AcTablesOK(Drained) /\ \A at : Drained = Run(at, db, Revoke(u))
  <2>1. Drained = Run(now, db, Revoke(u))
    BY <1>2, RunOne DEF Drained
  <2>2. \A at, to : Run(at, db, Revoke(u)) = Run(to, db, Revoke(u))
    BY DEF Run, Revoke
  <2>3. Revoke(u).op = "revoke_all_tokens_for_user"
    BY DEF Revoke
  <2>4. AcTablesOK(Drained)
    BY <2>1, <2>3, RevokeAllRuns DEF AcTypeOK
  <2> QED BY <2>1, <2>2, <2>4
<1> QED BY <1>1, <1>2 DEF AcTypeOK

LEMMA DrainedThen ==
    /\ dbQueue' = <<>> => Drained' = db'
    /\ \A u : dbQueue' = <<Revoke(u)>> => Drained' = Run(now', db', Revoke(u))
BY RunAllEmpty, RunOne DEF Drained

\* A read waits for what is queued.
LEMMA ReadKeeps ==
    ASSUME AcTypeOK, Read
    PROVE  dbQueue' = <<>> /\ Drained' = Drained /\ db' = Drained /\ AcTablesOK(db')
BY DrainedIs, DrainedThen DEF Read

\* A step that leaves the rights as they were.
LEMMA RightsKept ==
    ASSUME RightsInv, SameRights(Drained, Drained'), UNCHANGED <<outrun, rest, auth_type, early>>,
           \A n \in NxClients : sess'[n] = sess[n]
    PROVE  RightsInv'
BY DEF RightsInv, SameRights, TokensOK, RootOK, HeldOK, BoundOK

\* One more moderator, one fewer, and the moderators of S gone.
LEMMA GaugeMoves ==
    ASSUME AcTypeOK, GaugeInv
    PROVE  /\ \A c \in Sessions : \A s : ~sess[c].mod /\ s.mod /\ sess' = [sess EXCEPT ![c] = s] /\ moderators' = moderators + 1 => GaugeInv'
           /\ \A c \in Sessions : \A s : sess[c].mod /\ ~s.mod /\ sess' = [sess EXCEPT ![c] = s] /\ moderators' = moderators - 1 => GaugeInv'
           /\ (\A c \in Sessions : sess'[c].mod = sess[c].mod) /\ moderators' = moderators => GaugeInv'
<1> DEFINE M == {c \in Sessions : sess[c].mod}
           N == {c \in Sessions : sess'[c].mod}
<1>1. IsFiniteSet(Sessions) /\ IsFiniteSet(M)
  <2>1. M \subseteq Sessions
    OBVIOUS
  <2> QED BY <2>1, AccountsAssumption, FS_Subset DEF Sessions
<1>2. moderators = Cardinality(M) /\ (moderators' = Cardinality(N) => GaugeInv') /\ Cardinality(M) \in Nat
  BY <1>1, FS_CardinalityType DEF GaugeInv
<1>3. ASSUME NEW c \in Sessions, NEW s, ~sess[c].mod, s.mod, sess' = [sess EXCEPT ![c] = s], moderators' = moderators + 1
      PROVE  GaugeInv'
  <2>1. N = M \cup {c} /\ c \notin M
    BY <1>3 DEF AcTypeOK
  <2> HIDE DEF M, N
  <2>2. Cardinality(N) = Cardinality(M) + 1
    BY <1>1, <2>1, FS_AddElement
  <2> QED BY <1>2, <1>3, <2>2
<1>4. ASSUME NEW c \in Sessions, NEW s, sess[c].mod, ~s.mod, sess' = [sess EXCEPT ![c] = s], moderators' = moderators - 1
      PROVE  GaugeInv'
  <2>1. N = M \ {c} /\ c \in M
    BY <1>4 DEF AcTypeOK
  <2> HIDE DEF M, N
  <2>2. Cardinality(N) = Cardinality(M) - 1
    BY <1>1, <2>1, FS_RemoveElement
  <2> QED BY <1>2, <1>4, <2>2
<1>5. ASSUME \A c \in Sessions : sess'[c].mod = sess[c].mod, moderators' = moderators
      PROVE  GaugeInv'
  <2>1. N = M
    BY <1>5
  <2> QED BY <1>2, <1>5, <2>1
<1> QED BY <1>3, <1>4, <1>5

LEMMA GaugeEnds ==
    ASSUME AcTypeOK, GaugeInv, NEW S \in SUBSET Sessions, Ended(S)
    PROVE  GaugeInv'
<1> DEFINE M == {c \in Sessions : sess[c].mod}
           N == {c \in Sessions : sess'[c].mod}
           G == {c \in S : sess[c].mod}
<1>1. IsFiniteSet(Sessions) /\ IsFiniteSet(M)
  <2>1. M \subseteq Sessions
    OBVIOUS
  <2> QED BY <2>1, AccountsAssumption, FS_Subset DEF Sessions
<1>2. moderators = Cardinality(M) /\ moderators' = moderators - Cardinality(G) /\ (moderators' = Cardinality(N) => GaugeInv')
  BY DEF GaugeInv, Ended
<1>3. N = M \ G /\ M \cap G = G
  <2>1. \A c \in Sessions : sess'[c] = IF c \in S THEN Gone ELSE sess[c]
    BY DEF Ended, AcTypeOK
  <2>2. ~Gone.mod
    BY DEF Gone
  <2> QED BY <2>1, <2>2
<1> HIDE DEF M, N, G
<1>4. Cardinality(N) = Cardinality(M) - Cardinality(G)
  BY <1>1, <1>3, FS_Difference
<1> QED BY <1>2, <1>4

LEMMA AcInitOK == ASSUME DbInit, AcInit PROVE AcInv
<1>1. AcTablesOK(db) /\ Drained = db /\ dbQueue = <<>> /\ DOMAIN db.users = {} /\ DOMAIN db.tokens = {}
  <2>1. AcTablesOK(db) /\ dbQueue = <<>> /\ DOMAIN db.users = {} /\ DOMAIN db.tokens = {}
    BY DEF DbInit, NoTables, AcTablesOK
  <2> QED BY <2>1, RunAllEmpty DEF Drained
<1>2. \A c \in Sessions : sess[c] \in {Guest, Gone} /\ sess \in [Sessions -> {Guest, Gone}]
  BY DEF AcInit, Sessions
<1>3. Guest \in Session /\ Gone \in Session /\ ~Guest.mod /\ ~Gone.mod /\ Guest.tok = 0 /\ Gone.tok = 0
  BY DEF Guest, Gone, Session
<1>4. Idle \in Holding /\ Idle.at = "idle"
  BY DEF Idle, Holding
<1>5. sess \in [Sessions -> Session]
  <2>1. \A c \in Sessions : sess[c] \in Session
    BY <1>2, <1>3
  <2>2. sess = [c \in Sessions |-> sess[c]]
    BY DEF AcInit, Sessions
  <2> QED BY <2>1, <2>2
<1>6. AcTypeOK
  BY <1>1, <1>2, <1>3, <1>4, <1>5 DEF AcTypeOK, AcInit, DbInit
<1>7. RightsInv
  <2>1. \A n \in NxClients : sess[n].tok = 0
    BY <1>2, <1>3 DEF Sessions
  <2> QED BY <1>1, <1>4, <2>1 DEF RightsInv, TokensOK, RootOK, HeldOK, BoundOK, AcInit
<1>8. GaugeInv
  <2>1. {c \in Sessions : sess[c].mod} = {}
    BY <1>2, <1>3
  <2> QED BY <2>1, FS_EmptySet DEF GaugeInv, AcInit
<1> QED BY <1>6, <1>7, <1>8 DEF AcInv

LEMMA SameIsSame == \A d : SameRights(d, d)
BY DEF SameRights

\* A session that is not the REST API's changes.
LEMMA OwnSession ==
    ASSUME AcInv, NEW c \in AoClients, NEW s \in Session, s.mod => s.live, sess' = [sess EXCEPT ![c] = s],
           AcTablesOK(db'), dbQueue' \in {<<>>} \cup {<<Revoke(u)>> : u \in Users}, now' = now,
           SameRights(Drained, Drained'), UNCHANGED <<outrun, rest, auth_type, early>>
    PROVE  AcTypeOK' /\ RightsInv'
<1>1. c \in Sessions /\ c \notin NxClients /\ \A n \in NxClients : n \in Sessions
  BY AccountsAssumption DEF Sessions
<1>2. \A n \in Sessions : sess'[n] = IF n = c THEN s ELSE sess[n]
  BY <1>1 DEF AcInv, AcTypeOK
<1>3. AcTypeOK'
  BY <1>1, <1>2 DEF AcInv, AcTypeOK
<1>4. RightsInv'
  BY <1>1, <1>2, RightsKept DEF AcInv
<1> QED BY <1>3, <1>4

LEMMA SessionType ==
    ASSUME AcTypeOK, NEW c \in Sessions
    PROVE  /\ sess[c] \in Session /\ sess[c].mod \in BOOLEAN /\ sess[c].live \in BOOLEAN /\ (sess[c].mod => sess[c].live)
           /\ \A r \in Roles \cup {""}, u \in Users \cup {""} :
                LET s == [sess[c] EXCEPT !.mod = TRUE, !.role = r, !.name = u]
                IN  s \in Session /\ s.mod /\ s.live = sess[c].live
           /\ LET s == [sess[c] EXCEPT !.mod = FALSE, !.role = "", !.name = "", !.chg = FALSE]
              IN  s \in Session /\ ~s.mod
           /\ LET s == [sess[c] EXCEPT !.chg = TRUE]
              IN  s \in Session /\ s.mod = sess[c].mod /\ s.live = sess[c].live
BY DEF AcTypeOK, Session

\* The queue and the tables after a step that only reads them, or does not touch them.
LEMMA Quiet ==
    ASSUME AcTypeOK, Read \/ UNCHANGED <<db, dbQueue>>, now' = now
    PROVE  /\ AcTablesOK(db') /\ dbQueue' \in {<<>>} \cup {<<Revoke(u)>> : u \in Users}
           /\ Drained' = Drained /\ SameRights(Drained, Drained')
           /\ (Read => db' = Drained)
<1>1. CASE Read
  BY <1>1, ReadKeeps, SameIsSame
<1>2. CASE ~Read /\ UNCHANGED <<db, dbQueue>>
  <2>1. Drained' = Drained
    BY <1>2 DEF Drained
  <2> QED BY <1>2, <2>1, SameIsSame DEF AcTypeOK
<1> QED BY <1>1, <1>2

\* One login, from any mode.
LEMMA LoginKeeps ==
    ASSUME AcInv, NEW c \in AoClients, MayTry(c), NEW r \in Roles, NEW u \in Users \cup {""}, LoggedIn(c, r, u),
           Read \/ UNCHANGED <<db, dbQueue>>, now' = now
    PROVE  AcInv'
<1> DEFINE s == [sess[c] EXCEPT !.mod = TRUE, !.role = r, !.name = u]
<1>1. c \in Sessions /\ sess[c].live /\ ~sess[c].mod
  BY DEF Sessions, MayTry
<1>2. /\ sess' = [sess EXCEPT ![c] = s] /\ moderators' = moderators + 1
      /\ UNCHANGED <<outrun, rest, auth_type, early>>
  BY <1>1 DEF LoggedIn
<1>3. s \in Session /\ s.mod /\ s.live
  <2>1. sess[c] \in Session /\ r \in Roles \cup {""}
    BY <1>1, SessionType DEF AcInv
  <2> QED BY <1>1, <2>1 DEF Session
<1> HIDE DEF s
<1>4. AcTypeOK' /\ RightsInv'
  BY <1>2, <1>3, OwnSession, Quiet DEF AcInv
<1>5. GaugeInv'
  BY <1>1, <1>2, <1>3, GaugeMoves DEF AcInv
<1> QED BY <1>4, <1>5 DEF AcInv

\* Nothing but the counters of failures moves.
LEMMA NoneMoves ==
    ASSUME AcInv, UNCHANGED <<sess, moderators, outrun, rest, auth_type, early, now>>, Read \/ UNCHANGED <<db, dbQueue>>
    PROVE  AcInv'
<1>1. AcTypeOK'
  BY Quiet DEF AcInv, AcTypeOK
<1>2. RightsInv'
  BY Quiet, RightsKept DEF AcInv
<1>3. GaugeInv'
  BY GaugeMoves DEF AcInv
<1> QED BY <1>1, <1>2, <1>3 DEF AcInv

LEMMA LoginsOK ==
    ASSUME AcInv, NEW c \in AoClients
    PROVE  /\ \A right \in BOOLEAN : login_simple(c, right) => AcInv'
           /\ \A u \in Users, right \in BOOLEAN : login_advanced(c, u, right) => AcInv'
           /\ CooldownOver(c) => AcInv'
<1>1. ASSUME NEW right \in BOOLEAN, login_simple(c, right) PROVE AcInv'
  <2>1. MayTry(c) /\ UNCHANGED <<db, dbQueue, now>>
    BY <1>1 DEF login_simple, dbVars
  <2>2. CASE right
    <3>1. LoggedIn(c, "SUPER", "")
      BY <1>1, <2>2 DEF login_simple
    <3> QED BY <2>1, <3>1, LoginKeeps DEF Roles
  <2>3. CASE ~right
    BY <1>1, <2>1, <2>3, NoneMoves DEF login_simple, login_failed
  <2> QED BY <2>2, <2>3
<1>2. ASSUME NEW u \in Users, NEW right \in BOOLEAN, login_advanced(c, u, right) PROVE AcInv'
  <2>1. MayTry(c) /\ Read /\ now' = now
    BY <1>2 DEF login_advanced, dbRest
  <2>2. AcTablesOK(db')
    BY <2>1, ReadKeeps DEF AcInv
  <2>3. CASE Exists(db', u) /\ right
    <3>1. LoggedIn(c, db'.users[u].acl, u)
      BY <1>2, <2>3 DEF login_advanced
    <3>2. db'.users[u].acl \in Roles
      BY <2>2, <2>3 DEF Exists, AcTablesOK, Account
    <3> QED BY <2>1, <3>1, <3>2, LoginKeeps
  <2>4. CASE ~(Exists(db', u) /\ right)
    BY <1>2, <2>1, <2>4, NoneMoves DEF login_advanced, login_failed
  <2> QED BY <2>3, <2>4
<1>3. ASSUME CooldownOver(c) PROVE AcInv'
  BY <1>3, NoneMoves DEF CooldownOver, dbVars
<1> QED BY <1>1, <1>2, <1>3

LEMMA LogoutOK == ASSUME AcInv, NEW c \in AoClients, logout(c) PROVE AcInv'
<1> DEFINE s == [sess[c] EXCEPT !.mod = FALSE, !.role = "", !.name = "", !.chg = FALSE]
<1>1. c \in Sessions /\ sess[c].mod
  BY DEF Sessions, logout
<1>2. /\ sess' = [sess EXCEPT ![c] = s] /\ moderators' = moderators - 1
      /\ UNCHANGED <<outrun, rest, auth_type, early, db, dbQueue, now>>
  BY <1>1 DEF logout, Demote, dbVars
<1>3. s \in Session /\ ~s.mod
  BY <1>1, SessionType DEF AcInv
<1> HIDE DEF s
<1>4. AcTypeOK' /\ RightsInv'
  BY <1>2, <1>3, OwnSession, Quiet DEF AcInv
<1>5. GaugeInv'
  BY <1>1, <1>2, <1>3, GaugeMoves DEF AcInv
<1> QED BY <1>4, <1>5 DEF AcInv

LEMMA ChangeAuthOK == ASSUME AcInv, NEW c \in AoClients, changeauth(c) PROVE AcInv'
<1> DEFINE s == [sess[c] EXCEPT !.chg = TRUE]
<1>1. c \in Sessions
  BY DEF Sessions
<1>2. /\ sess' = [sess EXCEPT ![c] = s] /\ moderators' = moderators
      /\ UNCHANGED <<outrun, rest, auth_type, early, db, dbQueue, now>>
  BY <1>1 DEF changeauth, dbVars
<1>3. s \in Session /\ s.mod = sess[c].mod /\ s.live = sess[c].live /\ (sess[c].mod => sess[c].live)
  BY <1>1, SessionType DEF AcInv
<1> HIDE DEF s
<1>4. AcTypeOK' /\ RightsInv'
  BY <1>2, <1>3, OwnSession, Quiet DEF AcInv
<1>5. \A n \in Sessions : sess'[n].mod = sess[n].mod
  BY <1>1, <1>2, <1>3 DEF AcInv, AcTypeOK
<1>6. GaugeInv'
  BY <1>2, <1>5, GaugeMoves DEF AcInv
<1> QED BY <1>4, <1>6 DEF AcInv

LEMMA ChangePassOK == ASSUME AcInv, NEW c \in AoClients, NEW u \in Users, changepass(c, u) PROVE AcInv'
<1> DEFINE t == [op |-> "update_password", user |-> u, pw |-> 2]
<1>1. /\ db' = Run(now, Drained, t) /\ dbQueue' = <<>>
      /\ UNCHANGED <<sess, moderators, outrun, rest, auth_type, early, now>>
  BY DEF changepass, Sync, dbRest
<1>2. AcTablesOK(db') /\ SameRights(Drained, db')
  BY <1>1, DrainedIs, PasswordRuns DEF AcInv
<1>3. Drained' = db'
  BY <1>1, DrainedThen
<1>4. AcTypeOK'
  BY <1>1, <1>2 DEF AcInv, AcTypeOK
<1>5. RightsInv'
  BY <1>1, <1>2, <1>3, RightsKept DEF AcInv
<1>6. GaugeInv'
  BY <1>1, GaugeMoves DEF AcInv
<1> QED BY <1>4, <1>5, <1>6 DEF AcInv

\* A new account changes nobody's rights, and the first one is root unless the mode was SIMPLE.
LEMMA CreatedKeeps ==
    ASSUME AcInv, NEW u \in Users, NEW acl \in Roles, NewAccount(Drained, Drained', u, acl), UNCHANGED <<outrun, rest>>,
           \A n \in NxClients : sess'[n] = sess[n],
           RootOK(Drained', auth_type', early')
    PROVE  RightsInv'
BY DEF AcInv, RightsInv, NewAccount, TokensOK, HeldOK, BoundOK

LEMMA AddUserOK == ASSUME AcInv, NEW c \in AoClients, NEW u \in Names, adduser(c, u) PROVE AcInv'
<1> DEFINE t == [op |-> "create_user", user |-> u, pw |-> 1, acl |-> "NONE"]
<1>1. /\ db' = Run(now, Drained, t) /\ dbQueue' = <<>> /\ early' = (early \/ auth_type = "SIMPLE")
      /\ UNCHANGED <<sess, moderators, outrun, rest, auth_type, now>>
  BY DEF adduser, Sync, dbRest
<1>2. u \in Users /\ u # "root" /\ "NONE" \in Roles
  BY AccountsAssumption DEF Users, Roles
<1>3. AcTablesOK(db') /\ NewAccount(Drained, db', u, "NONE")
  BY <1>1, <1>2, DrainedIs, CreateRuns DEF AcInv
<1>4. Drained' = db'
  BY <1>1, DrainedThen
<1>5. AcTypeOK'
  BY <1>1, <1>3 DEF AcInv, AcTypeOK
<1>6. RootOK(db', auth_type, early')
  BY <1>1, <1>3 DEF AcInv, AcTypeOK, RightsInv, RootOK, NewAccount
<1>7. RightsInv'
  BY <1>1, <1>2, <1>3, <1>4, <1>6, CreatedKeeps
<1>8. GaugeInv'
  BY <1>1, GaugeMoves DEF AcInv
<1> QED BY <1>5, <1>7, <1>8 DEF AcInv

LEMMA RootPassOK == ASSUME AcInv, NEW c \in AoClients, rootpass(c) PROVE AcInv'
<1> DEFINE t == [op |-> "create_user", user |-> "root", pw |-> 1, acl |-> "SUPER"]
           s == [sess[c] EXCEPT !.mod = FALSE, !.role = "", !.name = "", !.chg = FALSE]
<1>1. /\ db' = Run(now, Drained, t) /\ dbQueue' = <<>> /\ auth_type' = "ADVANCED" /\ "root" \notin DOMAIN Drained.users
      /\ sess' = [sess EXCEPT ![c] = s] /\ moderators' = moderators - 1 /\ sess[c].mod
      /\ UNCHANGED <<early, outrun, rest, now>>
  BY DEF rootpass, Sync, dbRest, Exists, Demote, Command, has_permission
<1>2. c \in Sessions /\ c \notin NxClients /\ \A n \in NxClients : n \in Sessions
  BY AccountsAssumption DEF Sessions
<1>3. s \in Session /\ ~s.mod
  BY <1>2, SessionType DEF AcInv
<1>4. "root" \in Users /\ "SUPER" \in Roles
  BY DEF Users, Roles
<1>5. AcTablesOK(db') /\ NewAccount(Drained, db', "root", "SUPER")
  BY <1>1, <1>4, DrainedIs, CreateRuns DEF AcInv
<1>6. Drained' = db'
  BY <1>1, DrainedThen
<1> HIDE DEF s
<1>7. \A n \in Sessions : sess'[n] = IF n = c THEN s ELSE sess[n]
  BY <1>1 DEF AcInv, AcTypeOK
<1>8. AcTypeOK'
  BY <1>1, <1>3, <1>5, <1>7 DEF AcInv, AcTypeOK
<1>9. RootOK(db', auth_type', early')
  BY <1>1, <1>5 DEF RootOK, NewAccount
<1>10. RightsInv'
  BY <1>1, <1>2, <1>4, <1>5, <1>6, <1>7, <1>9, CreatedKeeps
<1>11. GaugeInv'
  BY <1>1, <1>2, <1>3, GaugeMoves DEF AcInv
<1> QED BY <1>8, <1>10, <1>11 DEF AcInv

LEMMA HoldingType ==
    ASSUME AcTypeOK, NEW t \in Threads
    PROVE  LET r == [rest[t] EXCEPT !.stale = TRUE]
           IN  rest[t] \in Holding /\ r \in Holding /\ r.at = rest[t].at /\ r.user = rest[t].user /\ r.acl = rest[t].acl
               /\ r.tok = rest[t].tok /\ r.stale
BY DEF AcTypeOK, Holding

\* A command that takes rights from u: its tokens are revoked, its REST sessions and the threads that hold a copy of
\* what they read are marked.
LEMMA RevisedKeeps ==
    ASSUME AcInv, NEW u \in Users, u # "root", Revised(Drained, Drained', u), rest' = Stale(u), outrun' = outrun \cup Bound(u),
           UNCHANGED <<sess, auth_type, early>>
    PROVE  RightsInv'
<1> DEFINE D == Drained
           E == Drained'
<1>1. ASSUME NEW t \in Threads
      PROVE  /\ rest'[t].at = rest[t].at /\ rest'[t].user = rest[t].user /\ rest'[t].acl = rest[t].acl
             /\ rest'[t].tok = rest[t].tok
             /\ rest[t].user = u => rest'[t].stale
             /\ rest[t].user # u => rest'[t] = rest[t]
  <2>1. rest'[t] = IF rest[t].user = u THEN [rest[t] EXCEPT !.stale = TRUE] ELSE rest[t]
    BY DEF Stale
  <2> QED BY <2>1, HoldingType DEF AcInv
<1>2. TokensOK(E, outrun')
  BY DEF AcInv, RightsInv, Revised, TokensOK
<1>3. RootOK(E, auth_type', early')
  BY DEF AcInv, RightsInv, Revised, RootOK
<1>4. ASSUME NEW t \in Threads PROVE HeldOK(E, rest'[t])
  <2>1. HeldOK(D, rest[t])
    BY DEF AcInv, RightsInv
  <2>2. CASE rest[t].user = u
    BY <1>1, <2>1, <2>2 DEF Revised, HeldOK
  <2>3. CASE rest[t].user # u
    BY <1>1, <2>1, <2>3 DEF Revised, HeldOK
  <2> QED BY <2>2, <2>3
<1>5. ASSUME NEW n \in NxClients PROVE BoundOK(E, sess'[n], n \in outrun')
  <2>1. BoundOK(D, sess[n], n \in outrun)
    BY DEF AcInv, RightsInv
  <2>2. sess[n].live /\ sess[n].tok > 0 /\ sess[n].name = u => n \in outrun'
    BY DEF Bound
  <2> QED BY <2>1, <2>2 DEF Revised, BoundOK
<1> QED BY <1>2, <1>3, <1>4, <1>5 DEF RightsInv

LEMMA TakeRights ==
    ASSUME AcInv, NEW u \in Users, u # "root", UNCHANGED <<sess, moderators, auth_type, early, now>>, rest' = Stale(u),
           outrun' = outrun \cup Bound(u), dbQueue' = <<Revoke(u)>>, AcTablesOK(db'), db'.tokens = Drained.tokens,
           DOMAIN db'.users \ {u} = DOMAIN Drained.users \ {u}, DOMAIN db'.users \subseteq DOMAIN Drained.users,
           \A v \in DOMAIN Drained.users \ {u} : db'.users[v] = Drained.users[v]
    PROVE  AcInv'
<1>1. Drained' = Run(now', db', Revoke(u)) /\ Revoke(u).op = "revoke_all_tokens_for_user" /\ Revoke(u).user = u
  BY DrainedThen DEF Revoke
<1> DEFINE E == Run(now', db', Revoke(u))
<1>2. /\ AcTablesOK(E) /\ E.users = db'.users
      /\ DOMAIN E.tokens = DOMAIN db'.tokens
      /\ \A k \in DOMAIN db'.tokens :
           /\ E.tokens[k].user = db'.tokens[k].user /\ E.tokens[k].acl = db'.tokens[k].acl
           /\ IF db'.tokens[k].user = u THEN E.tokens[k].revoked ELSE E.tokens[k] = db'.tokens[k]
  BY <1>1, RevokeAllRuns
<1> HIDE DEF E
<1>3. Revised(Drained, E, u)
  BY <1>2 DEF Revised
<1>4. RightsInv'
  BY <1>1, <1>3, RevisedKeeps DEF E
<1>5. AcTypeOK'
  <2>1. rest' \in [Threads -> Holding] /\ \A t \in Threads : rest'[t].at = rest[t].at /\ rest'[t].user = rest[t].user /\ rest'[t].acl = rest[t].acl
    <3>1. \A t \in Threads : rest'[t] = IF rest[t].user = u THEN [rest[t] EXCEPT !.stale = TRUE] ELSE rest[t]
      BY DEF Stale
    <3>2. \A t \in Threads : rest'[t] \in Holding /\ rest'[t].at = rest[t].at /\ rest'[t].user = rest[t].user /\ rest'[t].acl = rest[t].acl
      BY <3>1, HoldingType DEF AcInv
    <3>3. rest' = [t \in Threads |-> rest'[t]]
      BY DEF Stale
    <3> QED BY <3>2, <3>3
  <2> QED BY <2>1 DEF AcInv, AcTypeOK
<1>6. GaugeInv'
  BY GaugeMoves DEF AcInv
<1> QED BY <1>4, <1>5, <1>6 DEF AcInv

LEMMA RemoveUserOK == ASSUME AcInv, NEW c \in AoClients, NEW u \in Names, removeuser(c, u) PROVE AcInv'
<1> DEFINE t == [op |-> "delete_user", user |-> u]
<1>1. /\ db' = Run(now, Drained, t) /\ dbQueue' = <<Revoke(u)>> /\ u # "root" /\ u \in Users
      /\ UNCHANGED <<sess, moderators, auth_type, early, now>> /\ rest' = Stale(u) /\ outrun' = outrun \cup Bound(u)
  BY TheRevocation DEF removeuser, Sync, dbRest, Users
<1>2. /\ AcTablesOK(db') /\ db'.tokens = Drained.tokens
      /\ DOMAIN db'.users = DOMAIN Drained.users \ {u}
      /\ \A v \in DOMAIN Drained.users \ {u} : db'.users[v] = Drained.users[v]
  <2>1. AcTablesOK(Drained)
    BY DrainedIs DEF AcInv
  <2>2. db' = Run(now, Drained, [op |-> "delete_user", user |-> u])
    BY <1>1
  <2>3. PICK D, e : D = Drained /\ e = db'
    OBVIOUS
  <2>4. AcTablesOK(D) /\ e = Run(now, D, [op |-> "delete_user", user |-> u])
    BY <2>1, <2>2, <2>3
  <2>5. /\ AcTablesOK(e) /\ e.tokens = D.tokens /\ DOMAIN e.users = DOMAIN D.users \ {u}
        /\ \A v \in DOMAIN D.users \ {u} : e.users[v] = D.users[v]
    BY <2>4, DeleteRuns
  <2> QED BY <2>3, <2>5
<1>3. DOMAIN db'.users \ {u} = DOMAIN Drained.users \ {u} /\ DOMAIN db'.users \subseteq DOMAIN Drained.users
  BY <1>2
<1> QED BY <1>1, <1>2, <1>3, TakeRights

LEMMA SetPermsOK == ASSUME AcInv, NEW c \in AoClients, NEW u \in Names, NEW r \in Roles, setperms(c, u, r) PROVE AcInv'
<1> DEFINE t == [op |-> "update_acl", user |-> u, acl |-> r]
<1>1. /\ db' = Run(now, Drained, t) /\ dbQueue' = <<Revoke(u)>> /\ u # "root" /\ u \in Users
      /\ UNCHANGED <<sess, moderators, auth_type, early, now>> /\ rest' = Stale(u) /\ outrun' = outrun \cup Bound(u)
  BY TheRevocation DEF setperms, Sync, dbRest, Users
<1>2. /\ AcTablesOK(db') /\ db'.tokens = Drained.tokens
      /\ DOMAIN db'.users = DOMAIN Drained.users
      /\ \A v \in DOMAIN Drained.users \ {u} : db'.users[v] = Drained.users[v]
  BY <1>1, DrainedIs, AclRuns DEF AcInv
<1> QED BY <1>1, <1>2, TakeRights

-----------------------------------------------------------------------------
(* The REST endpoints. *)

LEMMA IdleHeld == Idle \in Holding /\ Idle.at = "idle" /\ \A d : HeldOK(d, Idle)
BY DEF Idle, Holding, HeldOK

\* A thread takes up r.
LEMMA ThreadKeeps ==
    ASSUME AcInv, NEW t \in Threads, NEW r \in Holding, rest' = [rest EXCEPT ![t] = r], HeldOK(Drained, r),
           r.at = "login" => r.user \in Users /\ r.acl \in Roles,
           UNCHANGED <<sess, moderators, auth_type, early, outrun, now>>, Read
    PROVE  AcInv'
<1>1. \A x \in Threads : rest'[x] = IF x = t THEN r ELSE rest[x]
  BY DEF AcInv, AcTypeOK
<1>2. AcTypeOK'
  BY <1>1, Quiet DEF AcInv, AcTypeOK
<1>3. Drained' = Drained
  BY Quiet DEF AcInv
<1>4. RightsInv'
  BY <1>1, <1>3 DEF AcInv, RightsInv
<1>5. GaugeInv'
  BY GaugeMoves DEF AcInv
<1> QED BY <1>2, <1>4, <1>5 DEF AcInv

LEMMA LookupOK == ASSUME AcInv, NEW t \in Threads, NEW u \in Users, RestLookup(t, u) PROVE AcInv'
<1> DEFINE r == [Idle EXCEPT !.at = "login", !.user = u, !.acl = db'.users[u].acl]
<1>1. /\ Read /\ Exists(db', u) /\ rest' = [rest EXCEPT ![t] = r]
      /\ UNCHANGED <<sess, moderators, auth_type, early, outrun, now>>
  BY DEF RestLookup, RestKeeps, dbRest
<1>2. AcTablesOK(db') /\ db' = Drained
  BY <1>1, ReadKeeps DEF AcInv
<1>3. db'.users[u].acl \in Roles
  BY <1>1, <1>2 DEF Exists, AcTablesOK, Account
<1>4. r \in Holding /\ r.at = "login" /\ r.user = u /\ r.acl = db'.users[u].acl
  BY <1>3 DEF Idle, Holding
<1> HIDE DEF r
<1>5. HeldOK(Drained, r)
  BY <1>1, <1>2, <1>4 DEF HeldOK, Exists
<1> QED BY <1>1, <1>3, <1>4, <1>5, ThreadKeeps

LEMMA TokenNumbers == \A k \in 1..MaxTokens : k \in Nat
<1>1. MaxTokens \in Nat
  BY AccountsAssumption, Zenon
<1> QED BY <1>1

LEMMA ValidateOK == ASSUME AcInv, NEW t \in Threads, NEW tok \in 1..MaxTokens, RestValidate(t, tok) PROVE AcInv'
<1> DEFINE r == [Idle EXCEPT !.at = "bind", !.user = db'.tokens[tok].user, !.acl = db'.tokens[tok].acl, !.tok = tok]
<1>1. /\ Read /\ validate_auth_token(db', tok) /\ rest' = [rest EXCEPT ![t] = r]
      /\ UNCHANGED <<sess, moderators, auth_type, early, outrun, now>>
  BY DEF RestValidate, RestKeeps, dbRest
<1>2. AcTablesOK(db') /\ db' = Drained
  BY <1>1, ReadKeeps DEF AcInv
<1>3. tok \in DOMAIN db'.tokens /\ ~db'.tokens[tok].revoked /\ tok \in Nat
  <2>1. validate_auth_token(db', tok)
    BY <1>1
  <2>2. tok \in DOMAIN db'.tokens /\ ~db'.tokens[tok].revoked
    BY <2>1, Zenon DEF validate_auth_token
  <2> QED BY <2>2, TokenNumbers
<1>4. db'.tokens[tok] \in Token
  BY <1>2, <1>3, SeqIsFunction DEF AcTablesOK
<1>5. r \in Holding /\ r.at = "bind" /\ r.user = db'.tokens[tok].user /\ r.tok = tok
  BY <1>3, <1>4 DEF Idle, Holding, Token
<1> HIDE DEF r
<1>6. HeldOK(Drained, r)
  BY <1>2, <1>3, <1>5 DEF HeldOK
<1> QED BY <1>1, <1>5, <1>6, ThreadKeeps

LEMMA TokenOK == ASSUME AcInv, NEW t \in Threads, RestToken(t) PROVE AcInv'
<1> DEFINE x == IF TokenTtl > 0 THEN now + TokenTtl ELSE 0
           task == [op |-> "create_auth_token", user |-> rest[t].user, acl |-> rest[t].acl, expires |-> x]
           tok == [user |-> rest[t].user, acl |-> rest[t].acl, expires |-> x, revoked |-> FALSE]
           D == Drained
           n == Len(D.tokens) + 1
<1>1. /\ rest[t].at = "login" /\ db' = Run(now, D, task) /\ dbQueue' = <<>>
      /\ outrun' = IF rest[t].stale THEN outrun \cup {Len(db'.tokens)} ELSE outrun
      /\ rest' = [rest EXCEPT ![t] = Idle]
      /\ UNCHANGED <<sess, moderators, auth_type, early, now>>
  BY DEF RestToken, Sync, RestKeeps, dbRest
<1>2. AcTablesOK(D) /\ x \in Nat /\ rest[t].user \in Users /\ rest[t].acl \in Roles
  <2>1. AcTablesOK(D)
    BY DrainedIs DEF AcInv
  <2>2. now \in Nat /\ TokenTtl \in Nat
    BY AccountsAssumption DEF AcInv, AcTypeOK
  <2>3. x \in Nat
    BY <2>2
  <2>4. rest[t].user \in Users /\ rest[t].acl \in Roles
    BY <1>1 DEF AcInv, AcTypeOK
  <2> QED BY <2>1, <2>3, <2>4
<1>3. AcTablesOK(db') /\ NewToken(D, db', tok) /\ tok \in Token
  <2>1. task.op = "create_auth_token" /\ task.user = rest[t].user /\ task.acl = rest[t].acl /\ task.expires = x
    OBVIOUS
  <2>2. tok = [user |-> task.user, acl |-> task.acl, expires |-> task.expires, revoked |-> FALSE]
    OBVIOUS
  <2> HIDE DEF task, tok, x, D
  <2> QED BY <1>1, <1>2, <2>1, <2>2, TokenRuns
<1>4. Drained' = db'
  BY <1>1, DrainedThen
<1>5. tok.user = rest[t].user /\ tok.acl = rest[t].acl
  OBVIOUS
<1> HIDE DEF tok, D
<1>6. D.tokens \in Seq(Token) /\ db'.tokens \in Seq(Token)
  BY <1>2, <1>3 DEF AcTablesOK
<1>7. /\ db'.users = D.users /\ Len(db'.tokens) = n /\ db'.tokens[n] = tok
      /\ DOMAIN db'.tokens = DOMAIN D.tokens \cup {n} /\ n \notin DOMAIN D.tokens /\ n \in Nat
      /\ \A k \in DOMAIN D.tokens : db'.tokens[k] = D.tokens[k]
  <2>1. db'.tokens = Append(D.tokens, tok) /\ db'.users = D.users
    BY <1>3 DEF NewToken
  <2> QED BY <1>3, <1>6, <2>1
<1> HIDE DEF n
<1>8. \A y \in Threads : rest'[y] = IF y = t THEN Idle ELSE rest[y]
  BY <1>1 DEF AcInv, AcTypeOK
<1>9. n \notin NxClients
  BY <1>7, AccountsAssumption
<1>10. AcTypeOK'
  BY <1>1, <1>3, <1>8, IdleHeld DEF AcInv, AcTypeOK
<1>11. TokensOK(db', outrun')
  <2>1. TokensOK(D, outrun) /\ HeldOK(D, rest[t])
    BY DEF AcInv, RightsInv, D
  <2>2. ~rest[t].stale => tok.user \in DOMAIN D.users /\ D.users[tok.user].acl = tok.acl
    BY <1>1, <1>5, <2>1 DEF HeldOK
  <2> QED BY <1>1, <1>7, <2>1, <2>2 DEF TokensOK
<1>12. RootOK(db', auth_type', early')
  BY <1>1, <1>7 DEF AcInv, RightsInv, RootOK, D
<1>13. ASSUME NEW y \in Threads PROVE HeldOK(db', rest'[y])
  BY <1>7, <1>8, IdleHeld DEF AcInv, RightsInv, HeldOK, D
<1>14. ASSUME NEW s \in NxClients PROVE BoundOK(db', sess'[s], s \in outrun')
  <2>1. BoundOK(D, sess[s], s \in outrun)
    BY DEF AcInv, RightsInv, D
  <2>2. s \in outrun <=> s \in outrun'
    BY <1>1, <1>7, <1>9
  <2> QED BY <1>1, <1>7, <2>1, <2>2 DEF BoundOK
<1>15. RightsInv'
  BY <1>4, <1>11, <1>12, <1>13, <1>14 DEF RightsInv
<1>16. GaugeInv'
  BY <1>1, GaugeMoves DEF AcInv
<1> QED BY <1>10, <1>15, <1>16 DEF AcInv

\* A REST session is made from what its thread holds.
LEMMA BindOK == ASSUME AcInv, NEW t \in Threads, NEW n \in NxClients, RestBind(t, n) PROVE AcInv'
<1> DEFINE s == [Guest EXCEPT !.mod = TRUE, !.role = rest[t].acl, !.name = rest[t].user, !.tok = rest[t].tok]
<1>1. /\ rest[t].at = "bind" /\ ~sess[n].live /\ sess' = [sess EXCEPT ![n] = s] /\ moderators' = moderators + 1
      /\ outrun' = IF rest[t].stale \/ rest[t].tok \in outrun THEN outrun \cup {n} ELSE outrun \ {n}
      /\ rest' = [rest EXCEPT ![t] = Idle]
      /\ UNCHANGED <<db, dbQueue, auth_type, early, now>>
  BY DEF RestBind, RestKeeps, dbRest
<1>2. n \in Sessions /\ sess[n] \in Session /\ ~sess[n].mod /\ rest[t] \in Holding
  BY <1>1 DEF Sessions, AcInv, AcTypeOK
<1>3. s \in Session /\ s.mod /\ s.live /\ s.tok = rest[t].tok /\ s.name = rest[t].user
  BY <1>2 DEF Guest, Gone, Session, Holding
<1> HIDE DEF s
<1>4. \A x \in Sessions : sess'[x] = IF x = n THEN s ELSE sess[x]
  BY <1>1 DEF AcInv, AcTypeOK
<1>5. \A y \in Threads : rest'[y] = IF y = t THEN Idle ELSE rest[y]
  BY <1>1 DEF AcInv, AcTypeOK
<1>6. AcTypeOK'
  BY <1>1, <1>2, <1>3, <1>4, <1>5, IdleHeld, Quiet DEF AcInv, AcTypeOK
<1>7. Drained' = Drained /\ AcTablesOK(Drained)
  BY <1>1, DrainedIs DEF AcInv, Drained
<1>8. \A k \in DOMAIN Drained.tokens : k \in outrun <=> k \in outrun'
  <2>1. \A k \in DOMAIN Drained.tokens : k \in Nat
    BY <1>7, SeqIsFunction DEF AcTablesOK
  <2>2. n \notin Nat
    BY AccountsAssumption
  <2> QED BY <1>1, <2>1, <2>2
<1>9. TokensOK(Drained, outrun') /\ RootOK(Drained, auth_type', early') /\ HeldOK(Drained, rest[t])
  BY <1>1, <1>8 DEF AcInv, RightsInv, TokensOK
<1>10. \A y \in Threads : HeldOK(Drained, rest'[y])
  BY <1>5, IdleHeld DEF AcInv, RightsInv
<1>11. ASSUME NEW m \in NxClients PROVE BoundOK(Drained, sess'[m], m \in outrun')
  <2>1. m \in Sessions /\ BoundOK(Drained, sess[m], m \in outrun)
    BY DEF AcInv, RightsInv, Sessions
  <2>2. CASE m = n
    <3>1. sess'[m] = s
      BY <1>4, <2>1, <2>2
    <3>2. s.tok \in DOMAIN Drained.tokens /\ Drained.tokens[s.tok].user = s.name
      BY <1>1, <1>3, <1>9 DEF HeldOK
    <3>3. n \notin outrun' => ~rest[t].stale
      BY <1>1
    <3>4. n \notin outrun' => ~Drained.tokens[s.tok].revoked
      BY <1>1, <1>3, <1>9, <3>3 DEF HeldOK
    <3> QED BY <2>2, <3>1, <3>2, <3>4 DEF BoundOK
  <2>3. CASE m # n
    BY <1>1, <1>4, <2>1, <2>3
  <2> QED BY <2>2, <2>3
<1>12. RightsInv'
  BY <1>7, <1>9, <1>10, <1>11 DEF RightsInv
<1>13. GaugeInv'
  BY <1>1, <1>2, <1>3, GaugeMoves DEF AcInv
<1> QED BY <1>6, <1>12, <1>13 DEF AcInv

LEMMA GoneIs == Gone \in Session /\ Guest \in Session /\ ~Gone.live /\ ~Gone.mod /\ ~Guest.mod /\ Gone.tok = 0 /\ Guest.tok = 0
BY DEF Gone, Guest, Session

LEMMA EndedType ==
    ASSUME AcTypeOK, NEW S, Ended(S)
    PROVE  /\ \A c \in Sessions : sess'[c] = IF c \in S THEN Gone ELSE sess[c]
           /\ sess' \in [Sessions -> Session] /\ \A c \in Sessions : sess'[c].mod => sess'[c].live
<1>1. sess' = [c \in Sessions |-> IF c \in S THEN Gone ELSE sess[c]]
  BY DEF Ended, AcTypeOK
<1> QED BY <1>1, GoneIs DEF AcTypeOK

\* A logout revokes the token and ends its sessions before a thread can bind another one to it.
LEMMA AuthLogoutOK == ASSUME AcInv, NEW tok \in 1..MaxTokens, AuthLogout(tok) PROVE AcInv'
<1> DEFINE S == {n \in NxClients : sess[n].tok = tok}
           task == [op |-> "revoke_auth_token", token |-> tok]
           D == Drained
<1>1. /\ tok \in DOMAIN D.tokens /\ db' = Run(now, D, task) /\ dbQueue' = <<>> /\ Ended(S)
      /\ rest' = [t \in Threads |-> IF rest[t].tok = tok THEN [rest[t] EXCEPT !.stale = TRUE] ELSE rest[t]]
      /\ outrun' = outrun \ S /\ UNCHANGED <<auth_type, early, now>>
  BY DEF AuthLogout, Sync, RestKeeps, dbRest
<1>2. S \in SUBSET Sessions /\ S \subseteq NxClients
  BY DEF Sessions
<1>3. AcTablesOK(D)
  BY DrainedIs DEF AcInv
<1>4. task.op = "revoke_auth_token" /\ task.token = tok
  OBVIOUS
<1> HIDE DEF task, D
<1>5. AcTablesOK(db') /\ RevokedToken(D, db', tok)
  BY <1>1, <1>3, <1>4, RevokeRuns
<1>6. Drained' = db'
  BY <1>1, DrainedThen
<1>7. ASSUME NEW t \in Threads
      PROVE  /\ rest'[t] \in Holding /\ rest'[t].at = rest[t].at /\ rest'[t].user = rest[t].user /\ rest'[t].acl = rest[t].acl
             /\ rest'[t].tok = rest[t].tok
             /\ IF rest[t].tok = tok THEN rest'[t].stale ELSE rest'[t] = rest[t]
  <2>1. rest'[t] = IF rest[t].tok = tok THEN [rest[t] EXCEPT !.stale = TRUE] ELSE rest[t]
    BY <1>1
  <2> QED BY <2>1, HoldingType DEF AcInv
<1>8. rest' \in [Threads -> Holding]
  <2>1. rest' = [t \in Threads |-> rest'[t]]
    BY <1>1
  <2> QED BY <1>7, <2>1
<1>9. /\ \A c \in Sessions : sess'[c] = IF c \in S THEN Gone ELSE sess[c]
      /\ sess' \in [Sessions -> Session] /\ \A c \in Sessions : sess'[c].mod => sess'[c].live
  BY <1>1, EndedType DEF AcInv
<1>10. AcTypeOK'
  BY <1>1, <1>5, <1>7, <1>8, <1>9 DEF AcInv, AcTypeOK
<1>11. TokensOK(db', outrun')
  <2>1. TokensOK(D, outrun)
    BY DEF AcInv, RightsInv, D
  <2>2. \A k \in DOMAIN D.tokens : k \notin S
    <3>1. \A k \in DOMAIN D.tokens : k \in Nat
      BY <1>3, SeqIsFunction DEF AcTablesOK
    <3>2. \A n \in NxClients : n \notin Nat
      BY AccountsAssumption
    <3> QED BY <1>2, <3>1, <3>2
  <2>3. \A k \in DOMAIN D.tokens : k \notin outrun' => k \notin outrun
    BY <1>1, <2>2
  <2> QED BY <1>5, <2>1, <2>3 DEF TokensOK, RevokedToken
<1>12. RootOK(db', auth_type', early')
  BY <1>1, <1>5 DEF AcInv, RightsInv, RootOK, RevokedToken, D
<1>13. ASSUME NEW t \in Threads PROVE HeldOK(db', rest'[t])
  <2>1. HeldOK(D, rest[t])
    BY DEF AcInv, RightsInv, D
  <2>2. CASE rest[t].tok = tok
    BY <1>5, <1>7, <2>1, <2>2 DEF HeldOK, RevokedToken
  <2>3. CASE rest[t].tok # tok
    BY <1>5, <1>7, <2>1, <2>3 DEF HeldOK, RevokedToken
  <2> QED BY <2>2, <2>3
<1>14. ASSUME NEW n \in NxClients PROVE BoundOK(db', sess'[n], n \in outrun')
  <2>1. BoundOK(D, sess[n], n \in outrun) /\ n \in Sessions
    BY DEF AcInv, RightsInv, D, Sessions
  <2>2. CASE n \in S
    BY <1>9, <2>1, <2>2, GoneIs DEF BoundOK
  <2>3. CASE n \notin S
    <3>1. sess'[n] = sess[n] /\ sess[n].tok # tok /\ (n \in outrun' <=> n \in outrun)
      BY <1>1, <1>9, <2>1, <2>3
    <3> QED BY <1>5, <2>1, <3>1 DEF BoundOK, RevokedToken
  <2> QED BY <2>2, <2>3
<1>15. RightsInv'
  BY <1>6, <1>11, <1>12, <1>13, <1>14 DEF RightsInv
<1>16. GaugeInv'
  BY <1>1, <1>2, GaugeEnds DEF AcInv
<1> QED BY <1>10, <1>15, <1>16 DEF AcInv

LEMMA LeaveOK == ASSUME AcInv, NEW c \in NxClients, Leave(c) PROVE AcInv'
<1>1. /\ Ended({c}) /\ outrun' = outrun \ {c} /\ UNCHANGED <<db, dbQueue, auth_type, rest, early, now>>
  BY DEF Leave, dbVars
<1>2. c \in Sessions /\ {c} \in SUBSET Sessions
  BY DEF Sessions
<1>3. /\ \A x \in Sessions : sess'[x] = IF x \in {c} THEN Gone ELSE sess[x]
      /\ sess' \in [Sessions -> Session] /\ \A x \in Sessions : sess'[x].mod => sess'[x].live
  BY <1>1, EndedType DEF AcInv
<1>4. AcTypeOK'
  BY <1>1, <1>3, Quiet DEF AcInv, AcTypeOK
<1>5. Drained' = Drained /\ AcTablesOK(Drained)
  BY <1>1, DrainedIs DEF AcInv, Drained
<1>6. \A k \in DOMAIN Drained.tokens : k # c
  <2>1. \A k \in DOMAIN Drained.tokens : k \in Nat
    BY <1>5, SeqIsFunction DEF AcTablesOK
  <2>2. c \notin Nat
    BY AccountsAssumption
  <2> QED BY <2>1, <2>2
<1>7. TokensOK(Drained, outrun')
  BY <1>1, <1>6 DEF AcInv, RightsInv, TokensOK
<1>8. ASSUME NEW n \in NxClients PROVE BoundOK(Drained, sess'[n], n \in outrun')
  <2>1. BoundOK(Drained, sess[n], n \in outrun) /\ n \in Sessions
    BY DEF AcInv, RightsInv, Sessions
  <2>2. CASE n = c
    BY <1>3, <2>1, <2>2, GoneIs DEF BoundOK
  <2>3. CASE n # c
    BY <1>1, <1>3, <2>1, <2>3
  <2> QED BY <2>2, <2>3
<1>9. RightsInv'
  BY <1>1, <1>5, <1>7, <1>8 DEF AcInv, RightsInv
<1>10. GaugeInv'
  BY <1>1, <1>2, GaugeEnds DEF AcInv
<1> QED BY <1>4, <1>9, <1>10 DEF AcInv

-----------------------------------------------------------------------------
(* The database's own steps, and a restart.                                *)

\* What the database will hold does not depend on the clock.
LEMMA ClockKeeps ==
    ASSUME AcInv, UNCHANGED <<db, dbQueue, sess, moderators, outrun, rest, auth_type, early>>, now' \in Nat
    PROVE  AcInv'
<1>1. AcTypeOK'
  BY DEF AcInv, AcTypeOK
<1>2. Drained' = Drained
  <2>1. CASE dbQueue = <<>>
    BY <2>1, RunAllEmpty DEF Drained
  <2>2. ASSUME NEW u \in Users, dbQueue = <<Revoke(u)>>, \A at : Drained = Run(at, db, Revoke(u))
        PROVE  Drained' = Drained
    <3>1. Drained' = Run(now', db, Revoke(u))
      BY <2>2, DrainedThen
    <3> QED BY <2>2, <3>1
  <2> QED BY <2>1, <2>2, DrainedIs DEF AcInv
<1>3. RightsInv'
  BY <1>2, SameIsSame, RightsKept DEF AcInv
<1>4. GaugeInv'
  BY GaugeMoves DEF AcInv
<1> QED BY <1>1, <1>3, <1>4 DEF AcInv

LEMMA AcWorkerOK == ASSUME AcInv, AcWorker PROVE AcInv'
<1>1. /\ dbQueue # <<>> /\ db' = Run(now, db, Head(dbQueue)) /\ dbQueue' = Tail(dbQueue) /\ now' = now
      /\ UNCHANGED <<sess, moderators, outrun, rest, auth_type, early>>
  BY DEF AcWorker, worker_loop, acVars
<1>2. PICK u \in Users : dbQueue = <<Revoke(u)>> /\ Drained = Run(now, db, Revoke(u))
  BY <1>1, DrainedIs DEF AcInv
<1>3. dbQueue' = <<>> /\ db' = Drained
  BY <1>1, <1>2
<1>4. Drained' = Drained /\ AcTablesOK(db')
  BY <1>3, DrainedThen, DrainedIs DEF AcInv
<1>5. AcTypeOK'
  BY <1>1, <1>3, <1>4 DEF AcInv, AcTypeOK
<1>6. RightsInv'
  BY <1>1, <1>4, SameIsSame, RightsKept DEF AcInv
<1>7. GaugeInv'
  BY <1>1, GaugeMoves DEF AcInv
<1> QED BY <1>5, <1>6, <1>7 DEF AcInv

LEMMA AcRestartOK == ASSUME AcInv, AcRestart PROVE AcInv'
<1>1. /\ db' = Drained /\ dbQueue' = <<>> /\ auth_type' = (IF DOMAIN db'.users # {} THEN "ADVANCED" ELSE "SIMPLE")
      /\ sess' = [c \in Sessions |-> IF c \in AoClients THEN Guest ELSE Gone] /\ moderators' = 0
      /\ rest' = [t \in Threads |-> Idle] /\ outrun' = outrun \ NxClients /\ early' = early /\ now' = now
  BY DEF AcRestart, dbRest, AcInv, AcTypeOK
<1>2. Drained' = Drained /\ AcTablesOK(db')
  BY <1>1, DrainedThen, DrainedIs DEF AcInv
<1>3. \A c \in Sessions : sess'[c] \in {Guest, Gone}
  BY <1>1
<1>4. AcTypeOK'
  <2>1. sess' \in [Sessions -> Session] /\ \A c \in Sessions : ~sess'[c].mod
    BY <1>1, GoneIs
  <2>2. rest' \in [Threads -> Holding] /\ \A t \in Threads : rest'[t].at = "idle"
    BY <1>1, IdleHeld
  <2> QED BY <1>1, <1>2, <2>1, <2>2 DEF AcInv, AcTypeOK
<1>5. RightsInv'
  <2>1. \A k \in DOMAIN Drained.tokens : k \notin NxClients
    <3>1. \A k \in DOMAIN Drained.tokens : k \in Nat
      BY <1>1, <1>2, SeqIsFunction DEF AcTablesOK
    <3> QED BY <3>1, AccountsAssumption
  <2>2. TokensOK(Drained, outrun')
    BY <1>1, <2>1 DEF AcInv, RightsInv, TokensOK
  <2>3. RootOK(Drained, auth_type', early')
    BY <1>1 DEF AcInv, RightsInv, RootOK
  <2>4. \A t \in Threads : HeldOK(Drained, rest'[t])
    BY <1>1, IdleHeld
  <2>5. \A n \in NxClients : BoundOK(Drained, sess'[n], n \in outrun')
    <3>1. \A n \in NxClients : sess'[n].tok = 0
      BY <1>3, GoneIs DEF Sessions
    <3> QED BY <3>1 DEF BoundOK
  <2> QED BY <1>2, <2>2, <2>3, <2>4, <2>5 DEF RightsInv
<1>6. GaugeInv'
  <2>1. {c \in Sessions : sess'[c].mod} = {}
    BY <1>3, GoneIs
  <2> QED BY <1>1, <2>1, FS_EmptySet DEF GaugeInv
<1> QED BY <1>4, <1>5, <1>6 DEF AcInv

LEMMA AcStep == ASSUME AcInv, [AcNext]_<<dbVars, acVars>> PROVE AcInv'
<1>1. CASE UNCHANGED <<dbVars, acVars>>
  BY <1>1, ClockKeeps DEF dbVars, acVars, AcInv, AcTypeOK
<1>2. CASE AcOpen
  BY <1>2, ClockKeeps DEF AcOpen, open, Migration, migrate_step, migrate_commit, migrate_rollback, acVars, AcInv, AcTypeOK
<1>3. CASE AcTick
  BY <1>3, ClockKeeps DEF AcTick, acVars, AcInv, AcTypeOK
<1>4. CASE AcWorker
  BY <1>4, AcWorkerOK
<1>5. CASE AcRestart
  BY <1>5, AcRestartOK
<1>6. ASSUME NEW c \in AoClients, NEW r \in BOOLEAN, login_simple(c, r) PROVE AcInv'
  BY <1>6, LoginsOK
<1>7. ASSUME NEW c \in AoClients, NEW r \in BOOLEAN, NEW u \in Users, login_advanced(c, u, r) PROVE AcInv'
  BY <1>7, LoginsOK
<1>8. ASSUME NEW c \in AoClients, CooldownOver(c) \/ logout(c) \/ changeauth(c) \/ rootpass(c) PROVE AcInv'
  BY <1>8, LoginsOK, LogoutOK, ChangeAuthOK, RootPassOK
<1>9. ASSUME NEW c \in AoClients, NEW u \in Names, adduser(c, u) \/ removeuser(c, u) \/ setperms(c, u, "SUPER") \/ removeperms(c, u)
      PROVE  AcInv'
  <2>1. "SUPER" \in Roles /\ "NONE" \in Roles
    BY DEF Roles
  <2> QED BY <1>9, <2>1, AddUserOK, RemoveUserOK, SetPermsOK DEF removeperms
<1>10. ASSUME NEW c \in AoClients, NEW u \in Users, changepass(c, u) PROVE AcInv'
  BY <1>10, ChangePassOK
<1>11. ASSUME NEW t \in Threads, NEW u \in Users, RestLookup(t, u) PROVE AcInv'
  BY <1>11, LookupOK
<1>12. ASSUME NEW t \in Threads, RestToken(t) PROVE AcInv'
  BY <1>12, TokenOK
<1>13. ASSUME NEW t \in Threads, NEW tok \in 1..MaxTokens, RestValidate(t, tok) PROVE AcInv'
  BY <1>13, ValidateOK
<1>14. ASSUME NEW t \in Threads, NEW n \in NxClients, RestBind(t, n) PROVE AcInv'
  BY <1>14, BindOK
<1>15. ASSUME NEW tok \in 1..MaxTokens, AuthLogout(tok) PROVE AcInv'
  BY <1>15, AuthLogoutOK
<1>16. ASSUME NEW c \in NxClients, Leave(c) PROVE AcInv'
  BY <1>16, LeaveOK
<1> QED BY <1>1, <1>2, <1>3, <1>4, <1>5, <1>6, <1>7, <1>8, <1>9, <1>10, <1>11, <1>12, <1>13, <1>14, <1>15, <1>16 DEF AcNext

LEMMA RightsAgree == ASSUME AcInv PROVE AccountsAgree
<1>1. TokensFollowAccounts
  BY DEF AcInv, RightsInv, TokensOK, TokensFollowAccounts, Exists
<1>2. SessionsFollowTokens
  BY DEF AcInv, RightsInv, BoundOK, SessionsFollowTokens
<1>3. RootStays
  BY DEF AcInv, RightsInv, RootOK, RootStays, Exists
<1>4. ModeratorGauge
  BY DEF AcInv, AcTypeOK, GaugeInv, ModeratorGauge
<1> QED BY <1>1, <1>2, <1>3, <1>4 DEF AccountsAgree

\* Whatever the names, sessions, REST threads and bounds are: a live token has its account's role, a REST session
\* ends with its token, root stays, and the gauge counts the moderators, for the commands, endpoints and the worker
\* in any order.
THEOREM AccountsAlwaysAgree == AcSpec => []AccountsAgree
<1>1. DbInit /\ AcInit => AcInv
  BY AcInitOK
<1>2. AcInv /\ [AcNext]_<<dbVars, acVars>> => AcInv'
  BY AcStep
<1>3. AcInv => AccountsAgree
  BY RightsAgree
<1> QED BY <1>1, <1>2, <1>3, PTL DEF AcSpec

-----------------------------------------------------------------------------
(* Mutes and bans of the content moderator: MutesKept and the log.         *)

Actions == {"NONE", "LOG", "CENSOR", "DROP", "MUTE", "KICK", "BAN", "PERMA_BAN"}
MuteRow == [ipid : Speakers, expires : Int]
LogRow == [ipid : Speakers, action : Actions]
BanRow == [id : {0}, ipid : Speakers, hdid : {"none"}, ip : {TRUE}, time : Nat, dur : Int]
ModTask == [op : {"add_mute"}, mute : MuteRow] \cup [op : {"delete_mutes_by_ipid"}, ipid : Speakers]
              \cup [op : {"prune_expired_mutes"}] \cup [op : {"record_moderation_event"}, event : LogRow]
              \cup [op : {"add_ban"}, entry : BanRow]

ModTables(d) ==
    /\ DOMAIN d = {"bans", "users", "tokens", "mutes", "events"}
    /\ d.mutes \subseteq MuteRow /\ IsFiniteSet(d.mutes) /\ d.bans \in Seq(BanRow) /\ d.events \in Seq(LogRow)

\* What one task does.
Does(at, d, t, e) ==
    /\ t.op = "add_mute" => e.mutes = d.mutes \cup {t.mute}
    /\ t.op = "delete_mutes_by_ipid" => e.mutes = {m \in d.mutes : m.ipid # t.ipid}
    /\ t.op = "prune_expired_mutes" => e.mutes = {m \in d.mutes : ~(m.expires > 0 /\ m.expires <= at)}
    /\ t.op \in {"record_moderation_event", "add_ban"} => e.mutes = d.mutes
    /\ e.events = IF t.op = "record_moderation_event" THEN Append(d.events, t.event) ELSE d.events
    /\ e.bans = IF t.op = "add_ban" THEN Append(d.bans, t.entry) ELSE d.bans

LEMMA ModTaskRuns ==
    ASSUME NEW at, NEW d, ModTables(d), NEW t \in ModTask
    PROVE  ModTables(Run(at, d, t)) /\ Does(at, d, t, Run(at, d, t))
<1> DEFINE e == Run(at, d, t)
<1>0. DOMAIN d = {"bans", "users", "tokens", "mutes", "events"}
  BY DEF ModTables
<1>1. CASE t.op = "add_mute"
  <2>1. e = [d EXCEPT !.mutes = d.mutes \cup {t.mute}] /\ t.mute \in MuteRow
    BY <1>1 DEF Run, add_mute, ModTask
  <2> HIDE DEF e
  <2>2. IsFiniteSet(d.mutes \cup {t.mute})
    BY FS_AddElement DEF ModTables
  <2>3. e.mutes = d.mutes \cup {t.mute} /\ e.bans = d.bans /\ e.events = d.events /\ DOMAIN e = DOMAIN d
    BY <1>0, <2>1
  <2>4. ModTables(e)
    BY <2>1, <2>2, <2>3 DEF ModTables
  <2>5. Does(at, d, t, e)
    BY <1>1, <2>3 DEF Does
  <2> QED BY <2>4, <2>5 DEF e
<1>2. CASE t.op \in {"delete_mutes_by_ipid", "prune_expired_mutes"}
  <2> DEFINE M == IF t.op = "delete_mutes_by_ipid" THEN {m \in d.mutes : m.ipid # t.ipid}
                  ELSE {m \in d.mutes : ~(m.expires > 0 /\ m.expires <= at)}
  <2>1. e = [d EXCEPT !.mutes = M] /\ M \subseteq d.mutes
    BY <1>2 DEF Run, delete_mutes_by_ipid, prune_expired_mutes
  <2>2. t.op = "delete_mutes_by_ipid" => M = {m \in d.mutes : m.ipid # t.ipid}
    OBVIOUS
  <2>3. t.op = "prune_expired_mutes" => M = {m \in d.mutes : ~(m.expires > 0 /\ m.expires <= at)}
    OBVIOUS
  <2> HIDE DEF e, M
  <2>4. IsFiniteSet(M)
    BY <2>1, FS_Subset DEF ModTables
  <2>5. e.mutes = M /\ e.bans = d.bans /\ e.events = d.events /\ DOMAIN e = DOMAIN d
    BY <1>0, <2>1
  <2>6. ModTables(e)
    BY <2>1, <2>4, <2>5 DEF ModTables
  <2>7. Does(at, d, t, e)
    BY <1>2, <2>2, <2>3, <2>5 DEF Does
  <2> QED BY <2>6, <2>7 DEF e
<1>3. CASE t.op = "record_moderation_event"
  <2>1. e = [d EXCEPT !.events = Append(d.events, t.event)] /\ t.event \in LogRow
    BY <1>3 DEF Run, record_moderation_event, ModTask
  <2> HIDE DEF e
  <2>2. Append(d.events, t.event) \in Seq(LogRow)
    BY <2>1 DEF ModTables
  <2>3. e.mutes = d.mutes /\ e.bans = d.bans /\ e.events = Append(d.events, t.event) /\ DOMAIN e = DOMAIN d
    BY <1>0, <2>1
  <2>4. ModTables(e)
    BY <2>2, <2>3 DEF ModTables
  <2>5. Does(at, d, t, e)
    BY <1>3, <2>3 DEF Does
  <2> QED BY <2>4, <2>5 DEF e
<1>4. CASE t.op = "add_ban"
  <2>1. e = [d EXCEPT !.bans = Append(d.bans, t.entry)] /\ t.entry \in BanRow
    BY <1>4 DEF Run, add_ban, ModTask
  <2> HIDE DEF e
  <2>2. Append(d.bans, t.entry) \in Seq(BanRow)
    BY <2>1 DEF ModTables
  <2>3. e.mutes = d.mutes /\ e.events = d.events /\ e.bans = Append(d.bans, t.entry) /\ DOMAIN e = DOMAIN d
    BY <1>0, <2>1
  <2>4. ModTables(e)
    BY <2>2, <2>3 DEF ModTables
  <2>5. Does(at, d, t, e)
    BY <1>4, <2>3 DEF Does
  <2> QED BY <2>4, <2>5 DEF e
<1>5. t.op \in {"add_mute", "delete_mutes_by_ipid", "prune_expired_mutes", "record_moderation_event", "add_ban"}
  BY DEF ModTask
<1> HIDE DEF e
<1> QED BY <1>1, <1>2, <1>3, <1>4, <1>5 DEF e

\* The same log and bans, and the same mutes but for those that have run out by T.
SameTables(T, d, e) ==
    /\ ModTables(d) /\ ModTables(e) /\ d.bans = e.bans /\ d.events = e.events
    /\ \A m \in MuteRow : (m.expires <= 0 \/ m.expires > T) => (m \in d.mutes <=> m \in e.mutes)

LEMMA TaskAlike ==
    ASSUME NEW T \in Int, NEW a \in Int, NEW b \in Int, a <= T, b <= T, NEW d, NEW e, SameTables(T, d, e), NEW t \in ModTask
    PROVE  SameTables(T, Run(a, d, t), Run(b, e, t))
<1> DEFINE d1 == Run(a, d, t)
           e1 == Run(b, e, t)
<1>1. ModTables(d1) /\ ModTables(e1) /\ Does(a, d, t, d1) /\ Does(b, e, t, e1)
  BY ModTaskRuns DEF SameTables
<1> HIDE DEF d1, e1
<1>2. d1.bans = e1.bans /\ d1.events = e1.events
  BY <1>1, Zenon DEF Does, SameTables
<1>3. ASSUME NEW m \in MuteRow, m.expires <= 0 \/ m.expires > T PROVE m \in d1.mutes <=> m \in e1.mutes
  <2>1. m \in d.mutes <=> m \in e.mutes
    BY <1>3 DEF SameTables
  <2>2. m.expires \in Int
    BY DEF MuteRow
  <2>3. ~(m.expires > 0 /\ m.expires <= a) /\ ~(m.expires > 0 /\ m.expires <= b)
    BY <1>3, <2>2
  <2>4. t.op \in {"add_mute", "delete_mutes_by_ipid", "prune_expired_mutes", "record_moderation_event", "add_ban"}
    BY DEF ModTask
  <2>5. CASE t.op = "add_mute"
    BY <1>1, <2>1, <2>5 DEF Does
  <2>6. CASE t.op = "delete_mutes_by_ipid"
    BY <1>1, <2>1, <2>6 DEF Does
  <2>7. CASE t.op = "prune_expired_mutes"
    BY <1>1, <2>1, <2>3, <2>7, Zenon DEF Does
  <2>8. CASE t.op \in {"record_moderation_event", "add_ban"}
    BY <1>1, <2>1, <2>8 DEF Does
  <2> QED BY <2>4, <2>5, <2>6, <2>7, <2>8
<1> QED BY <1>1, <1>2, <1>3 DEF SameTables, d1, e1

LEMMA RunsAlike ==
    ASSUME NEW T \in Int, NEW a \in Int, NEW b \in Int, a <= T, b <= T, NEW d, NEW e, SameTables(T, d, e), NEW q \in Seq(ModTask)
    PROVE  SameTables(T, RunAll(a, d, q), RunAll(b, e, q))
<1> DEFINE n == Len(q)
<1>1. n \in Nat /\ n \in 0..n
  OBVIOUS
<1>2. PICK f : Runs(f, a, d, q, n) /\ RunAll(a, d, q) = f[n]
  BY <1>1, RunAllUnfolds
<1>3. PICK g : Runs(g, b, e, q, n) /\ RunAll(b, e, q) = g[n]
  BY <1>1, RunAllUnfolds
<1> DEFINE S == {k \in Nat : k <= n => SameTables(T, f[k], g[k])}
<1>4. 0 \in S
  <2>1. f[0] = d /\ g[0] = e
    BY <1>2, <1>3 DEF Runs
  <2> QED BY <2>1
<1>5. ASSUME NEW k \in Nat, k \in S PROVE k + 1 \in S
  <2> SUFFICES ASSUME k + 1 <= n PROVE SameTables(T, f[k + 1], g[k + 1])
    OBVIOUS
  <2>1. SameTables(T, f[k], g[k]) /\ k + 1 \in 1..n /\ (k + 1) - 1 = k /\ q[k + 1] \in ModTask
    BY <1>1, <1>5
  <2>2. f[k + 1] = Run(a, f[k], q[k + 1]) /\ g[k + 1] = Run(b, g[k], q[k + 1])
    BY <1>2, <1>3, <2>1, Zenon DEF Runs
  <2> QED BY <2>1, <2>2, TaskAlike
<1> HIDE DEF S
<1>6. \A k \in Nat : k \in S
  BY <1>4, <1>5, InductionBySet
<1> QED BY <1>1, <1>2, <1>3, <1>6 DEF S

LEMMA AlikeSelf == ASSUME NEW T, NEW d, ModTables(d) PROVE SameTables(T, d, d)
BY DEF SameTables

LEMMA ModQueueRuns ==
    ASSUME NEW at \in Int, NEW d, ModTables(d), NEW q \in Seq(ModTask)
    PROVE  ModTables(RunAll(at, d, q))
BY AlikeSelf, RunsAlike DEF SameTables

-----------------------------------------------------------------------------
(* The log.  Whatever is on disk when the worker stops, each content ban    *)
(* has its event.                                                           *)

Count(q, G) == Cardinality({k \in DOMAIN q : q[k] \in G})

LEMMA CountAppend ==
    ASSUME NEW S, NEW q \in Seq(S), NEW e \in S, NEW G
    PROVE  /\ Count(q, G) \in Nat
           /\ e \in G => Count(Append(q, e), G) = Count(q, G) + 1
           /\ e \notin G => Count(Append(q, e), G) = Count(q, G)
<1> DEFINE A == {k \in DOMAIN q : q[k] \in G}
           B == {k \in DOMAIN Append(q, e) : Append(q, e)[k] \in G}
           n == Len(q) + 1
<1>1. n \in Nat /\ n \notin A /\ A \subseteq 1..Len(q) /\ Len(q) \in Nat
  OBVIOUS
<1>2. B = IF e \in G THEN A \cup {n} ELSE A
  OBVIOUS
<1>3. Count(q, G) = Cardinality(A) /\ Count(Append(q, e), G) = Cardinality(B)
  BY DEF Count
<1> HIDE DEF A, B, n
<1>4. IsFiniteSet(A)
  <2>1. IsFiniteSet(1..Len(q))
    BY <1>1, FS_Interval
  <2> QED BY <1>1, <2>1, FS_Subset
<1>5. Cardinality(A) \in Nat /\ Cardinality(A \cup {n}) = Cardinality(A) + 1
  BY <1>1, <1>4, FS_CardinalityType, FS_AddElement
<1> QED BY <1>2, <1>3, <1>5

BansOn(s) == {e \in BanRow : e.ipid = s}
EventsOn(s) == {e \in LogRow : e.ipid = s /\ e.action \in {"BAN", "PERMA_BAN"}}
Logged(d) == \A s \in Speakers : Count(d.bans, BansOn(s)) <= Count(d.events, EventsOn(s))

\* Every prefix of the queue leaves the bans logged.
LogInv(at, d, q) == \A k \in 0..Len(q) : Logged(RunAll(at, d, SubSeq(q, 1, k)))

LEMMA WholePrefix ==
    ASSUME NEW S, NEW q \in Seq(S)
    PROVE  SubSeq(q, 1, Len(q)) = q /\ SubSeq(q, 1, 0) = <<>>
OBVIOUS

LEMMA PrefixFacts ==
    ASSUME NEW S, NEW q \in Seq(S)
    PROVE  /\ \A k \in 0..Len(q) : SubSeq(q, 1, k) \in Seq(S)
           /\ \A e \in S : \A k \in 0..Len(q) : SubSeq(Append(q, e), 1, k) = SubSeq(q, 1, k)
           /\ q # <<>> => \A k \in 0..Len(Tail(q)) :
                 LET p == SubSeq(q, 1, k + 1)
                 IN  p \in Seq(S) /\ p # <<>> /\ Head(p) = Head(q) /\ Tail(p) = SubSeq(Tail(q), 1, k) /\ k + 1 \in 0..Len(q)
OBVIOUS

LEMMA LogNow ==
    ASSUME NEW at, NEW d, LogInv(at, d, <<>>) \/ Logged(d)
    PROVE  Logged(d) /\ LogInv(at, d, <<>>)
<1>1. <<>> \in Seq({}) /\ Len(<<>>) = 0 /\ 0..0 = {0}
  OBVIOUS
<1>2. SubSeq(<<>>, 1, 0) = <<>>
  BY <1>1, WholePrefix
<1> QED BY <1>1, <1>2, RunAllEmpty DEF LogInv

LEMMA LogWhole ==
    ASSUME NEW at, NEW d, NEW q \in Seq(ModTask), LogInv(at, d, q)
    PROVE  Logged(d) /\ Logged(RunAll(at, d, q))
<1>1. 0 \in 0..Len(q) /\ Len(q) \in 0..Len(q)
  OBVIOUS
<1>2. SubSeq(q, 1, Len(q)) = q /\ SubSeq(q, 1, 0) = <<>>
  BY WholePrefix
<1>3. Logged(RunAll(at, d, SubSeq(q, 1, 0))) /\ Logged(RunAll(at, d, SubSeq(q, 1, Len(q))))
  BY <1>1, Zenon DEF LogInv
<1> QED BY <1>2, <1>3, RunAllEmpty, Zenon

LEMMA LogAppend ==
    ASSUME NEW at, NEW d, NEW q \in Seq(ModTask), NEW t \in ModTask, LogInv(at, d, q), Logged(Run(at, RunAll(at, d, q), t))
    PROVE  LogInv(at, d, Append(q, t))
<1> DEFINE r == Append(q, t)
<1>1. r \in Seq(ModTask) /\ Len(r) = Len(q) + 1 /\ Len(q) \in Nat
  OBVIOUS
<1>2. \A k \in 0..Len(q) : SubSeq(r, 1, k) = SubSeq(q, 1, k)
  BY PrefixFacts
<1>3. SubSeq(r, 1, Len(r)) = r
  BY <1>1, WholePrefix
<1>4. RunAll(at, d, r) = Run(at, RunAll(at, d, q), t)
  BY RunAllAppend
<1> HIDE DEF r
<1>5. \A k \in 0..Len(r) : k \in 0..Len(q) \/ k = Len(r)
  BY <1>1
<1>6. LogInv(at, d, r)
  BY <1>2, <1>3, <1>4, <1>5 DEF LogInv
<1> QED BY <1>6 DEF r

LEMMA LogTail ==
    ASSUME NEW at, NEW d, NEW q \in Seq(ModTask), q # <<>>, LogInv(at, d, q)
    PROVE  LogInv(at, Run(at, d, Head(q)), Tail(q))
<1> SUFFICES ASSUME NEW k \in 0..Len(Tail(q)) PROVE Logged(RunAll(at, Run(at, d, Head(q)), SubSeq(Tail(q), 1, k)))
  BY DEF LogInv
<1> DEFINE p == SubSeq(q, 1, k + 1)
<1>1. p \in Seq(ModTask) /\ p # <<>> /\ Head(p) = Head(q) /\ Tail(p) = SubSeq(Tail(q), 1, k) /\ k + 1 \in 0..Len(q)
  BY PrefixFacts
<1>2. Logged(RunAll(at, d, p))
  BY <1>1 DEF LogInv
<1> HIDE DEF p
<1>3. RunAll(at, d, p) = RunAll(at, Run(at, d, Head(p)), Tail(p))
  BY <1>1, RunAllHead
<1> QED BY <1>1, <1>2, <1>3, Zenon

LEMMA LogTime ==
    ASSUME NEW a \in Int, NEW b \in Int, a <= b, NEW d, ModTables(d), NEW q \in Seq(ModTask), LogInv(a, d, q)
    PROVE  LogInv(b, d, q)
<1> SUFFICES ASSUME NEW k \in 0..Len(q) PROVE Logged(RunAll(b, d, SubSeq(q, 1, k)))
  BY DEF LogInv
<1> DEFINE p == SubSeq(q, 1, k)
<1>1. p \in Seq(ModTask)
  BY PrefixFacts
<1>2. Logged(RunAll(a, d, p))
  BY DEF LogInv
<1> HIDE DEF p
<1>3. SameTables(b, RunAll(a, d, p), RunAll(b, d, p))
  BY <1>1, AlikeSelf, RunsAlike
<1>4. Logged(RunAll(b, d, p))
  BY <1>2, <1>3 DEF SameTables, Logged
<1> QED BY <1>4 DEF p

\* A task that is not a ban leaves the bans logged; so does a ban behind its event.
LEMMA LoggedStays ==
    ASSUME NEW at, NEW d, ModTables(d), Logged(d), NEW t \in ModTask, t.op # "add_ban"
    PROVE  Logged(Run(at, d, t))
<1> DEFINE e == Run(at, d, t)
<1>1. Does(at, d, t, e)
  BY ModTaskRuns
<1> HIDE DEF e
<1>2. e.bans = d.bans /\ (e.events = d.events \/ (t.event \in LogRow /\ e.events = Append(d.events, t.event)))
  BY <1>1 DEF Does, ModTask
<1>3. ASSUME NEW s \in Speakers PROVE Count(e.bans, BansOn(s)) <= Count(e.events, EventsOn(s))
  <2>1. Count(d.bans, BansOn(s)) <= Count(d.events, EventsOn(s))
    BY DEF Logged
  <2>2. CASE e.events = d.events
    BY <1>2, <2>1, <2>2
  <2>3. CASE t.event \in LogRow /\ e.events = Append(d.events, t.event)
    <3>1. Count(d.events, EventsOn(s)) \in Nat /\ Count(e.events, EventsOn(s)) \in {Count(d.events, EventsOn(s)), Count(d.events, EventsOn(s)) + 1}
      BY <2>3, CountAppend DEF ModTables
    <3>2. \E S : d.bans \in Seq(S) /\ S # {}
      BY <2>3 DEF ModTables, BanRow
    <3>3. Count(d.bans, BansOn(s)) \in Nat
      <4> DEFINE A == {k \in DOMAIN d.bans : d.bans[k] \in BansOn(s)}
      <4>1. A \subseteq 1..Len(d.bans) /\ Len(d.bans) \in Nat
        BY DEF ModTables
      <4>2. IsFiniteSet(A)
        BY <4>1, FS_Interval, FS_Subset
      <4> QED BY <4>2, FS_CardinalityType DEF Count
    <3> QED BY <1>2, <2>1, <3>1, <3>3
  <2> QED BY <1>2, <2>2, <2>3
<1> QED BY <1>3 DEF Logged, e

LEMMA LoggedBan ==
    ASSUME NEW at, NEW d, ModTables(d), Logged(d), NEW s \in Speakers, NEW t \in ModTask, t.op = "record_moderation_event",
           t.event \in EventsOn(s), NEW u \in ModTask, u.op = "add_ban", u.entry \in BansOn(s)
    PROVE  Logged(Run(at, Run(at, d, t), u))
<1> DEFINE e == Run(at, d, t)
           f == Run(at, e, u)
<1>1. ModTables(e) /\ Does(at, d, t, e)
  BY ModTaskRuns
<1> HIDE DEF e
<1>2. Does(at, e, u, f)
  BY <1>1, ModTaskRuns
<1> HIDE DEF f
<1>0. d.bans \in Seq(BanRow) /\ d.events \in Seq(LogRow)
  BY DEF ModTables
<1>3. f.events = Append(d.events, t.event) /\ f.bans = Append(d.bans, u.entry)
  BY <1>1, <1>2 DEF Does
<1>4. t.event \in LogRow /\ u.entry \in BanRow /\ t.event.ipid = s /\ u.entry.ipid = s
  BY DEF EventsOn, BansOn
<1>5. ASSUME NEW x \in Speakers PROVE Count(f.bans, BansOn(x)) <= Count(f.events, EventsOn(x))
  <2>1. Count(d.bans, BansOn(x)) <= Count(d.events, EventsOn(x))
    BY DEF Logged
  <2>2. /\ Count(d.bans, BansOn(x)) \in Nat
        /\ u.entry \in BansOn(x) => Count(Append(d.bans, u.entry), BansOn(x)) = Count(d.bans, BansOn(x)) + 1
        /\ u.entry \notin BansOn(x) => Count(Append(d.bans, u.entry), BansOn(x)) = Count(d.bans, BansOn(x))
    <3> HIDE DEF f
    <3>1. PICK q, r : q = d.bans /\ r = u.entry /\ q \in Seq(BanRow) /\ r \in BanRow
      BY <1>0, <1>4
    <3> QED BY <3>1, CountAppend
  <2>3. /\ Count(d.events, EventsOn(x)) \in Nat
        /\ t.event \in EventsOn(x) => Count(Append(d.events, t.event), EventsOn(x)) = Count(d.events, EventsOn(x)) + 1
        /\ t.event \notin EventsOn(x) => Count(Append(d.events, t.event), EventsOn(x)) = Count(d.events, EventsOn(x))
    <3>1. PICK q, r : q = d.events /\ r = t.event /\ q \in Seq(LogRow) /\ r \in LogRow
      BY <1>0, <1>4
    <3> QED BY <3>1, CountAppend
  <2>4. (u.entry \in BansOn(x)) <=> x = s
    BY <1>4 DEF BansOn
  <2>5. x = s => t.event \in EventsOn(x)
    OBVIOUS
  <2> QED BY <1>3, <2>1, <2>2, <2>3, <2>4, <2>5
<1> QED BY <1>5 DEF Logged, e, f

\* A mute that runs at time at is in the tables d.
Backed(d, at, ms) == \A s \in DOMAIN ms : ms[s] > at => [ipid |-> s, expires |-> ms[s]] \in d.mutes

\* Nobody in S is muted, in memory or in the tables.
Freed(d, at, ms, S) ==
    \A s \in S : ~(s \in DOMAIN ms /\ ms[s] > at) /\ \A m \in d.mutes : (m.expires = 0 \/ m.expires > at) => m.ipid # s

CmTypeOK ==
    /\ ModTables(db) /\ dbQueue \in Seq(ModTask) /\ now \in Nat
    /\ DOMAIN mutes \subseteq Speakers /\ \A s \in DOMAIN mutes : mutes[s] \in Int
    /\ serving \in BOOLEAN /\ cmDb = serving

CmInv ==
    /\ CmTypeOK /\ LogInv(now, db, dbQueue)
    /\ serving => Backed(Drained, now, mutes)
    /\ Freed(Drained, now, mutes, cleared)

LEMMA Greatest ==
    ASSUME NEW S, S \subseteq Int, IsFiniteSet(S), S # {}
    PROVE  \E x \in S : \A y \in S : y <= x
<1> DEFINE n == Cardinality(S)
<1>1. n \in Nat /\ n # 0
  BY FS_CardinalityType, FS_EmptySet
<1>2. PICK q \in SetToSeqs(S) : \A i, j \in DOMAIN q : i < j => q[i] < q[j]
  BY AscendingExists
<1>3. q \in Seq(S) /\ DOMAIN q = 1..n /\ ToSet(q) = S
  BY EnumerationLists
<1> HIDE DEF n
<1>4. n \in DOMAIN q /\ q[n] \in S
  BY <1>1, <1>3, SeqIsFunction
<1>5. ASSUME NEW y \in S PROVE y <= q[n]
  <2>1. PICK i \in DOMAIN q : q[i] = y
    BY <1>3 DEF ToSet
  <2>2. CASE i = n
    BY <2>1, <2>2
  <2>3. CASE i # n
    <3>1. i < n
      BY <1>1, <1>3, <2>3
    <3>2. q[i] < q[n] /\ q[n] \in Int /\ q[i] \in Int
      BY <1>2, <1>4, <2>1, <3>1
    <3> QED BY <2>1, <3>2
  <2> QED BY <2>2, <2>3
<1> QED BY <1>4, <1>5

LEMMA NoTask == <<>> \in Seq(ModTask)
OBVIOUS

LEMMA CmInitOK == ASSUME DbInit, ModInit PROVE CmInv
<1>1. ModTables(db) /\ dbQueue = <<>> /\ now = 1
  BY FS_EmptySet DEF DbInit, NoTables, ModTables
<1>2. Logged(db)
  <2> SUFFICES ASSUME NEW s \in Speakers PROVE Count(db.bans, BansOn(s)) <= Count(db.events, EventsOn(s))
    BY DEF Logged
  <2>1. db.bans = <<>> /\ db.events = <<>>
    BY DEF DbInit, NoTables
  <2>2. \A G : Count(<<>>, G) = 0
    <3> SUFFICES ASSUME NEW G PROVE Count(<<>>, G) = 0
      OBVIOUS
    <3>1. {k \in DOMAIN <<>> : <<>>[k] \in G} = {}
      OBVIOUS
    <3> QED BY <3>1, FS_EmptySet DEF Count
  <2> QED BY <2>1, <2>2
<1>3. LogInv(now, db, dbQueue)
  BY <1>1, <1>2, LogNow
<1>4. DOMAIN mutes = {} /\ serving = FALSE /\ cmDb = FALSE /\ cleared = {}
  BY DEF ModInit
<1>5. CmTypeOK
  BY <1>1, <1>4, NoTask DEF CmTypeOK
<1> QED BY <1>3, <1>4, <1>5 DEF CmInv, Freed

LEMMA CmDrained == ASSUME CmTypeOK PROVE ModTables(Drained) /\ now \in Int
BY ModQueueRuns DEF CmTypeOK, Drained

LEMMA QuietKeeps ==
    ASSUME CmInv, UNCHANGED <<db, dbQueue, now, mutes, serving, cmDb>>, cleared' \subseteq cleared
    PROVE  CmInv'
<1>1. Drained' = Drained
  BY DEF Drained
<1>2. CmTypeOK'
  BY DEF CmInv, CmTypeOK
<1> QED BY <1>1, <1>2 DEF CmInv, Freed

LEMMA ModWorkerOK == ASSUME CmInv, ModWorker PROVE CmInv'
<1>1. /\ dbQueue # <<>> /\ db' = Run(now, db, Head(dbQueue)) /\ dbQueue' = Tail(dbQueue)
      /\ UNCHANGED <<now, mutes, serving, cmDb, cleared>>
  BY DEF ModWorker, worker_loop, modVars, heatVars, echoVars
<1>2. Drained' = Drained
  BY <1>1, RunAllHead DEF CmInv, CmTypeOK, Drained
<1>3. Head(dbQueue) \in ModTask /\ dbQueue' \in Seq(ModTask)
  BY <1>1 DEF CmInv, CmTypeOK
<1>4. CmTypeOK'
  BY <1>1, <1>3, ModTaskRuns DEF CmInv, CmTypeOK
<1>5. LogInv(now', db', dbQueue')
  BY <1>1, LogTail DEF CmInv, CmTypeOK
<1> QED BY <1>1, <1>2, <1>4, <1>5 DEF CmInv

LEMMA ModTickOK == ASSUME CmInv, ModTick PROVE CmInv'
<1>1. now' = now + 1 /\ UNCHANGED <<db, dbQueue, mutes, serving, cmDb, cleared>> /\ now \in Nat /\ now' \in Nat
  BY DEF ModTick, CmInv, CmTypeOK
<1>2. CmTypeOK'
  BY <1>1 DEF CmInv, CmTypeOK
<1>3. LogInv(now', db', dbQueue')
  <2>1. now \in Int /\ now' \in Int /\ now <= now'
    BY <1>1
  <2>2. LogInv(now', db, dbQueue)
    BY <2>1, LogTime DEF CmInv, CmTypeOK
  <2> QED BY <1>1, <2>2
<1>4. SameTables(now', Drained, Drained')
  <2>1. now \in Int /\ now' \in Int /\ now <= now' /\ now' <= now'
    BY <1>1
  <2>2. SameTables(now', RunAll(now, db, dbQueue), RunAll(now', db, dbQueue))
    BY <2>1, AlikeSelf, RunsAlike DEF CmInv, CmTypeOK
  <2> QED BY <1>1, <2>2 DEF Drained
<1>5. serving => Backed(Drained', now', mutes)
  <2> SUFFICES ASSUME serving, NEW s \in DOMAIN mutes, mutes[s] > now' PROVE [ipid |-> s, expires |-> mutes[s]] \in Drained'.mutes
    BY DEF Backed
  <2>1. mutes[s] \in Int /\ s \in Speakers /\ mutes[s] > now
    BY <1>1 DEF CmInv, CmTypeOK
  <2>2. [ipid |-> s, expires |-> mutes[s]] \in Drained.mutes
    BY <2>1 DEF CmInv, Backed
  <2>3. [ipid |-> s, expires |-> mutes[s]] \in MuteRow
    BY <2>1 DEF MuteRow
  <2> QED BY <1>4, <2>2, <2>3 DEF SameTables
<1>6. Freed(Drained', now', mutes, cleared)
  <2> SUFFICES ASSUME NEW s \in cleared
               PROVE  /\ ~(s \in DOMAIN mutes /\ mutes[s] > now')
                      /\ \A m \in Drained'.mutes : (m.expires = 0 \/ m.expires > now') => m.ipid # s
    BY DEF Freed
  <2>1. ~(s \in DOMAIN mutes /\ mutes[s] > now')
    BY <1>1 DEF CmInv, CmTypeOK, Freed
  <2>2. ASSUME NEW m \in Drained'.mutes, m.expires = 0 \/ m.expires > now' PROVE m.ipid # s
    <3>1. m \in MuteRow /\ m.expires \in Int
      BY <1>4 DEF SameTables, ModTables, MuteRow
    <3>2. m \in Drained.mutes /\ (m.expires = 0 \/ m.expires > now)
      BY <1>1, <1>4, <2>2, <3>1 DEF SameTables
    <3> QED BY <3>2 DEF CmInv, Freed
  <2> QED BY <2>1, <2>2
<1> QED BY <1>1, <1>2, <1>3, <1>5, <1>6 DEF CmInv

\* One task more in the queue that is not a ban.
LEMMA OneQueued ==
    ASSUME CmInv, NEW t \in ModTask, t.op # "add_ban", dbQueue' = Append(dbQueue, t), UNCHANGED <<db, now>>
    PROVE  /\ dbQueue' \in Seq(ModTask) /\ LogInv(now', db', dbQueue')
           /\ ModTables(Drained') /\ Does(now, Drained, t, Drained')
<1>1. ModTables(Drained) /\ dbQueue \in Seq(ModTask) /\ Drained' = Run(now, Drained, t) /\ dbQueue' \in Seq(ModTask)
  BY CmDrained, RunAllAppend DEF CmInv, CmTypeOK, Drained
<1>2. ModTables(Drained') /\ Does(now, Drained, t, Drained')
  BY <1>1, ModTaskRuns
<1>3. Logged(Drained)
  BY <1>1, LogWhole DEF CmInv, Drained
<1>4. Logged(Run(now, Drained, t))
  BY <1>1, <1>3, LoggedStays
<1>5. LogInv(now, db, Append(dbQueue, t))
  BY <1>1, <1>4, LogAppend DEF CmInv, Drained
<1> QED BY <1>1, <1>2, <1>5

LEMMA ModResetOK == ASSUME CmInv, NEW s \in Speakers, reset_state(s) PROVE CmInv'
<1> DEFINE t == [op |-> "delete_mutes_by_ipid", ipid |-> s]
<1>1. /\ serving /\ mutes' = Drop(mutes, {s}) /\ dbQueue' = Append(dbQueue, t) /\ cleared' = cleared \cup {s}
      /\ UNCHANGED <<db, now, serving, cmDb>>
  BY DEF reset_state, CmInv, CmTypeOK
<1>2. t \in ModTask /\ t.op = "delete_mutes_by_ipid" /\ t.ipid = s
  BY DEF ModTask
<1> HIDE DEF t
<1>3. /\ dbQueue' \in Seq(ModTask) /\ LogInv(now', db', dbQueue')
      /\ Drained'.mutes = {m \in Drained.mutes : m.ipid # s}
  BY <1>1, <1>2, OneQueued DEF Does
<1>4. DOMAIN mutes' = DOMAIN mutes \ {s} /\ \A x \in DOMAIN mutes' : mutes'[x] = mutes[x]
  BY <1>1 DEF Drop
<1>5. CmTypeOK'
  BY <1>1, <1>3, <1>4 DEF CmInv, CmTypeOK
<1>6. Backed(Drained', now', mutes')
  BY <1>1, <1>3, <1>4 DEF CmInv, Backed
<1>7. Freed(Drained', now', mutes', cleared')
  BY <1>1, <1>3, <1>4 DEF CmInv, Freed
<1> QED BY <1>3, <1>5, <1>6, <1>7 DEF CmInv

LEMMA ModSweepOK == ASSUME CmInv, sweep PROVE CmInv'
<1> DEFINE t == [op |-> "prune_expired_mutes"]
<1>1. /\ serving /\ mutes' = Drop(mutes, {s \in DOMAIN mutes : mutes[s] <= now}) /\ dbQueue' = Append(dbQueue, t)
      /\ UNCHANGED <<db, now, serving, cmDb, cleared>>
  BY DEF sweep, CmInv, CmTypeOK
<1>2. t \in ModTask /\ t.op = "prune_expired_mutes"
  BY DEF ModTask
<1> HIDE DEF t
<1>3. /\ dbQueue' \in Seq(ModTask) /\ LogInv(now', db', dbQueue')
      /\ Drained'.mutes = {m \in Drained.mutes : ~(m.expires > 0 /\ m.expires <= now)}
  BY <1>1, <1>2, OneQueued DEF Does
<1>4. DOMAIN mutes' \subseteq DOMAIN mutes /\ \A x \in DOMAIN mutes' : mutes'[x] = mutes[x]
  BY <1>1 DEF Drop
<1>5. CmTypeOK' /\ now \in Nat
  BY <1>1, <1>3, <1>4 DEF CmInv, CmTypeOK
<1>6. Backed(Drained', now', mutes')
  <2> SUFFICES ASSUME NEW s \in DOMAIN mutes', mutes'[s] > now PROVE [ipid |-> s, expires |-> mutes'[s]] \in Drained'.mutes
    BY <1>1 DEF Backed
  <2>1. [ipid |-> s, expires |-> mutes'[s]] \in Drained.mutes
    BY <1>1, <1>4 DEF CmInv, Backed
  <2>2. mutes'[s] \in Int
    BY <1>4 DEF CmInv, CmTypeOK
  <2> QED BY <1>3, <1>5, <2>1, <2>2
<1>7. Freed(Drained', now', mutes', cleared')
  BY <1>1, <1>3, <1>4 DEF CmInv, Freed
<1> QED BY <1>3, <1>5, <1>6, <1>7 DEF CmInv

\* What configure loads: the longest mute that the tables hold of each speaker.
LEMMA Loads ==
    ASSUME ModTables(db'), now \in Nat
    PROVE  LET ms == LoadedMutes(db')
           IN  \A s \in DOMAIN ms : /\ s \in Speakers /\ ms[s] \in Int /\ [ipid |-> s, expires |-> ms[s]] \in db'.mutes
                                    /\ \E m \in db'.mutes : m.ipid = s /\ (m.expires = 0 \/ m.expires > now)
<1> DEFINE A == active_mutes(db')
           ms == LoadedMutes(db')
<1>1. A = {m \in db'.mutes : m.expires = 0 \/ m.expires > now}
  BY DEF active_mutes
<1>2. DOMAIN ms = {m.ipid : m \in A}
  BY DEF LoadedMutes
<1>3. IsFiniteSet(A) /\ A \subseteq MuteRow
  <2>1. A \subseteq db'.mutes
    BY <1>1
  <2> QED BY <2>1, FS_Subset DEF ModTables
<1> SUFFICES ASSUME NEW s \in DOMAIN ms
             PROVE  /\ s \in Speakers /\ ms[s] \in Int /\ [ipid |-> s, expires |-> ms[s]] \in db'.mutes
                    /\ \E m \in db'.mutes : m.ipid = s /\ (m.expires = 0 \/ m.expires > now)
  OBVIOUS
<1> DEFINE E == {m.expires : m \in {n \in A : n.ipid = s}}
<1>4. PICK k \in A : k.ipid = s
  BY <1>2
<1>5. s \in Speakers /\ \E m \in db'.mutes : m.ipid = s /\ (m.expires = 0 \/ m.expires > now)
  BY <1>1, <1>3, <1>4 DEF MuteRow
<1>6. ms[s] = CHOOSE x \in E : \A m \in A : m.ipid = s => m.expires <= x
  BY <1>2 DEF LoadedMutes
<1> HIDE DEF ms, A
<1>7. E \subseteq Int /\ E # {} /\ IsFiniteSet(E)
  <2>1. E \subseteq Int /\ E # {}
    BY <1>3, <1>4 DEF MuteRow
  <2>2. {n \in A : n.ipid = s} \subseteq A
    OBVIOUS
  <2>3. IsFiniteSet({n \in A : n.ipid = s})
    BY <1>3, <2>2, FS_Subset
  <2>4. IsFiniteSet(E)
    <3> DEFINE B == {n \in A : n.ipid = s}
    <3>1. E = {m.expires : m \in B} /\ IsFiniteSet(B)
      BY <2>3
    <3> HIDE DEF B, E
    <3> DEFINE f == [m \in B |-> m.expires]
    <3>2. f \in Surjection(B, E)
      BY <3>1 DEF Surjection
    <3> QED BY <3>1, <3>2, FS_Surjection
  <2> QED BY <2>1, <2>4
<1>8. PICK x \in E : \A y \in E : y <= x
  BY <1>7, Greatest
<1>9. \A m \in A : m.ipid = s => m.expires <= x
  BY <1>8
<1>10. ms[s] \in E
  BY <1>6, <1>8, <1>9
<1>11. PICK m \in A : m.ipid = s /\ m.expires = ms[s]
  BY <1>10
<1>12. m = [ipid |-> s, expires |-> ms[s]] /\ m \in db'.mutes /\ ms[s] \in Int
  BY <1>1, <1>3, <1>11 DEF MuteRow
<1> QED BY <1>5, <1>12 DEF ms

LEMMA ReconfigureOK == ASSUME CmInv, Reconfigure PROVE CmInv'
<1>1. /\ serving /\ db' = Drained /\ dbQueue' = <<>> /\ mutes' = LoadedMutes(db')
      /\ UNCHANGED <<now, serving, cmDb, cleared>>
  BY DEF Reconfigure, configure, CmInv, CmTypeOK
<1>2. ModTables(db') /\ now \in Nat /\ Drained' = Drained
  BY <1>1, CmDrained, RunAllEmpty DEF CmInv, CmTypeOK, Drained
<1>3. \A s \in DOMAIN mutes' : /\ s \in Speakers /\ mutes'[s] \in Int /\ [ipid |-> s, expires |-> mutes'[s]] \in db'.mutes
                               /\ \E m \in db'.mutes : m.ipid = s /\ (m.expires = 0 \/ m.expires > now)
  BY <1>1, <1>2, Loads
<1>4. CmTypeOK'
  BY <1>1, <1>2, <1>3, NoTask DEF CmInv, CmTypeOK
<1>5. LogInv(now', db', dbQueue')
  <2>1. Logged(db')
    BY <1>1, LogWhole DEF CmInv, CmTypeOK, Drained
  <2> QED BY <1>1, <2>1, LogNow
<1>6. Backed(Drained', now', mutes')
  BY <1>1, <1>2, <1>3 DEF Backed
<1>7. Freed(Drained', now', mutes', cleared')
  <2> SUFFICES ASSUME NEW s \in cleared
               PROVE  /\ ~(s \in DOMAIN mutes' /\ mutes'[s] > now)
                      /\ \A m \in Drained.mutes : (m.expires = 0 \/ m.expires > now) => m.ipid # s
    BY <1>1, <1>2 DEF Freed
  <2>1. \A m \in Drained.mutes : (m.expires = 0 \/ m.expires > now) => m.ipid # s
    BY DEF CmInv, Freed
  <2>2. s \notin DOMAIN mutes'
    BY <1>1, <1>3, <2>1
  <2> QED BY <2>1, <2>2
<1> QED BY <1>4, <1>5, <1>6, <1>7 DEF CmInv

LEMMA BootOK == ASSUME CmInv, Boot PROVE CmInv'
<1>1. /\ mutes' = [s \in {} |-> 0] /\ serving' = TRUE /\ cmDb' = TRUE /\ UNCHANGED <<db, dbQueue, now, cleared>>
  BY DEF Boot, configure, CmInv, CmTypeOK
<1>2. Drained' = Drained
  BY <1>1 DEF Drained
<1>3. CmTypeOK' /\ DOMAIN mutes' = {}
  BY <1>1 DEF CmInv, CmTypeOK
<1> QED BY <1>1, <1>2, <1>3 DEF CmInv, Backed, Freed

\* The process ends; what the queue held is lost, or has been run.
LEMMA ModEndOK == ASSUME CmInv, ModCrash \/ ModShutdown PROVE CmInv'
<1>1. dbQueue' = <<>> /\ mutes' = [s \in {} |-> 0] /\ serving' = FALSE /\ cmDb' = FALSE /\ now' = now
  BY DEF ModCrash, ModShutdown, DbCrash, close, Forgotten
<1>2. Drained' = db' /\ DOMAIN mutes' = {}
  BY <1>1, RunAllEmpty DEF Drained
<1>3. \/ db' = db /\ cleared' = {s \in cleared : \A m \in db.mutes : m.ipid # s}
      \/ db' = Drained /\ cleared' = cleared
  BY DEF ModCrash, ModShutdown, DbCrash, close
<1>4. ModTables(db')
  BY <1>3, CmDrained DEF CmInv, CmTypeOK
<1>5. CmTypeOK'
  BY <1>1, <1>2, <1>4, NoTask DEF CmInv, CmTypeOK
<1>6. LogInv(now', db', dbQueue')
  <2>1. Logged(db')
    BY <1>3, LogWhole DEF CmInv, CmTypeOK, Drained
  <2> QED BY <1>1, <2>1, LogNow
<1>7. Freed(Drained', now', mutes', cleared')
  BY <1>1, <1>2, <1>3 DEF CmInv, Freed
<1> QED BY <1>1, <1>5, <1>6, <1>7 DEF CmInv

LEMMA RowTypes ==
    ASSUME CmTypeOK, NEW s \in Speakers, NEW a \in Actions
    PROVE  /\ Mute(s) \in ModTask /\ Mute(s).op = "add_mute" /\ now + HeatCfg.mute_duration \in Int
           /\ Mute(s).mute = [ipid |-> s, expires |-> now + HeatCfg.mute_duration]
           /\ Event(s, a) \in ModTask /\ Event(s, a).op = "record_moderation_event" /\ Event(s, a).event \in LogRow
           /\ Event(s, a).event.ipid = s /\ Event(s, a).event.action = a
           /\ Ban(s, a) \in ModTask /\ Ban(s, a).op = "add_ban" /\ Ban(s, a).entry \in BansOn(s)
<1>1. now + HeatCfg.mute_duration \in Int /\ now \in Nat
  BY HeatAssumption DEF CmTypeOK
<1>2. [ipid |-> s, expires |-> now + HeatCfg.mute_duration] \in MuteRow
  BY <1>1 DEF MuteRow
<1>3. Mute(s) \in ModTask
  BY <1>2 DEF Mute, ModTask
<1>4. [ipid |-> s, action |-> a] \in LogRow
  BY DEF LogRow
<1>5. Event(s, a) \in ModTask
  BY <1>4 DEF Event, ModTask
<1> DEFINE e == Ban(s, a).entry
<1>6. e \in BanRow /\ e.ipid = s
  BY <1>1 DEF BanRow, Ban, Permanent
<1> HIDE DEF e
<1>7. Ban(s, a) = [op |-> "add_ban", entry |-> e]
  BY DEF Ban, e
<1>8. Ban(s, a) \in ModTask /\ Ban(s, a).op = "add_ban"
  BY <1>6, <1>7 DEF ModTask
<1> QED BY <1>1, <1>3, <1>4, <1>5, <1>6, <1>8 DEF Mute, Event, BansOn, e

LEMMA DecideActs == \A h : decide(h) \in Actions
BY DEF decide, Actions

LEMMA ThreeRows ==
    ASSUME NEW q \in Seq(ModTask), NEW x \in ModTask, NEW y \in ModTask
    PROVE  /\ q \o (<<>> \o <<x>> \o <<>>) = Append(q, x)
           /\ q \o (<<x>> \o <<y>> \o <<>>) = Append(Append(q, x), y)
           /\ q \o (<<>> \o <<x>> \o <<y>>) = Append(Append(q, x), y)
           /\ Append(q, x) \in Seq(ModTask)
<1>1. \A p \in Seq(ModTask) : <<>> \o p = p /\ p \o <<>> = p
  OBVIOUS
<1>2. <<x>> \in Seq(ModTask) /\ <<x>> \o <<y>> \in Seq(ModTask)
  OBVIOUS
<1>3. q \o <<x>> = Append(q, x) /\ Append(q, x) \in Seq(ModTask)
  OBVIOUS
<1>4. \A p \in Seq(ModTask), c, d \in ModTask : p \o (<<c>> \o <<d>>) = Append(Append(p, c), d)
  OBVIOUS
<1>5. <<>> \o <<x>> = <<x>> /\ <<x>> \o <<>> = <<x>> /\ (<<x>> \o <<y>>) \o <<>> = <<x>> \o <<y>>
  BY <1>1, <1>2
<1>6. q \o (<<x>> \o <<y>>) = Append(Append(q, x), y)
  BY <1>4
<1> QED BY <1>3, <1>5, <1>6

\* The rows of a verdict, queued behind what is there.
LEMMA RowsQueued ==
    ASSUME CmInv, NEW s \in Speakers, NEW a \in Actions, dbQueue' = dbQueue \o RowsOf(s, a), UNCHANGED <<db, now>>
    PROVE  /\ dbQueue' \in Seq(ModTask) /\ LogInv(now', db', dbQueue') /\ ModTables(Drained')
           /\ Drained'.mutes = IF a = "MUTE" THEN Drained.mutes \cup {[ipid |-> s, expires |-> now + HeatCfg.mute_duration]}
                               ELSE Drained.mutes
<1> DEFINE q == dbQueue
           D == Drained
           R(t, d) == Run(now, d, t)
<1>0. q \in Seq(ModTask) /\ ModTables(D) /\ Logged(D) /\ LogInv(now, db, q) /\ D = RunAll(now, db, q) /\ CmTypeOK
  BY CmDrained, LogWhole DEF CmInv, CmTypeOK, Drained
<1>1. Drained' = RunAll(now, db, dbQueue')
  BY DEF Drained
<1> DEFINE M == Mute(s)
           E == Event(s, a)
           B == Ban(s, a)
<1>2. /\ M \in ModTask /\ M.op = "add_mute" /\ M.mute = [ipid |-> s, expires |-> now + HeatCfg.mute_duration]
      /\ E \in ModTask /\ E.op = "record_moderation_event" /\ E.event \in LogRow /\ E.event.ipid = s /\ E.event.action = a
      /\ B \in ModTask /\ B.op = "add_ban" /\ B.entry \in BansOn(s)
  BY <1>0, RowTypes
<1>3. RowsOf(s, a) = (IF a = "MUTE" THEN <<M>> ELSE <<>>) \o <<E>> \o (IF a \in {"BAN", "PERMA_BAN"} THEN <<B>> ELSE <<>>)
  BY DEF RowsOf
<1> HIDE DEF q, D, M, E, B, R
<1>4. dbQueue' = q \o RowsOf(s, a)
  BY DEF q
\* One task, whatever stands before it.
<1>5. ASSUME NEW p \in Seq(ModTask), LogInv(now, db, p), ModTables(RunAll(now, db, p)), Logged(RunAll(now, db, p)),
             NEW t \in ModTask, t.op # "add_ban"
      PROVE  /\ Append(p, t) \in Seq(ModTask) /\ LogInv(now, db, Append(p, t)) /\ ModTables(RunAll(now, db, Append(p, t)))
             /\ Logged(RunAll(now, db, Append(p, t))) /\ RunAll(now, db, Append(p, t)) = R(t, RunAll(now, db, p))
             /\ Does(now, RunAll(now, db, p), t, RunAll(now, db, Append(p, t)))
  <2>1. RunAll(now, db, Append(p, t)) = R(t, RunAll(now, db, p))
    BY RunAllAppend DEF R
  <2>2. Logged(R(t, RunAll(now, db, p)))
    BY <1>5, LoggedStays DEF R
  <2>3. ModTables(R(t, RunAll(now, db, p))) /\ Does(now, RunAll(now, db, p), t, R(t, RunAll(now, db, p)))
    BY <1>5, ModTaskRuns DEF R
  <2>4. LogInv(now, db, Append(p, t))
    BY <1>5, <2>2, LogAppend DEF R
  <2> QED BY <2>1, <2>2, <2>3, <2>4, ThreeRows
<1>6. CASE a \notin {"MUTE", "BAN", "PERMA_BAN"}
  <2>1. dbQueue' = Append(q, E)
    BY <1>0, <1>2, <1>3, <1>4, <1>6, ThreeRows
  <2>2. LogInv(now, db, dbQueue') /\ ModTables(Drained') /\ Does(now, D, E, Drained') /\ dbQueue' \in Seq(ModTask)
    BY <1>0, <1>1, <1>2, <1>5, <2>1
  <2> QED BY <1>2, <1>6, <2>2 DEF Does, D
<1>7. CASE a = "MUTE"
  <2>1. dbQueue' = Append(Append(q, M), E)
    BY <1>0, <1>2, <1>3, <1>4, <1>7, ThreeRows
  <2> DEFINE p == Append(q, M)
             P == RunAll(now, db, p)
  <2>2. p \in Seq(ModTask) /\ LogInv(now, db, p) /\ ModTables(P) /\ Logged(P) /\ Does(now, D, M, P)
    BY <1>0, <1>2, <1>5
  <2>3. LogInv(now, db, dbQueue') /\ ModTables(Drained') /\ Does(now, P, E, Drained') /\ dbQueue' \in Seq(ModTask)
    <3> HIDE DEF p
    <3> QED BY <1>1, <1>2, <1>5, <2>1, <2>2 DEF p
  <2> HIDE DEF p, P
  <2>4. Drained'.mutes = P.mutes /\ P.mutes = D.mutes \cup {M.mute}
    BY <1>2, <2>2, <2>3 DEF Does
  <2> QED BY <1>2, <1>7, <2>3, <2>4 DEF D
<1>8. CASE a \in {"BAN", "PERMA_BAN"}
  <2>1. dbQueue' = Append(Append(q, E), B)
    BY <1>0, <1>2, <1>3, <1>4, <1>8, ThreeRows
  <2> DEFINE p == Append(q, E)
             P == RunAll(now, db, p)
  <2>2. p \in Seq(ModTask) /\ LogInv(now, db, p) /\ ModTables(P) /\ P = R(E, D) /\ Does(now, D, E, P)
    BY <1>0, <1>2, <1>5
  <2>3. E.event \in EventsOn(s)
    BY <1>2, <1>8 DEF EventsOn
  <2>4. Logged(R(B, R(E, D)))
    BY <1>0, <1>2, <2>3, LoggedBan DEF R
  <2> HIDE DEF p
  <2>5. Drained' = R(B, P)
    <3>1. dbQueue' = Append(p, B)
      BY <2>1 DEF p
    <3>2. RunAll(now, db, Append(p, B)) = R(B, RunAll(now, db, p))
      BY <1>2, <2>2, RunAllAppend DEF R
    <3> QED BY <1>1, <3>1, <3>2, Zenon
  <2>6. LogInv(now, db, dbQueue')
    <3>1. Logged(Run(now, RunAll(now, db, p), B))
      BY <2>2, <2>4 DEF R
    <3>2. LogInv(now, db, Append(p, B))
      BY <1>2, <2>2, <3>1, LogAppend
    <3> QED BY <2>1, <3>2 DEF p
  <2> HIDE DEF P
  <2>7. ModTables(Drained') /\ Does(now, P, B, Drained')
    BY <1>2, <2>2, <2>5, ModTaskRuns DEF R
  <2>8. dbQueue' \in Seq(ModTask)
    BY <1>2, <2>1, <2>2 DEF p
  <2>9. Drained'.mutes = D.mutes
    BY <1>2, <2>2, <2>7 DEF Does
  <2> QED BY <1>8, <2>6, <2>7, <2>8, <2>9 DEF D
<1> QED BY <1>6, <1>7, <1>8

LEMMA EnforcedOK == ASSUME CmInv, NEW s \in Speakers, NEW m \in Messages, CheckEnforced(s, m) PROVE CmInv'
<1> DEFINE a == decide(apply(s, heat_delta_from(Scores(s, m))))
           x == now + HeatCfg.mute_duration
<1>1. /\ serving /\ mutes' = IF a = "MUTE" THEN Put(mutes, s, x) ELSE mutes
      /\ dbQueue' = dbQueue \o RowsOf(s, a) /\ cleared' = cleared \ {s}
      /\ UNCHANGED <<db, now, serving, cmDb>>
  BY DEF CheckEnforced, Said, CmInv, CmTypeOK
<1>2. a \in Actions
  BY DecideActs
<1> HIDE DEF a
<1>3. /\ dbQueue' \in Seq(ModTask) /\ LogInv(now', db', dbQueue')
      /\ Drained'.mutes = IF a = "MUTE" THEN Drained.mutes \cup {[ipid |-> s, expires |-> x]} ELSE Drained.mutes
  BY <1>1, <1>2, RowsQueued
<1>4. x \in Int /\ now \in Nat
  BY HeatAssumption DEF CmInv, CmTypeOK
<1> HIDE DEF x
<1>5. /\ DOMAIN mutes' \subseteq DOMAIN mutes \cup {s}
      /\ \A y \in DOMAIN mutes' : (mutes'[y] = x /\ y = s /\ a = "MUTE") \/ (y \in DOMAIN mutes /\ mutes'[y] = mutes[y])
      /\ \A y \in cleared' : y \in cleared /\ y # s
      /\ \A y \in DOMAIN mutes' : y # s => y \in DOMAIN mutes /\ mutes'[y] = mutes[y]
  BY <1>1 DEF Put
<1>6. CmTypeOK'
  <2>1. DOMAIN mutes' \subseteq Speakers /\ \A y \in DOMAIN mutes' : mutes'[y] \in Int
    BY <1>4, <1>5 DEF CmInv, CmTypeOK
  <2> QED BY <1>1, <1>3, <2>1 DEF CmInv, CmTypeOK
<1>7. Backed(Drained', now', mutes')
  BY <1>1, <1>3, <1>5 DEF CmInv, Backed
<1>8. Freed(Drained', now', mutes', cleared')
  <2> SUFFICES ASSUME NEW y \in cleared'
               PROVE  /\ ~(y \in DOMAIN mutes' /\ mutes'[y] > now)
                      /\ \A r \in Drained'.mutes : (r.expires = 0 \/ r.expires > now) => r.ipid # y
    BY <1>1 DEF Freed
  <2>1. /\ ~(y \in DOMAIN mutes /\ mutes[y] > now)
        /\ \A r \in Drained.mutes : (r.expires = 0 \/ r.expires > now) => r.ipid # y
    BY <1>5 DEF CmInv, Freed
  <2>2. \A r \in Drained'.mutes : r \in Drained.mutes \/ r = [ipid |-> s, expires |-> x]
    BY <1>3
  <2>3. [ipid |-> s, expires |-> x].ipid # y
    BY <1>5
  <2> QED BY <1>5, <2>1, <2>2, <2>3
<1> QED BY <1>3, <1>6, <1>7, <1>8 DEF CmInv

LEMMA CmStep == ASSUME CmInv, [ModNext]_<<dbVars, modVars>> PROVE CmInv'
<1> USE DEF dbVars, modVars, heatVars, echoVars
<1>1. CASE UNCHANGED <<dbVars, modVars>>
  BY <1>1, QuietKeeps
<1>2. CASE ModOpen
  BY <1>2, QuietKeeps DEF ModOpen, open, Migration, migrate_step, migrate_commit, migrate_rollback
<1>3. CASE set_embedding_backend
  BY <1>3, QuietKeeps DEF set_embedding_backend
<1>4. ASSUME NEW s \in Speakers, set_noheat(s) PROVE CmInv'
  BY <1>4, QuietKeeps DEF set_noheat
<1>5. ASSUME NEW s \in Speakers, NEW m \in Messages, CheckClean(s, m) \/ CheckExempt(s, m) PROVE CmInv'
  BY <1>5, QuietKeeps DEF CheckClean, CheckExempt, Said
<1> QED BY <1>1, <1>2, <1>3, <1>4, <1>5, BootOK, ModWorkerOK, ModTickOK, ModSweepOK, ReconfigureOK, ModEndOK, ModResetOK,
           EnforcedOK DEF ModNext

LEMMA CmHolds == ModSpec => []CmInv
<1>1. DbInit /\ ModInit => CmInv
  BY CmInitOK
<1>2. CmInv /\ [ModNext]_<<dbVars, modVars>> => CmInv'
  BY CmStep
<1> QED BY <1>1, <1>2, PTL DEF ModSpec

\* However many speakers, messages, resets, sweeps and reloads there are, and whenever the process dies: a mute in
\* memory is in the database or in its queue, and a reset speaker is muted in none of the three.
THEOREM MutesAlwaysKept == ModSpec => []MutesKept
<1>1. CmInv => MutesKept
  <2> SUFFICES ASSUME CmInv PROVE MutesKept
    OBVIOUS
  <2>1. MutesBacked
    BY DEF CmInv, Backed, MutesBacked
  <2>2. ResetSticks
    BY DEF CmInv, Freed, ResetSticks, is_muted, active_mutes
  <2> QED BY <2>1, <2>2 DEF MutesKept
<1> QED BY <1>1, CmHolds, PTL

-----------------------------------------------------------------------------
(* The verdicts: VerdictsEarned.                                           *)

\* Heat keeps being a number as it decays.
LEMMA HalveInt == ASSUME NEW h \in Int, NEW n \in Nat PROVE Halve(h, n) \in Int
<1> DEFINE Is(f, m) == f = [k \in 0..m |-> IF k = 0 THEN h ELSE Half(f[k - 1])]
           S == {m \in Nat : \E f : Is(f, m)}
<1>1. 0 \in S
  <2>1. Is([k \in 0..0 |-> h], 0)
    OBVIOUS
  <2> QED BY <2>1
<1>2. ASSUME NEW m \in Nat, m \in S PROVE m + 1 \in S
  <2>1. PICK f : Is(f, m)
    BY <1>2
  <2> DEFINE g == [k \in 0..(m + 1) |-> IF k <= m THEN f[k] ELSE Half(f[k - 1])]
  <2>2. ASSUME NEW k \in 0..(m + 1) PROVE g[k] = IF k = 0 THEN h ELSE Half(g[k - 1])
    <3>1. CASE k = 0
      BY <2>1, <3>1
    <3>2. CASE k # 0
      <4>1. k - 1 \in 0..m /\ g[k - 1] = f[k - 1]
        BY <3>2
      <4>2. g[k] = Half(f[k - 1])
        <5>1. CASE k <= m
          <6>1. k \in 0..m /\ g[k] = f[k]
            BY <5>1
          <6>2. f[k] = Half(f[k - 1])
            BY <2>1, <3>2, <6>1, Zenon
          <6> QED BY <6>1, <6>2
        <5>2. CASE ~(k <= m)
          BY <5>2
        <5> QED BY <5>1, <5>2
      <4> QED BY <3>2, <4>1, <4>2
    <3> QED BY <3>1, <3>2
  <2>3. g = [k \in 0..(m + 1) |-> g[k]]
    OBVIOUS
  <2> HIDE DEF g
  <2>4. Is(g, m + 1)
    BY <2>2, <2>3, Zenon
  <2> QED BY <2>4
<1> HIDE DEF S
<1>3. n \in S
  BY <1>1, <1>2, InductionBySet
<1> DEFINE g == CHOOSE f : Is(f, n)
<1>4. Is(g, n)
  BY <1>3, Zenon DEF S
<1>5. Halve(h, n) = g[n]
  BY DEF Halve
<1> HIDE DEF g
<1> DEFINE T == {m \in Nat : m <= n => g[m] \in Int}
<1>6. 0 \in T
  BY <1>4
<1>7. ASSUME NEW m \in Nat, m \in T PROVE m + 1 \in T
  <2> SUFFICES ASSUME m + 1 <= n PROVE g[m + 1] \in Int
    OBVIOUS
  <2>1. m + 1 \in 0..n /\ m + 1 # 0 /\ (m + 1) - 1 = m /\ g[m] \in Int
    BY <1>7
  <2>2. g[m + 1] = Half(g[(m + 1) - 1])
    BY <1>4, <2>1, Zenon
  <2> QED BY <2>1, <2>2 DEF Half
<1> HIDE DEF T
<1>8. n \in T
  BY <1>6, <1>7, InductionBySet
<1> QED BY <1>5, <1>8 DEF T

HeatOK == \A s \in DOMAIN heat : heat[s].h \in Int /\ heat[s].at \in Nat /\ heat[s].at <= now

LEMMA DecayInt == ASSUME HeatOK, now \in Nat PROVE \A s : decay(s) \in Int
<1> SUFFICES ASSUME NEW s, s \in DOMAIN heat PROVE Halve(heat[s].h, now - heat[s].at) \in Int
  BY DEF decay
<1>1. heat[s].h \in Int /\ now - heat[s].at \in Nat
  BY DEF HeatOK
<1> QED BY <1>1, HalveInt

LEMMA DeltaInt ==
    ASSUME NEW s, NEW m \in Messages
    PROVE  heat_delta_from(Scores(s, m)) \in Int
<1> DEFINE c == Scores(s, m)
           part(a) == contrib(c[a], HeatCfg.floor[a]) * HeatCfg.weight[a]
<1>1. \A a \in Axes : c[a] \in Int
  BY MessagesAssumption DEF Scores, Axes
<1>2. \A x, y \in Int : contrib(x, y) \in Int
  BY DEF contrib
<1>3. \A a \in Axes : HeatCfg.floor[a] \in Int /\ HeatCfg.weight[a] \in Int
  BY HeatAssumption
<1>4. ASSUME NEW a \in Axes PROVE part(a) \in Int
  <2> DEFINE x == contrib(c[a], HeatCfg.floor[a])
             y == HeatCfg.weight[a]
  <2>1. x \in Int /\ y \in Int
    BY <1>1, <1>2, <1>3
  <2> HIDE DEF x, y
  <2>2. x * y \in Int
    BY <2>1
  <2> QED BY <2>2 DEF x, y
<1>5. heat_delta_from(c) = part("visual_noise") + part("link_risk") + part("slurs") + part("hate") + part("semantic_echo")
  BY DEF heat_delta_from
<1> HIDE DEF part, c
<1>6. heat_delta_from(c) \in Int
  BY <1>4, <1>5 DEF Axes
<1> QED BY <1>6 DEF c

\* More heat is never a weaker action, whatever the thresholds are.
LEMMA DecideGrows ==
    ASSUME NEW g \in Int, NEW h \in Int, g <= h
    PROVE  Rank(decide(g)) <= Rank(decide(h)) /\ Rank(decide(g)) \in Nat
<1>1. /\ Rank("NONE") = 1 /\ Rank("LOG") = 2 /\ Rank("CENSOR") = 3 /\ Rank("DROP") = 4
      /\ Rank("MUTE") = 5 /\ Rank("KICK") = 6 /\ Rank("BAN") = 7 /\ Rank("PERMA_BAN") = 8
  <2>1. DOMAIN Ladder = 1..8
    BY DEF Ladder
  <2> QED BY <2>1 DEF Rank, Ladder
<1>2. HeatCfg.censor \in Int /\ HeatCfg.drop \in Int /\ HeatCfg.mute \in Int /\ HeatCfg.kick \in Int /\ HeatCfg.ban \in Int /\ HeatCfg.perma \in Int
  BY HeatAssumption
<1> QED BY <1>1, <1>2 DEF decide

-----------------------------------------------------------------------------
(* The ring of what was said.  It is in the order of time, and what is     *)
(* within the window has been said within the window.                      *)
Saying == [who : Speakers, vec : {m.vec : m \in Messages}, at : Nat]

Ordered(r) == \A i, j \in DOMAIN r : i <= j => r[i].at <= r[j].at

RingOK(r, said, at) ==
    /\ r \in Seq(Saying) /\ said \subseteq Saying /\ IsFiniteSet(said) /\ Ordered(r)
    /\ \A i \in DOMAIN r : r[i].at <= at /\ (r[i].at >= at - Window => r[i] \in said)

LEMMA Suffix ==
    ASSUME NEW S, NEW r \in Seq(S), NEW n \in 0..Len(r)
    PROVE  /\ SubSeq(r, n + 1, Len(r)) \in Seq(S) /\ Len(SubSeq(r, n + 1, Len(r))) = Len(r) - n
           /\ \A i \in DOMAIN SubSeq(r, n + 1, Len(r)) : i + n \in DOMAIN r /\ SubSeq(r, n + 1, Len(r))[i] = r[i + n]
OBVIOUS

LEMMA SuffixOfSuffix ==
    ASSUME NEW S, NEW r \in Seq(S), NEW n \in 0..Len(r), NEW k \in 0..(Len(r) - n)
    PROVE  SubSeq(SubSeq(r, n + 1, Len(r)), k + 1, Len(r) - n) = SubSeq(r, n + k + 1, Len(r))
OBVIOUS

LEMMA OutdatedIs ==
    ASSUME NEW r \in Seq(Saying), NEW cutoff \in Int
    PROVE  /\ Outdated(r, cutoff) \in 0..Len(r)
           /\ Outdated(r, cutoff) < Len(r) => r[Outdated(r, cutoff) + 1].at >= cutoff
<1> DEFINE P(k) == (\A i \in 1..k : r[i].at < cutoff) /\ (k < Len(r) => r[k + 1].at >= cutoff)
           T == {i \in 1..Len(r) : r[i].at >= cutoff}
<1>1. \A i \in 1..Len(r) : r[i].at \in Nat /\ Len(r) \in Nat
  <2>1. Len(r) \in Nat /\ \A i \in 1..Len(r) : r[i] \in Saying
    OBVIOUS
  <2> QED BY <2>1, Zenon DEF Saying
<1>2. \E k \in 0..Len(r) : P(k)
  <2>1. CASE T = {}
    <3>1. \A i \in 1..Len(r) : r[i].at < cutoff
      BY <1>1, <2>1
    <3>2. Len(r) \in 0..Len(r) /\ ~(Len(r) < Len(r))
      OBVIOUS
    <3> QED BY <3>1, <3>2
  <2>2. CASE T # {}
    <3>1. T \in SUBSET Nat
      OBVIOUS
    <3>2. PICK x \in T : \A y \in T : x <= y
      BY <2>2, <3>1, LeastNat
    <3>3. x - 1 \in 0..Len(r) /\ (x - 1) + 1 = x /\ r[x].at >= cutoff
      BY <3>2
    <3>4. ASSUME NEW i \in 1..(x - 1) PROVE r[i].at < cutoff
      <4>1. i \in 1..Len(r) /\ i \notin T
        BY <3>2
      <4> QED BY <1>1, <4>1
    <3> QED BY <3>3, <3>4
  <2> QED BY <2>1, <2>2
<1>3. Outdated(r, cutoff) \in 0..Len(r) /\ P(Outdated(r, cutoff))
  BY <1>2, Zenon DEF Outdated
<1> QED BY <1>3

\* What prune_locked leaves: the end of the ring, all of it within the window.
LEMMA PrunedIs ==
    ASSUME NEW r \in Seq(Saying), Ordered(r), now \in Nat
    PROVE  \E n \in 0..Len(r) : /\ Pruned(r) = SubSeq(r, n + 1, Len(r))
                                /\ \A i \in (n + 1)..Len(r) : r[i].at >= now - Window
<1> DEFINE k == Outdated(r, now - Window)
           p == SubSeq(r, k + 1, Len(r))
           L == Len(r)
           j == IF Len(p) > RingSize THEN Len(p) - RingSize ELSE 0
<1>1. now - Window \in Int /\ RingSize \in Nat
  BY ModerationAssumption
<1>2. k \in 0..L /\ (k < L => r[k + 1].at >= now - Window)
  BY <1>1, OutdatedIs
<1> HIDE DEF k
<1>3. Len(p) = L - k /\ L \in Nat
  BY <1>2, Suffix
<1>4. Pruned(r) = SubSeq(p, j + 1, Len(p))
  BY DEF Pruned, Fitting, k
<1>5. j \in 0..(L - k)
  BY <1>1, <1>2, <1>3
<1> HIDE DEF p, j
<1>6. SubSeq(p, j + 1, L - k) = SubSeq(r, k + j + 1, L)
  BY <1>2, <1>5, SuffixOfSuffix DEF p
<1>7. k + j \in 0..L
  BY <1>2, <1>5
<1>8. ASSUME NEW i \in (k + j + 1)..L PROVE r[i].at >= now - Window
  <2>1. k < L /\ k + 1 \in DOMAIN r /\ i \in DOMAIN r /\ k + 1 <= i
    BY <1>2, <1>3, <1>5
  <2>2. r[k + 1] \in Saying /\ r[i] \in Saying
    BY <2>1
  <2>3. r[k + 1].at \in Nat /\ r[i].at \in Nat
    BY <2>2, Zenon DEF Saying
  <2>4. r[k + 1].at <= r[i].at
    BY <2>1, Zenon DEF Ordered
  <2> QED BY <1>1, <1>2, <2>1, <2>3, <2>4
<1> QED BY <1>3, <1>4, <1>6, <1>7, <1>8

LEMMA PrunedOK ==
    ASSUME RingOK(ring, spoken, now), now \in Nat
    PROVE  /\ RingOK(Pruned(ring), spoken, now)
           /\ \A i \in DOMAIN Pruned(ring) : Pruned(ring)[i] \in spoken
<1>1. PICK n \in 0..Len(ring) : /\ Pruned(ring) = SubSeq(ring, n + 1, Len(ring))
                                /\ \A i \in (n + 1)..Len(ring) : ring[i].at >= now - Window
  BY PrunedIs DEF RingOK
<1> DEFINE p == Pruned(ring)
<1>2. p \in Seq(Saying) /\ \A i \in DOMAIN p : i + n \in DOMAIN ring /\ p[i] = ring[i + n]
  BY <1>1, Suffix DEF RingOK
<1> HIDE DEF p
<1>3. \A i \in DOMAIN p : i \in Nat /\ i >= 1
  BY <1>2
<1>4. \A i \in DOMAIN p : p[i] \in spoken /\ p[i].at <= now
  <2> SUFFICES ASSUME NEW i \in DOMAIN p PROVE p[i] \in spoken /\ p[i].at <= now
    OBVIOUS
  <2>1. i + n \in DOMAIN ring /\ p[i] = ring[i + n] /\ i + n \in (n + 1)..Len(ring)
    BY <1>2, <1>3 DEF RingOK
  <2> QED BY <1>1, <2>1 DEF RingOK
<1>5. Ordered(p)
  <2> SUFFICES ASSUME NEW i \in DOMAIN p, NEW j \in DOMAIN p, i <= j PROVE p[i].at <= p[j].at
    BY DEF Ordered
  <2>1. i + n \in DOMAIN ring /\ j + n \in DOMAIN ring /\ p[i] = ring[i + n] /\ p[j] = ring[j + n] /\ i + n <= j + n
    BY <1>2, <1>3
  <2> QED BY <2>1 DEF RingOK, Ordered
<1>6. RingOK(p, spoken, now)
  BY <1>2, <1>4, <1>5 DEF RingOK
<1> QED BY <1>4, <1>6 DEF p

\* What has just been said goes to the end.
LEMMA InsertedOK ==
    ASSUME RingOK(ring, spoken, now), now \in Nat, NEW s \in Speakers, NEW m \in Messages
    PROVE  RingOK(Inserted(s, m), spoken \cup {[who |-> s, vec |-> m.vec, at |-> now]}, now)
<1> DEFINE e == [who |-> s, vec |-> m.vec, at |-> now]
           p == Pruned(ring)
           q == Append(p, e)
           k == IF Len(q) > RingSize THEN Len(q) - RingSize ELSE 0
           r == SubSeq(q, k + 1, Len(q))
<1>1. RingOK(p, spoken, now)
  BY PrunedOK
<1>2. e \in Saying /\ e.at = now
  BY DEF Saying
<1>3. Inserted(s, m) = r
  BY DEF Inserted, Fitting
<1>4. IsFiniteSet(spoken \cup {e}) /\ spoken \cup {e} \subseteq Saying
  BY <1>2, FS_AddElement DEF RingOK
<1> HIDE DEF p, e
<1>5. /\ q \in Seq(Saying) /\ p \in Seq(Saying) /\ Len(p) \in Nat /\ DOMAIN p = 1..Len(p) /\ DOMAIN q = 1..(Len(p) + 1) /\ q[Len(p) + 1] = e
      /\ \A i \in DOMAIN p : q[i] = p[i] /\ p[i] \in Saying
  BY <1>1, <1>2 DEF RingOK
<1> HIDE DEF q
<1>6. RingOK(q, spoken \cup {e}, now)
  <2>1. \A i \in DOMAIN q : i \in DOMAIN p \/ i = Len(p) + 1
    BY <1>5
  <2>2. \A i \in DOMAIN q : q[i].at <= now /\ (q[i].at >= now - Window => q[i] \in spoken \cup {e})
    BY <1>1, <1>2, <1>5, <2>1 DEF RingOK
  <2>3. Ordered(q)
    <3> SUFFICES ASSUME NEW i \in DOMAIN q, NEW j \in DOMAIN q, i <= j PROVE q[i].at <= q[j].at
      BY DEF Ordered
    <3>1. CASE j = Len(p) + 1
      BY <1>2, <1>5, <2>2, <3>1
    <3>2. CASE j # Len(p) + 1
      <4>1. i \in DOMAIN p /\ j \in DOMAIN p
        BY <1>5, <3>2
      <4> QED BY <1>1, <1>5, <4>1 DEF RingOK, Ordered
    <3> QED BY <3>1, <3>2
  <2> QED BY <1>4, <1>5, <2>2, <2>3 DEF RingOK
<1>7. k \in 0..Len(q)
  BY <1>5, ModerationAssumption
<1> HIDE DEF k
<1>8. r \in Seq(Saying) /\ \A i \in DOMAIN r : i + k \in DOMAIN q /\ r[i] = q[i + k]
  BY <1>5, <1>7, Suffix
<1> HIDE DEF r
<1>9. \A i \in DOMAIN r : i \in Nat
  BY <1>8
<1>10. Ordered(r)
  <2> SUFFICES ASSUME NEW i \in DOMAIN r, NEW j \in DOMAIN r, i <= j PROVE r[i].at <= r[j].at
    BY DEF Ordered
  <2>1. i + k \in DOMAIN q /\ j + k \in DOMAIN q /\ r[i] = q[i + k] /\ r[j] = q[j + k] /\ i + k <= j + k
    BY <1>7, <1>8, <1>9
  <2> QED BY <1>6, <2>1 DEF RingOK, Ordered
<1>11. RingOK(r, spoken \cup {e}, now)
  BY <1>6, <1>8, <1>10 DEF RingOK
<1> QED BY <1>3, <1>11 DEF e

\* The others the clusterer counts have said it within the window, and so has the speaker.
LEMMA EchoIsCrowd ==
    ASSUME RingOK(ring, spoken, now), now \in Nat, NEW s \in Speakers, NEW m \in Messages, Echo(s, m),
           NEW said, said = spoken \cup {[who |-> s, vec |-> m.vec, at |-> now]}
    PROVE  Cardinality({x.who : x \in {y \in said : y.vec = m.vec}}) >= ClusterThreshold
<1> DEFINE C == {x.who : x \in {y \in said : y.vec = m.vec}}
           D == distinct_others(s, m)
<1>1. D \cup {s} \subseteq C /\ s \notin D
  <2>1. D \subseteq C
    <3> SUFFICES ASSUME NEW w \in D PROVE w \in C
      OBVIOUS
    <3>1. PICK i \in DOMAIN Pruned(ring) : Pruned(ring)[i].vec = m.vec /\ Pruned(ring)[i].who = w
      BY DEF distinct_others
    <3>2. Pruned(ring)[i] \in said
      BY PrunedOK
    <3> QED BY <3>1, <3>2
  <2>2. s \in C
    <3>1. [who |-> s, vec |-> m.vec, at |-> now] \in {y \in said : y.vec = m.vec}
      OBVIOUS
    <3>2. [who |-> s, vec |-> m.vec, at |-> now].who = s
      OBVIOUS
    <3> QED BY <3>1, <3>2, Zenon
  <2> QED BY <2>1, <2>2 DEF distinct_others
<1>2. IsFiniteSet(C)
  <2>1. IsFiniteSet(said) /\ said \subseteq Saying
    <3>1. [who |-> s, vec |-> m.vec, at |-> now] \in Saying
      BY DEF Saying
    <3> QED BY <3>1, FS_AddElement DEF RingOK
  <2> DEFINE B == {y \in said : y.vec = m.vec}
  <2>2. IsFiniteSet(B)
    BY <2>1, FS_Subset
  <2> HIDE DEF B
  <2> DEFINE f == [x \in B |-> x.who]
  <2>3. f \in Surjection(B, C)
    BY DEF Surjection, B
  <2> QED BY <2>2, <2>3, FS_Surjection
<1>3. Cardinality(D) + 1 >= ClusterThreshold
  BY DEF Echo
<1> HIDE DEF C, D
<1>4. IsFiniteSet(D) /\ IsFiniteSet(D \cup {s}) /\ Cardinality(D \cup {s}) <= Cardinality(C)
  BY <1>1, <1>2, FS_Subset
<1>5. Cardinality(D \cup {s}) = Cardinality(D) + 1 /\ Cardinality(D) \in Nat /\ Cardinality(C) \in Nat
  BY <1>1, <1>2, <1>4, FS_AddElement, FS_CardinalityType
<1> QED BY <1>3, <1>4, <1>5, ModerationAssumption DEF C

\* The history behind a verdict: what is in memory of it, and the last verdict itself.
VerdictInv ==
    /\ now \in Nat /\ HeatOK /\ RingOK(ring, spoken, now) /\ verdict.at \in Nat /\ verdict.at <= now
    /\ TrustNeverShields /\ EchoNeedsCrowd

LEMMA VerdictQuiet ==
    ASSUME VerdictInv, UNCHANGED <<now, heat, ring, spoken, verdict>>
    PROVE  VerdictInv'
<1>1. HeatOK' /\ TrustNeverShields' /\ EchoNeedsCrowd'
  BY DEF VerdictInv, HeatOK, TrustNeverShields, EchoNeedsCrowd
<1> QED BY <1>1 DEF VerdictInv

LEMMA VerdictInitOK == ASSUME DbInit, ModInit PROVE VerdictInv
<1>1. now = 1 /\ DOMAIN heat = {} /\ ring = <<>> /\ spoken = {} /\ verdict.at = 0 /\ verdict.delta = 0 /\ verdict.echo = FALSE
  BY DEF DbInit, ModInit, NoVerdict
<1>2. RingOK(<<>>, {}, 1)
  BY FS_EmptySet DEF RingOK, Ordered
<1>3. HeatOK /\ TrustNeverShields /\ EchoNeedsCrowd
  BY <1>1 DEF HeatOK, TrustNeverShields, EchoNeedsCrowd, KCleanEpsilon
<1> QED BY <1>1, <1>2, <1>3 DEF VerdictInv

\* The end of the process: everything in memory is gone.
LEMMA VerdictForgotten == ASSUME VerdictInv, Forgotten, now' = now PROVE VerdictInv'
<1>1. /\ DOMAIN heat' = {} /\ ring' = <<>> /\ spoken' = {} /\ now' = now /\ now \in Nat
      /\ verdict'.at = 0 /\ verdict'.delta = 0 /\ verdict'.echo = FALSE
  BY DEF Forgotten, NoVerdict, VerdictInv
<1>2. RingOK(<<>>, {}, now)
  BY FS_EmptySet DEF RingOK, Ordered
<1>3. HeatOK' /\ TrustNeverShields' /\ EchoNeedsCrowd'
  BY <1>1 DEF HeatOK, TrustNeverShields, EchoNeedsCrowd, KCleanEpsilon
<1> QED BY <1>1, <1>2, <1>3 DEF VerdictInv

\* A tick takes from the history what has left the window; no verdict is of the new instant yet.
LEMMA VerdictTickOK == ASSUME VerdictInv, ModTick PROVE VerdictInv'
<1>1. /\ now' = now + 1 /\ now \in Nat /\ heat' = heat /\ ring' = ring /\ verdict' = verdict
      /\ spoken' = {x \in spoken : x.at >= now' - Window} /\ Window \in Nat
  BY ModerationAssumption DEF ModTick, VerdictInv
<1>2. RingOK(ring, spoken', now')
  <2>1. spoken' \subseteq spoken /\ IsFiniteSet(spoken')
    BY <1>1, FS_Subset DEF VerdictInv, RingOK
  <2>2. ASSUME NEW i \in DOMAIN ring PROVE ring[i].at <= now' /\ (ring[i].at >= now' - Window => ring[i] \in spoken')
    <3>1. ring[i] \in Saying
      BY DEF VerdictInv, RingOK
    <3>2. ring[i].at \in Nat
      BY <3>1, Zenon DEF Saying
    <3>3. ring[i].at <= now /\ (ring[i].at >= now - Window => ring[i] \in spoken)
      BY DEF VerdictInv, RingOK
    <3>4. ring[i].at <= now' /\ (ring[i].at >= now' - Window => ring[i] \in spoken)
      BY <1>1, <3>2, <3>3
    <3> QED BY <1>1, <3>4
  <2> QED BY <2>1, <2>2 DEF VerdictInv, RingOK
<1>3. HeatOK'
  <2> SUFFICES ASSUME NEW s \in DOMAIN heat PROVE heat[s].h \in Int /\ heat[s].at \in Nat /\ heat[s].at <= now + 1
    BY <1>1 DEF HeatOK
  <2> QED BY <1>1 DEF VerdictInv, HeatOK
<1>4. verdict.at \in Nat /\ verdict.at <= now' /\ verdict.at # now'
  BY <1>1 DEF VerdictInv
<1>5. EchoNeedsCrowd' /\ TrustNeverShields'
  BY <1>1, <1>4 DEF VerdictInv, EchoNeedsCrowd, TrustNeverShields
<1> QED BY <1>1, <1>2, <1>3, <1>4, <1>5 DEF VerdictInv

LEMMA SweptHeatOK == ASSUME VerdictInv, sweep PROVE VerdictInv'
<1>1. heat' = SweptHeat /\ ring' = Pruned(ring) /\ UNCHANGED <<now, spoken, verdict>> /\ now \in Nat
  BY DEF sweep, VerdictInv
<1>2. RingOK(Pruned(ring), spoken, now)
  BY PrunedOK DEF VerdictInv
<1>3. \A s : decay(s) \in Int
  BY DecayInt DEF VerdictInv
<1>4. ASSUME NEW s \in DOMAIN heat' PROVE heat'[s].h \in Int /\ heat'[s].at \in Nat /\ heat'[s].at <= now
  <2>1. heat'[s] = [h |-> decay(s), at |-> now]
    BY <1>1 DEF SweptHeat
  <2> QED BY <1>1, <1>3, <2>1
<1>5. HeatOK'
  BY <1>1, <1>4 DEF HeatOK
<1>6. TrustNeverShields' /\ EchoNeedsCrowd'
  BY <1>1 DEF VerdictInv, TrustNeverShields, EchoNeedsCrowd
<1> QED BY <1>1, <1>2, <1>5, <1>6 DEF VerdictInv

LEMMA VerdictResetOK == ASSUME VerdictInv, NEW s \in Speakers, reset_state(s) PROVE VerdictInv'
<1>1. heat' = Drop(heat, {s}) /\ UNCHANGED <<now, ring, spoken, verdict>>
  BY DEF reset_state
<1>2. \A x \in DOMAIN heat' : x \in DOMAIN heat /\ heat'[x] = heat[x]
  BY <1>1 DEF Drop
<1>3. HeatOK' /\ TrustNeverShields' /\ EchoNeedsCrowd'
  BY <1>1, <1>2 DEF VerdictInv, HeatOK, TrustNeverShields, EchoNeedsCrowd
<1> QED BY <1>1, <1>3 DEF VerdictInv

-----------------------------------------------------------------------------
\* One message: the ring and the history, and the crowd behind an echo.
LEMMA SaidOK ==
    ASSUME VerdictInv, NEW s \in Speakers, NEW m \in Messages, NEW a, NEW d, NEW e, Said(s, m), Verdict(s, m, a, d, e), now' = now
    PROVE  /\ RingOK(ring', spoken', now') /\ EchoNeedsCrowd' /\ verdict'.at = now'
           /\ verdict'.action = a /\ verdict'.delta = d /\ verdict'.exempt = e
<1> DEFINE new == [who |-> s, vec |-> m.vec, at |-> now]
<1>1. /\ ring' = IF backend THEN Inserted(s, m) ELSE ring
      /\ spoken' = IF backend THEN spoken \cup {new} ELSE spoken
      /\ verdict' = [action |-> a, delta |-> d, exempt |-> e, echo |-> Echo(s, m), vec |-> m.vec, at |-> now]
  BY DEF Said, Verdict
<1>2. RingOK(ring, spoken, now) /\ now \in Nat
  BY DEF VerdictInv
<1>3. RingOK(ring', spoken', now')
  <2>1. CASE backend
    BY <1>1, <1>2, <2>1, InsertedOK
  <2>2. CASE ~backend
    BY <1>1, <1>2, <2>2
  <2> QED BY <2>1, <2>2
<1>4. verdict'.echo = Echo(s, m) /\ verdict'.vec = m.vec /\ verdict'.at = now' /\ verdict'.action = a /\ verdict'.delta = d /\ verdict'.exempt = e
  BY <1>1
<1>5. ASSUME Echo(s, m) PROVE Cardinality({x.who : x \in {y \in spoken' : y.vec = m.vec}}) >= ClusterThreshold
  <2>1. spoken' = spoken \cup {new}
    BY <1>1, <1>5 DEF Echo
  <2> QED BY <1>2, <1>5, <2>1, EchoIsCrowd
<1>6. EchoNeedsCrowd'
  BY <1>4, <1>5 DEF EchoNeedsCrowd
<1> QED BY <1>3, <1>4, <1>6

LEMMA HeatPut ==
    ASSUME HeatOK, now \in Nat, now' = now, NEW s, NEW h \in Int, heat' = Put(heat, s, [h |-> h, at |-> now])
    PROVE  HeatOK'
<1>1. ASSUME NEW x \in DOMAIN heat' PROVE heat'[x].h \in Int /\ heat'[x].at \in Nat /\ heat'[x].at <= now
  <2>1. CASE x = s
    BY <2>1 DEF Put
  <2>2. CASE x # s
    <3>1. x \in DOMAIN heat /\ heat'[x] = heat[x]
      BY <2>2 DEF Put
    <3> QED BY <3>1 DEF HeatOK
  <2> QED BY <2>1, <2>2
<1> QED BY <1>1 DEF HeatOK

LEMMA CleanVerdictOK == ASSUME VerdictInv, NEW s \in Speakers, NEW m \in Messages, CheckClean(s, m) PROVE VerdictInv'
<1> DEFINE h == accrue_trust(s, TrustReward, -MaxTrust)
<1>1. Said(s, m) /\ Verdict(s, m, "NONE", 0, s \in noheat) /\ heat' = Put(heat, s, [h |-> h, at |-> now]) /\ now' = now
  BY DEF CheckClean, dbVars
<1>2. h \in Int
  <2>1. decay(s) \in Int
    BY DecayInt DEF VerdictInv
  <2> QED BY <2>1, ModerationAssumption DEF accrue_trust
<1> HIDE DEF h
<1>3. RingOK(ring', spoken', now') /\ EchoNeedsCrowd' /\ verdict'.at = now' /\ verdict'.delta = 0
  BY <1>1, SaidOK
<1>4. HeatOK'
  BY <1>1, <1>2, HeatPut DEF VerdictInv
<1>5. TrustNeverShields'
  BY <1>3 DEF TrustNeverShields, KCleanEpsilon
<1> QED BY <1>1, <1>3, <1>4, <1>5 DEF VerdictInv

LEMMA ExemptVerdictOK == ASSUME VerdictInv, NEW s \in Speakers, NEW m \in Messages, CheckExempt(s, m) PROVE VerdictInv'
<1> DEFINE d == heat_delta_from(Scores(s, m))
<1>1. /\ Said(s, m) /\ Verdict(s, m, "NONE", d, TRUE) /\ now' = now
      /\ heat' = IF s \in DOMAIN heat THEN Put(heat, s, [h |-> peek(s), at |-> now]) ELSE heat
  BY DEF CheckExempt, dbVars
<1>2. peek(s) \in Int
  BY DecayInt DEF VerdictInv, peek
<1> HIDE DEF d
<1>3. RingOK(ring', spoken', now') /\ EchoNeedsCrowd' /\ verdict'.at = now' /\ verdict'.exempt = TRUE
  BY <1>1, SaidOK
<1>4. HeatOK'
  <2>1. CASE s \in DOMAIN heat
    BY <1>1, <1>2, <2>1, HeatPut DEF VerdictInv
  <2>2. CASE s \notin DOMAIN heat
    BY <1>1, <2>2 DEF VerdictInv, HeatOK
  <2> QED BY <2>1, <2>2
<1>5. TrustNeverShields'
  BY <1>3 DEF TrustNeverShields
<1> QED BY <1>1, <1>3, <1>4, <1>5 DEF VerdictInv

\* The heat after an offence is at least what the offence alone adds: trust was wiped first.
LEMMA EnforcedVerdictOK == ASSUME VerdictInv, NEW s \in Speakers, NEW m \in Messages, CheckEnforced(s, m) PROVE VerdictInv'
<1> DEFINE d == heat_delta_from(Scores(s, m))
           h == apply(s, d)
<1>1. Said(s, m) /\ Verdict(s, m, decide(h), d, FALSE) /\ heat' = Put(heat, s, [h |-> h, at |-> now]) /\ now' = now
  BY DEF CheckEnforced, dbVars
<1>2. d \in Int /\ h \in Int /\ d <= h
  <2>1. decay(s) \in Int
    BY DecayInt DEF VerdictInv
  <2>2. d \in Int
    BY DeltaInt
  <2> HIDE DEF d
  <2> QED BY <2>1, <2>2 DEF apply
<1> HIDE DEF d, h
<1>3. /\ RingOK(ring', spoken', now') /\ EchoNeedsCrowd' /\ verdict'.at = now'
      /\ verdict'.action = decide(h) /\ verdict'.delta = d
  BY <1>1, SaidOK
<1>4. HeatOK'
  BY <1>1, <1>2, HeatPut DEF VerdictInv
<1>5. Rank(decide(h)) >= Rank(decide(d))
  <2>1. Rank(decide(d)) <= Rank(decide(h)) /\ Rank(decide(d)) \in Nat
    BY <1>2, DecideGrows
  <2>2. Rank(decide(h)) \in Nat
    BY <1>2, DecideGrows
  <2> QED BY <2>1, <2>2
<1>6. TrustNeverShields'
  BY <1>3, <1>5 DEF TrustNeverShields
<1> QED BY <1>1, <1>3, <1>4, <1>6 DEF VerdictInv

LEMMA VerdictStep == ASSUME VerdictInv, [ModNext]_<<dbVars, modVars>> PROVE VerdictInv'
<1> USE DEF dbVars, modVars, heatVars, echoVars
<1>1. CASE UNCHANGED <<dbVars, modVars>>
  BY <1>1, VerdictQuiet
<1>2. CASE ModOpen
  BY <1>2, VerdictQuiet DEF ModOpen, open, Migration, migrate_step, migrate_commit, migrate_rollback
<1>3. CASE ModWorker
  BY <1>3, VerdictQuiet DEF ModWorker, worker_loop
<1>4. CASE Boot \/ Reconfigure \/ set_embedding_backend
  BY <1>4, VerdictQuiet DEF Boot, Reconfigure, set_embedding_backend
<1>5. ASSUME NEW s \in Speakers, set_noheat(s) PROVE VerdictInv'
  BY <1>5, VerdictQuiet DEF set_noheat
<1>6. CASE ModCrash \/ ModShutdown
  BY <1>6, VerdictForgotten DEF ModCrash, ModShutdown, DbCrash, close
<1> QED BY <1>1, <1>2, <1>3, <1>4, <1>5, <1>6, VerdictTickOK, SweptHeatOK, VerdictResetOK, CleanVerdictOK, ExemptVerdictOK,
           EnforcedVerdictOK DEF ModNext

\* What the log counts, in the words of BanHasEvent.
LEMMA LoggedBans == ASSUME ModTables(db), Logged(db) PROVE BanHasEvent
<1> SUFFICES ASSUME NEW i \in DOMAIN db.bans
             PROVE  Cardinality({k \in DOMAIN db.events : db.events[k].ipid = db.bans[i].ipid /\ db.events[k].action \in {"BAN", "PERMA_BAN"}})
                      >= Cardinality({k \in DOMAIN db.bans : db.bans[k].ipid = db.bans[i].ipid})
  BY DEF BanHasEvent
<1> DEFINE s == db.bans[i].ipid
           E == {k \in DOMAIN db.events : db.events[k].ipid = s /\ db.events[k].action \in {"BAN", "PERMA_BAN"}}
           B == {k \in DOMAIN db.bans : db.bans[k].ipid = s}
<1>1. \A k \in DOMAIN db.bans : db.bans[k] \in BanRow
  BY DEF ModTables
<1>2. \A k \in DOMAIN db.events : db.events[k] \in LogRow
  BY DEF ModTables
<1>3. s \in Speakers
  BY <1>1 DEF BanRow
<1>4. B = {k \in DOMAIN db.bans : db.bans[k] \in BansOn(s)}
  BY <1>1 DEF BansOn
<1>5. E = {k \in DOMAIN db.events : db.events[k] \in EventsOn(s)}
  BY <1>2 DEF EventsOn
<1>6. Count(db.bans, BansOn(s)) <= Count(db.events, EventsOn(s))
  BY <1>3 DEF Logged
<1>7. Cardinality(B) <= Cardinality(E)
  BY <1>4, <1>5, <1>6 DEF Count
<1>8. Cardinality(B) \in Nat /\ Cardinality(E) \in Nat
  <2>1. B \subseteq 1..Len(db.bans) /\ E \subseteq 1..Len(db.events) /\ Len(db.bans) \in Nat /\ Len(db.events) \in Nat
    BY DEF ModTables
  <2> HIDE DEF B, E
  <2>2. IsFiniteSet(B) /\ IsFiniteSet(E)
    <3>1. \A n \in Nat : IsFiniteSet(1..n)
      BY FS_Interval
    <3> QED BY <2>1, <3>1, FS_Subset
  <2> QED BY <2>2, FS_CardinalityType
<1> HIDE DEF B, E
<1>9. Cardinality(E) >= Cardinality(B)
  BY <1>7, <1>8
<1> QED BY <1>9 DEF B, E

\* Whatever is said, by however many speakers and under any thresholds and weights, and whenever the process dies: trust
\* never softens an enforced verdict, an echo is the crowd it says it is, and a content ban on disk has its event.
THEOREM VerdictsAlwaysEarned == ModSpec => []VerdictsEarned
<1>1. DbInit /\ ModInit => VerdictInv
  BY VerdictInitOK
<1>2. VerdictInv /\ [ModNext]_<<dbVars, modVars>> => VerdictInv'
  BY VerdictStep
<1>3. ModSpec => []VerdictInv
  BY <1>1, <1>2, PTL DEF ModSpec
<1>4. CmInv => BanHasEvent
  BY LogWhole, LoggedBans DEF CmInv, CmTypeOK
<1>5. VerdictInv /\ BanHasEvent => VerdictsEarned
  BY DEF VerdictInv, VerdictsEarned
<1> QED BY <1>3, <1>4, <1>5, CmHolds, PTL
=============================================================================
