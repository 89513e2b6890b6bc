-------------------------- MODULE FundingLeaseProofs --------------------------
(***************************************************************************)
(* A market that a row marks as being synchronised has exactly one task    *)
(* that does it.  A task serves the lease it was made for; the argument    *)
(* follows the places where tasks can be, a position of a queue or the     *)
(* wire, through everything that moves a task or changes a row.            *)
(***************************************************************************)
EXTENDS FundingWorkerProofs

-----------------------------------------------------------------------------
(* Leases, and the places where a task of the worker can be *)

Jobs == {"coverage", "incremental"}

Running(row, job) ==
    IF job = "coverage" THEN row.status = "BACKFILLING" ELSE row.incStatus = "RUNNING"

GenOf(row, job) == IF job = "coverage" THEN row.gen ELSE row.incGen

\* t is a task of this job whose lease is the one in row.
Serves(t, row, job) ==
    /\ t.job = job
    /\ IF job = "coverage" THEN HoldsCoverage(row, t) ELSE HoldsIncremental(row, t)

\* A transaction from row r to row s ends the lease of the job, or leaves it as it was.
Keeps(r, s, job) ==
    /\ GenOf(r, job) <= GenOf(s, job)
    /\ Running(s, job) => Running(r, job) /\ \A t \in Task : Serves(t, s, job) <=> Serves(t, r, job)

\* It takes a new one.
Takes(r, s, job) == Running(s, job) /\ GenOf(s, job) > GenOf(r, job)

InQueues(q) == UNION {{c} \X DOMAIN q[c] : c \in CategoryNames}

Places(q, cur) ==
    InQueues(q) \cup (IF cur = NoTask THEN {} ELSE {<<"wire", 0>>})

TaskAt(q, cur, p) == IF p = <<"wire", 0>> THEN cur ELSE q[p[1]][p[2]]

ServesAt(q, cur, p, rs, job, m) ==
    TaskAt(q, cur, p).m = m /\ Serves(TaskAt(q, cur, p), rs[m], job)

\* Exactly one place has a task that serves the lease of m.
Server(q, cur, rs, job, m) ==
    \E p \in Places(q, cur) : \A o \in Places(q, cur) : ServesAt(q, cur, o, rs, job, m) <=> o = p

\* No task is newer than the row of its market, so that the next lease is nobody's.
Old(q, cur, rs) ==
    \A p \in Places(q, cur) : \A job \in Jobs :
        TaskAt(q, cur, p).job = job => TaskAt(q, cur, p).gen <= GenOf(rs[TaskAt(q, cur, p).m], job)

Served(q, cur, rs) ==
    \A m \in Markets : \A job \in Jobs : Running(rs[m], job) => Server(q, cur, rs, job, m)

LeaseInv == Old(queue, current, rows) /\ (life = "running" => Served(queue, current, rows))

Queues == [CategoryNames -> Seq(Task)]

LEMMA InPlaces ==
    ASSUME NEW q, NEW cur, NEW p
    PROVE  p \in Places(q, cur) <=>
             \/ p = <<"wire", 0>> /\ cur # NoTask
             \/ \E c \in CategoryNames : p \in {c} \X DOMAIN q[c]
<1>1. p \in InQueues(q) <=> \E c \in CategoryNames : p \in {c} \X DOMAIN q[c]
  BY Zenon DEF InQueues
<1> QED BY <1>1 DEF Places

LEMMA PlacesTyped ==
    ASSUME NEW q \in Queues, NEW cur \in Task \cup {NoTask}, NEW p \in Places(q, cur)
    PROVE  /\ TaskAt(q, cur, p) \in Task
           /\ \/ p = <<"wire", 0>> /\ cur # NoTask
              \/ /\ p # <<"wire", 0>> /\ p[1] \in CategoryNames /\ p[2] \in DOMAIN q[p[1]]
                 /\ p = <<p[1], p[2]>>
<1>1. CASE p = <<"wire", 0>> /\ cur # NoTask BY <1>1 DEF TaskAt
<1>2. CASE \E c \in CategoryNames : p \in {c} \X DOMAIN q[c]
  <2>1. PICK c \in CategoryNames : p \in {c} \X DOMAIN q[c] BY <1>2
  <2>2. p[1] = c /\ p[2] \in DOMAIN q[c] /\ p = <<p[1], p[2]>> BY <2>1
  <2>3. "wire" \notin CategoryNames BY DEF CategoryNames, Categories
  <2>4. p # <<"wire", 0>> BY <2>1, <2>2, <2>3
  <2>5. q[c] \in Seq(Task) BY DEF Queues
  <2>6. q[c][p[2]] \in Task BY <2>2, <2>5
  <2> QED BY <2>2, <2>4, <2>6 DEF TaskAt
<1> QED BY <1>1, <1>2, InPlaces

LEMMA QueuePlace ==
    ASSUME NEW q, NEW cur, NEW p, p = <<p[1], p[2]>>, p[1] \in CategoryNames, p[2] \in DOMAIN q[p[1]]
    PROVE  p \in Places(q, cur) /\ p # <<"wire", 0>> /\ TaskAt(q, cur, p) = q[p[1]][p[2]]
<1>1. "wire" \notin CategoryNames BY DEF CategoryNames, Categories
<1>2. p # <<"wire", 0>>
  <2>1. <<"wire", 0>>[1] = "wire" OBVIOUS
  <2> QED BY <1>1, <2>1
<1>3. p \in {p[1]} \X DOMAIN q[p[1]] OBVIOUS
<1>4. p \in Places(q, cur) BY <1>3, InPlaces
<1> QED BY <1>2, <1>4 DEF TaskAt

LEMMA WirePlace ==
    ASSUME NEW q, NEW cur, cur # NoTask
    PROVE  <<"wire", 0>> \in Places(q, cur) /\ TaskAt(q, cur, <<"wire", 0>>) = cur
BY InPlaces DEF TaskAt

-----------------------------------------------------------------------------
(* Transactions on a row *)

LEMMA KeepsCoverage ==
    ASSUME NEW r, NEW s, GoodRow(r), GoodRow(s), s.status = r.status, s.gen = r.gen,
           s.kind = r.kind, s.cutoff = r.cutoff, s.required = r.required, s.initial = r.initial
    PROVE  Keeps(r, s, "coverage")
<1>1. r.gen \in Nat BY DEF GoodRow, Row
<1>2. ASSUME NEW x, GoodRow(x), x.status = "BACKFILLING" PROVE AllowsCoverage(x, x.kind, x.gen)
  BY <1>2 DEF GoodRow, Leased, Known
<1>3. ASSUME NEW t \in Task, s.status = "BACKFILLING"
      PROVE  HoldsCoverage(s, t) <=> HoldsCoverage(r, t)
  BY <1>2, <1>3 DEF HoldsCoverage
<1> QED BY <1>1, <1>3 DEF Keeps, Serves, Running, GenOf

LEMMA KeepsIncremental ==
    ASSUME NEW r, NEW s, GoodRow(r), GoodRow(s), s.incStatus = r.incStatus,
           s.incGen = r.incGen, s.frozen = r.frozen
    PROVE  Keeps(r, s, "incremental")
<1>1. r.incGen \in Nat BY DEF GoodRow, Row
<1>2. ASSUME NEW x, GoodRow(x), x.incStatus = "RUNNING" PROVE AllowsIncremental(x)
  BY <1>2 DEF GoodRow, Leased, Known, NoRow
<1>3. ASSUME NEW t \in Task, s.incStatus = "RUNNING"
      PROVE  HoldsIncremental(s, t) <=> HoldsIncremental(r, t)
  BY <1>2, <1>3 DEF HoldsIncremental
<1> QED BY <1>1, <1>3 DEF Keeps, Serves, Running, GenOf

LEMMA EndsLease ==
    ASSUME NEW r, NEW s, NEW job, GenOf(r, job) <= GenOf(s, job), ~Running(s, job)
    PROVE  Keeps(r, s, job)
BY DEF Keeps

\* A task that is not newer than the row does not serve the lease the row takes next.
LEMMA OldServesNot ==
    ASSUME NEW r \in Row, NEW s \in Row, NEW job \in Jobs, Takes(r, s, job),
           NEW t \in Task, t.job = job => t.gen <= GenOf(r, job)
    PROVE  ~Serves(t, s, job)
<1>1. t.gen \in Nat /\ r.gen \in Nat /\ s.gen \in Nat /\ r.incGen \in Nat /\ s.incGen \in Nat
  BY DEF Task, Row
<1>2. CASE job = "coverage" BY <1>1, <1>2 DEF Takes, Serves, HoldsCoverage, GenOf
<1>3. CASE job = "incremental" BY <1>1, <1>3 DEF Takes, Serves, HoldsIncremental, GenOf
<1> QED BY <1>2, <1>3 DEF Jobs

\* Rows change while the tasks stay where they are.
LEMMA OldMoves ==
    ASSUME NEW q \in Queues, NEW cur \in Task \cup {NoTask},
           NEW rs \in [Markets -> Row], NEW ss \in [Markets -> Row],
           \A m \in Markets : \A job \in Jobs : GenOf(rs[m], job) <= GenOf(ss[m], job),
           \A p \in Places(q, cur) : TaskAt(q, cur, p).job \in Jobs => TaskAt(q, cur, p).m \in Markets,
           Old(q, cur, rs)
    PROVE  Old(q, cur, ss)
<1> SUFFICES ASSUME NEW p \in Places(q, cur), NEW job \in Jobs, TaskAt(q, cur, p).job = job
             PROVE  TaskAt(q, cur, p).gen <= GenOf(ss[TaskAt(q, cur, p).m], job)
  BY DEF Old
<1> DEFINE t == TaskAt(q, cur, p)
<1>1. t \in Task /\ t.m \in Markets BY PlacesTyped
<1>2. t.gen <= GenOf(rs[t.m], job) BY DEF Old
<1> HIDE DEF t
<1>3. GenOf(rs[t.m], job) <= GenOf(ss[t.m], job) BY <1>1
<1>4. GenOf(rs[t.m], job) \in Nat /\ GenOf(ss[t.m], job) \in Nat /\ t.gen \in Nat
  <2>1. rs[t.m] \in Row /\ ss[t.m] \in Row BY <1>1
  <2> QED BY <1>1, <2>1 DEF GenOf, Row, Task
<1>5. t.gen <= GenOf(ss[t.m], job) BY <1>2, <1>3, <1>4
<1> QED BY <1>5 DEF t

LEMMA ServerMoves ==
    ASSUME NEW q \in Queues, NEW cur \in Task \cup {NoTask}, NEW rs, NEW ss,
           NEW m \in Markets, NEW job \in Jobs, Keeps(rs[m], ss[m], job), Running(ss[m], job),
           Server(q, cur, rs, job, m)
    PROVE  Server(q, cur, ss, job, m)
<1>1. \A o \in Places(q, cur) : ServesAt(q, cur, o, ss, job, m) <=> ServesAt(q, cur, o, rs, job, m)
  BY PlacesTyped DEF ServesAt, Keeps
<1> QED BY <1>1 DEF Server

LEMMA RowsMove ==
    ASSUME NEW q \in Queues, NEW cur \in Task \cup {NoTask},
           NEW rs \in [Markets -> Row], NEW ss \in [Markets -> Row],
           \A m \in Markets : \A job \in Jobs : Keeps(rs[m], ss[m], job),
           \A p \in Places(q, cur) : TaskAt(q, cur, p).job \in Jobs => TaskAt(q, cur, p).m \in Markets
    PROVE  /\ Old(q, cur, rs) => Old(q, cur, ss)
           /\ Served(q, cur, rs) => Served(q, cur, ss)
<1>1. Old(q, cur, rs) => Old(q, cur, ss) BY OldMoves DEF Keeps
<1>2. ASSUME Served(q, cur, rs) PROVE Served(q, cur, ss)
  BY <1>2, ServerMoves DEF Served, Keeps
<1> QED BY <1>1, <1>2

-----------------------------------------------------------------------------
(* Tasks that move *)

\* Nothing a lease is compared by tells t from u.
SameLease(t, u) ==
    /\ t.job = u.job /\ t.m = u.m /\ t.gen = u.gen /\ t.kind = u.kind
    /\ t.cutoff = u.cutoff /\ t.required = u.required /\ t.initial = u.initial

LEMMA SameLeaseServes ==
    ASSUME NEW t, NEW u, SameLease(t, u), NEW row, NEW job
    PROVE  Serves(t, row, job) <=> Serves(u, row, job)
BY DEF SameLease, Serves, HoldsCoverage, HoldsIncremental

\* The places of the one and of the other correspond.
Match(q, cur, k, nxt, to, back) ==
    /\ to \in [Places(q, cur) -> Places(k, nxt)]
    /\ back \in [Places(k, nxt) -> Places(q, cur)]
    /\ \A p \in Places(q, cur) :
            back[to[p]] = p /\ SameLease(TaskAt(k, nxt, to[p]), TaskAt(q, cur, p))
    /\ \A p \in Places(k, nxt) : to[back[p]] = p

LEMMA PlacesMatch ==
    ASSUME NEW q, NEW cur, NEW k, NEW nxt, NEW to, NEW back, Match(q, cur, k, nxt, to, back),
           NEW rs
    PROVE  /\ Old(q, cur, rs) => Old(k, nxt, rs)
           /\ Served(q, cur, rs) => Served(k, nxt, rs)
<1> USE DEF Match
<1>1. ASSUME Old(q, cur, rs) PROVE Old(k, nxt, rs)
  <2> SUFFICES ASSUME NEW p \in Places(k, nxt), NEW job \in Jobs, TaskAt(k, nxt, p).job = job
               PROVE  TaskAt(k, nxt, p).gen <= GenOf(rs[TaskAt(k, nxt, p).m], job)
    BY DEF Old
  <2>1. back[p] \in Places(q, cur) /\ to[back[p]] = p OBVIOUS
  <2>2. SameLease(TaskAt(k, nxt, p), TaskAt(q, cur, back[p])) BY <2>1
  <2> QED BY <1>1, <2>1, <2>2 DEF Old, SameLease
<1>2. ASSUME NEW m \in Markets, NEW job \in Jobs, Server(q, cur, rs, job, m)
      PROVE  Server(k, nxt, rs, job, m)
  <2>1. PICK p \in Places(q, cur) :
            \A o \in Places(q, cur) : ServesAt(q, cur, o, rs, job, m) <=> o = p
    BY <1>2 DEF Server
  <2>2. ASSUME NEW o \in Places(k, nxt)
        PROVE  ServesAt(k, nxt, o, rs, job, m) <=> o = to[p]
    <3>1. back[o] \in Places(q, cur) /\ to[back[o]] = o OBVIOUS
    <3>2. SameLease(TaskAt(k, nxt, o), TaskAt(q, cur, back[o])) BY <3>1
    <3>3. ServesAt(k, nxt, o, rs, job, m) <=> ServesAt(q, cur, back[o], rs, job, m)
      BY <3>2, SameLeaseServes DEF ServesAt, SameLease
    <3>4. back[o] = p <=> o = to[p] BY <3>1
    <3> QED BY <2>1, <3>1, <3>3, <3>4
  <2>3. to[p] \in Places(k, nxt) OBVIOUS
  <2> QED BY <2>2, <2>3 DEF Server
<1> QED BY <1>1, <1>2 DEF Served

\* The task on the wire becomes another with its lease.
LEMMA WireMoves ==
    ASSUME NEW q \in Queues, NEW cur \in Task, NEW nxt \in Task, SameLease(nxt, cur), NEW rs
    PROVE  /\ Old(q, cur, rs) => Old(q, nxt, rs)
           /\ Served(q, cur, rs) => Served(q, nxt, rs)
<1> DEFINE to == [p \in Places(q, cur) |-> p]
           back == [p \in Places(q, nxt) |-> p]
<1>1. cur # NoTask /\ nxt # NoTask BY NoTaskAssumption
<1>2. Places(q, cur) = Places(q, nxt) BY <1>1 DEF Places
<1>3. /\ to \in [Places(q, cur) -> Places(q, nxt)] /\ back \in [Places(q, nxt) -> Places(q, cur)]
      /\ \A p \in Places(q, nxt) : to[back[p]] = p
  BY <1>2
<1>4. ASSUME NEW p \in Places(q, cur)
      PROVE  back[to[p]] = p /\ SameLease(TaskAt(q, nxt, to[p]), TaskAt(q, cur, p))
  <2>1. to[p] = p /\ back[to[p]] = p BY <1>2
  <2>2. SameLease(TaskAt(q, nxt, p), TaskAt(q, cur, p)) BY DEF TaskAt, SameLease
  <2> QED BY <2>1, <2>2
<1> HIDE DEF to, back
<1>5. Match(q, cur, q, nxt, to, back) BY <1>3, <1>4 DEF Match
<1> QED BY <1>5, PlacesMatch

\* It goes to the back of a queue.
LEMMA WireToQueue ==
    ASSUME NEW q \in Queues, NEW cur \in Task, NEW t \in Task, SameLease(t, cur),
           NEW c \in CategoryNames, NEW k, k = [q EXCEPT ![c] = Append(@, t)], NEW rs
    PROVE  /\ Old(q, cur, rs) => Old(k, NoTask, rs)
           /\ Served(q, cur, rs) => Served(k, NoTask, rs)
<1> DEFINE n == Len(q[c]) + 1
           w == <<"wire", 0>>
           e == <<c, n>>
           to == [p \in Places(q, cur) |-> IF p = w THEN e ELSE p]
           back == [p \in Places(k, NoTask) |-> IF p = e THEN w ELSE p]
<1>1. cur # NoTask BY NoTaskAssumption
<1>2. q[c] \in Seq(Task) /\ k[c] = Append(q[c], t) /\ \A d \in CategoryNames : d # c => k[d] = q[d]
  BY DEF Queues
<1>3. /\ n \in Nat \ {0} /\ DOMAIN k[c] = 1 .. n /\ DOMAIN q[c] = 1 .. n - 1 /\ k[c][n] = t
      /\ \A i \in 1 .. n - 1 : k[c][i] = q[c][i]
  BY <1>2
<1> HIDE DEF n
<1>4. k \in Queues BY <1>2 DEF Queues
<1>5. e \in Places(k, NoTask) /\ TaskAt(k, NoTask, e) = t /\ e # w
  <2>1. e[1] = c /\ e[2] = n /\ e = <<e[1], e[2]>> OBVIOUS
  <2>2. e[1] \in CategoryNames /\ e[2] \in DOMAIN k[e[1]] BY <1>3, <2>1
  <2>3. k[e[1]][e[2]] = t BY <1>3, <2>1
  <2> HIDE DEF e
  <2>4. e \in Places(k, NoTask) /\ e # w /\ TaskAt(k, NoTask, e) = k[e[1]][e[2]]
    BY <2>1, <2>2, QueuePlace
  <2> QED BY <2>3, <2>4
<1>6. w \in Places(q, cur) /\ TaskAt(q, cur, w) = cur /\ e \notin Places(q, cur)
  <2>1. w \in Places(q, cur) /\ TaskAt(q, cur, w) = cur BY <1>1, WirePlace
  <2>2. ASSUME e \in Places(q, cur) PROVE FALSE
    <3>1. e[1] = c /\ e[2] = n OBVIOUS
    <3>2. n \in DOMAIN q[c] BY <1>5, <2>2, <3>1, PlacesTyped
    <3> QED BY <1>3, <3>2
  <2> QED BY <2>1, <2>2
<1>7. ASSUME NEW p, p # w, p # e
      PROVE  /\ p \in Places(q, cur) <=> p \in Places(k, NoTask)
             /\ p \in Places(q, cur) => TaskAt(q, cur, p) = TaskAt(k, NoTask, p)
  <2>1. ASSUME p \in Places(q, cur)
        PROVE  p \in Places(k, NoTask) /\ TaskAt(q, cur, p) = TaskAt(k, NoTask, p)
    <3>1. p[1] \in CategoryNames /\ p[2] \in DOMAIN q[p[1]] /\ p = <<p[1], p[2]>>
      BY <1>7, <2>1, PlacesTyped
    <3>2. p[2] \in DOMAIN k[p[1]] /\ k[p[1]][p[2]] = q[p[1]][p[2]]
      BY <1>2, <1>3, <3>1
    <3>3. p \in Places(k, NoTask) /\ TaskAt(k, NoTask, p) = k[p[1]][p[2]] BY <3>1, <3>2, QueuePlace
    <3>4. TaskAt(q, cur, p) = q[p[1]][p[2]] BY <3>1, QueuePlace
    <3> QED BY <3>2, <3>3, <3>4
  <2>2. ASSUME p \in Places(k, NoTask) PROVE p \in Places(q, cur)
    <3>1. p[1] \in CategoryNames /\ p[2] \in DOMAIN k[p[1]] /\ p = <<p[1], p[2]>>
      BY <1>4, <1>7, <2>2, PlacesTyped
    <3>2. p[2] \in DOMAIN q[p[1]]
      <4>1. CASE p[1] = c
        <5>1. p[2] # n BY <1>7, <3>1, <4>1
        <5> QED BY <1>3, <3>1, <4>1, <5>1
      <4>2. CASE p[1] # c BY <1>2, <3>1, <4>2
      <4> QED BY <4>1, <4>2
    <3> QED BY <3>1, <3>2, QueuePlace
  <2> QED BY <2>1, <2>2
<1>8. w \notin Places(k, NoTask) BY <1>4, PlacesTyped
<1>9. to \in [Places(q, cur) -> Places(k, NoTask)] BY <1>5, <1>6, <1>7
<1>10. back \in [Places(k, NoTask) -> Places(q, cur)] BY <1>6, <1>7, <1>8
<1>11. ASSUME NEW p \in Places(q, cur)
       PROVE  back[to[p]] = p /\ SameLease(TaskAt(k, NoTask, to[p]), TaskAt(q, cur, p))
  <2>1. CASE p = w
    <3>1. to[p] = e /\ back[e] = w BY <1>5, <1>6, <2>1
    <3> QED BY <1>5, <1>6, <2>1, <3>1
  <2>2. CASE p # w
    <3>1. p # e BY <1>6
    <3>2. p \in Places(k, NoTask) /\ TaskAt(q, cur, p) = TaskAt(k, NoTask, p) BY <1>7, <2>2, <3>1
    <3>3. to[p] = p /\ back[p] = p BY <2>2, <3>1, <3>2
    <3> QED BY <3>2, <3>3 DEF SameLease
  <2> QED BY <2>1, <2>2
<1>12. \A p \in Places(k, NoTask) : to[back[p]] = p BY <1>5, <1>6, <1>7, <1>8
<1> HIDE DEF to, back
<1>13. Match(q, cur, k, NoTask, to, back) BY <1>9, <1>10, <1>11, <1>12 DEF Match
<1> QED BY <1>13, PlacesMatch

\* The first task of a queue goes on the wire.
LEMMA QueueToWire ==
    ASSUME NEW q \in Queues, NEW c \in CategoryNames, q[c] # << >>,
           NEW k, k = [q EXCEPT ![c] = Tail(@)], NEW rs
    PROVE  /\ Old(q, NoTask, rs) => Old(k, Head(q[c]), rs)
           /\ Served(q, NoTask, rs) => Served(k, Head(q[c]), rs)
<1> DEFINE n == Len(q[c])
           w == <<"wire", 0>>
           h == Head(q[c])
           to == [p \in Places(q, NoTask) |->
                    IF p[1] # c THEN p ELSE IF p[2] = 1 THEN w ELSE <<c, p[2] - 1>>]
           back == [p \in Places(k, h) |->
                    IF p = w THEN <<c, 1>> ELSE IF p[1] = c THEN <<c, p[2] + 1>> ELSE p]
<1>1. q[c] \in Seq(Task) /\ k[c] = Tail(q[c]) /\ \A d \in CategoryNames : d # c => k[d] = q[d]
  BY DEF Queues
<1>2. /\ n \in Nat \ {0} /\ DOMAIN q[c] = 1 .. n /\ DOMAIN k[c] = 1 .. n - 1
      /\ h = q[c][1] /\ h \in Task /\ k[c] \in Seq(Task)
      /\ \A i \in 1 .. n - 1 : k[c][i] = q[c][i + 1]
  <2>1. n \in Nat \ {0} BY <1>1
  <2>2. DOMAIN q[c] = 1 .. n /\ h = q[c][1] /\ h \in Task BY <1>1, <2>1
  <2>3. Tail(q[c]) \in Seq(Task) /\ DOMAIN Tail(q[c]) = 1 .. n - 1 BY <1>1, <2>1
  <2>4. \A i \in 1 .. n - 1 : Tail(q[c])[i] = q[c][i + 1] BY <1>1, <2>1
  <2> QED BY <1>1, <2>1, <2>2, <2>3, <2>4
<1> HIDE DEF n, h
<1>3. k \in Queues /\ h # NoTask BY <1>1, <1>2, NoTaskAssumption DEF Queues
<1>4. "wire" \notin CategoryNames BY DEF CategoryNames, Categories
<1>5. ASSUME NEW p \in Places(q, NoTask)
      PROVE  /\ to[p] \in Places(k, h) /\ back[to[p]] = p
             /\ TaskAt(k, h, to[p]) = TaskAt(q, NoTask, p)
  <2>1. /\ p[1] \in CategoryNames /\ p[2] \in DOMAIN q[p[1]] /\ p = <<p[1], p[2]>>
        /\ TaskAt(q, NoTask, p) = q[p[1]][p[2]]
    BY <1>3, PlacesTyped, QueuePlace
  <2>2. CASE p[1] # c
    <3>1. to[p] = p BY <2>2
    <3>2. p[2] \in DOMAIN k[p[1]] /\ k[p[1]][p[2]] = q[p[1]][p[2]] BY <1>1, <2>1, <2>2
    <3>3. p \in Places(k, h) /\ p # w /\ TaskAt(k, h, p) = k[p[1]][p[2]] BY <2>1, <3>2, QueuePlace
    <3>4. back[p] = p BY <2>2, <3>3
    <3> QED BY <2>1, <3>1, <3>2, <3>3, <3>4
  <2>3. CASE p[1] = c /\ p[2] = 1
    <3>1. to[p] = w BY <2>3
    <3>2. w \in Places(k, h) /\ TaskAt(k, h, w) = h BY <1>3, WirePlace
    <3>3. back[w] = p BY <2>1, <2>3, <3>2
    <3> QED BY <1>2, <2>1, <2>3, <3>1, <3>2, <3>3
  <2>4. CASE p[1] = c /\ p[2] # 1
    <3> DEFINE i == p[2] - 1
               o == <<c, i>>
    <3>1. i \in DOMAIN k[c] /\ k[c][i] = q[c][p[2]] /\ i + 1 = p[2] BY <1>2, <2>1, <2>4
    <3>2. to[p] = o BY <2>4
    <3>4. o[1] = c /\ o[2] = i /\ o = <<o[1], o[2]>> OBVIOUS
    <3>3. o \in Places(k, h) /\ o # w /\ TaskAt(k, h, o) = k[c][i]
      <4> HIDE DEF o, i
      <4> QED BY <3>1, <3>4, QueuePlace
    <3>5. back[o] = <<c, i + 1>> BY <3>3, <3>4
    <3>6. back[o] = p BY <2>1, <2>4, <3>1, <3>5
    <3> QED BY <2>1, <2>4, <3>1, <3>2, <3>3, <3>6
  <2> QED BY <2>2, <2>3, <2>4
<1>6. ASSUME NEW p \in Places(k, h)
      PROVE  back[p] \in Places(q, NoTask) /\ to[back[p]] = p
  <2>1. CASE p = w
    <3> DEFINE o == <<c, 1>>
    <3>1. back[p] = o BY <2>1
    <3>2. 1 \in DOMAIN q[c] BY <1>2
    <3>4. o[1] = c /\ o[2] = 1 /\ o = <<o[1], o[2]>> OBVIOUS
    <3> HIDE DEF o
    <3>3. o \in Places(q, NoTask) BY <3>2, <3>4, QueuePlace
    <3>5. to[o] = w BY <3>3, <3>4
    <3> QED BY <2>1, <3>1, <3>3, <3>5
  <2>2. CASE p # w
    <3>1. p[1] \in CategoryNames /\ p[2] \in DOMAIN k[p[1]] /\ p = <<p[1], p[2]>>
      BY <1>2, <1>3, <2>2, PlacesTyped
    <3>2. CASE p[1] = c
      <4> DEFINE o == <<c, p[2] + 1>>
      <4>1. back[p] = o BY <2>2, <3>2
      <4>2. p[2] + 1 \in DOMAIN q[c] /\ p[2] + 1 # 1 /\ (p[2] + 1) - 1 = p[2] BY <1>2, <3>1, <3>2
      <4>4. o[1] = c /\ o[2] = p[2] + 1 /\ o = <<o[1], o[2]>> OBVIOUS
      <4> HIDE DEF o
      <4>3. o \in Places(q, NoTask) BY <4>2, <4>4, QueuePlace
      <4>5. to[o] = <<c, p[2]>> BY <4>2, <4>3, <4>4
      <4> QED BY <3>1, <3>2, <4>1, <4>3, <4>5
    <3>3. CASE p[1] # c
      <4>1. back[p] = p BY <2>2, <3>3
      <4>2. p[2] \in DOMAIN q[p[1]] BY <1>1, <3>1, <3>3
      <4>3. p \in Places(q, NoTask) BY <3>1, <4>2, QueuePlace
      <4> QED BY <3>3, <4>1, <4>3
    <3> QED BY <3>2, <3>3
  <2> QED BY <2>1, <2>2
<1>7. to \in [Places(q, NoTask) -> Places(k, h)] BY <1>5
<1>8. back \in [Places(k, h) -> Places(q, NoTask)] BY <1>6
<1>9. \A p \in Places(q, NoTask) :
        back[to[p]] = p /\ SameLease(TaskAt(k, h, to[p]), TaskAt(q, NoTask, p))
  BY <1>5 DEF SameLease
<1>10. \A p \in Places(k, h) : to[back[p]] = p BY <1>6
<1> HIDE DEF to, back
<1> QED
  <2>1. Match(q, NoTask, k, h, to, back) BY <1>7, <1>8, <1>9, <1>10 DEF Match
  <2>2. /\ Old(q, NoTask, rs) => Old(k, h, rs)
        /\ Served(q, NoTask, rs) => Served(k, h, rs)
    BY <2>1, PlacesMatch
  <2> QED BY <2>2 DEF h

\* A task that serves no lease leaves the wire.
LEMMA WireDrops ==
    ASSUME NEW q \in Queues, NEW cur \in Task \cup {NoTask}, NEW rs,
           \A m \in Markets : \A job \in Jobs :
                cur # NoTask /\ Running(rs[m], job) => ~(cur.m = m /\ Serves(cur, rs[m], job))
    PROVE  /\ Old(q, cur, rs) => Old(q, NoTask, rs)
           /\ Served(q, cur, rs) => Served(q, NoTask, rs)
<1>1. ASSUME NEW p
      PROVE  /\ p \in Places(q, NoTask) => p \in Places(q, cur) /\ TaskAt(q, cur, p) = TaskAt(q, NoTask, p)
             /\ p \in Places(q, cur) /\ p # <<"wire", 0>> => p \in Places(q, NoTask)
  <2>1. p \in Places(q, NoTask) => p # <<"wire", 0>> BY PlacesTyped
  <2> QED BY <2>1, InPlaces DEF TaskAt
<1>2. ASSUME Old(q, cur, rs) PROVE Old(q, NoTask, rs) BY <1>1, <1>2 DEF Old
<1>3. ASSUME NEW m \in Markets, NEW job \in Jobs, Running(rs[m], job), Server(q, cur, rs, job, m)
      PROVE  Server(q, NoTask, rs, job, m)
  <2>1. PICK p \in Places(q, cur) :
            \A o \in Places(q, cur) : ServesAt(q, cur, o, rs, job, m) <=> o = p
    BY <1>3 DEF Server
  <2>2. p # <<"wire", 0>>
    <3> SUFFICES ASSUME p = <<"wire", 0>> PROVE FALSE OBVIOUS
    <3>1. cur # NoTask BY PlacesTyped
    <3>2. TaskAt(q, cur, p) = cur BY DEF TaskAt
    <3> QED BY <1>3, <2>1, <3>1, <3>2 DEF ServesAt
  <2>3. p \in Places(q, NoTask) BY <1>1, <2>2
  <2>4. \A o \in Places(q, NoTask) : ServesAt(q, NoTask, o, rs, job, m) <=> o = p
    BY <1>1, <2>1 DEF ServesAt
  <2> QED BY <2>3, <2>4 DEF Server
<1> QED BY <1>2, <1>3 DEF Served

-----------------------------------------------------------------------------
(* Tasks that are added *)

\* The tasks of T were put into the queues, each in one new place.
Grown(q, k, cur, T) ==
    /\ \A p \in Places(q, cur) : p \in Places(k, cur) /\ TaskAt(k, cur, p) = TaskAt(q, cur, p)
    /\ \A p \in Places(k, cur) \ Places(q, cur) : TaskAt(k, cur, p) \in T
    /\ \A t \in T : \E p \in Places(k, cur) \ Places(q, cur) : TaskAt(k, cur, p) = t
    /\ \A p, o \in Places(k, cur) \ Places(q, cur) : TaskAt(k, cur, p) = TaskAt(k, cur, o) => p = o

LEMMA GrownOld ==
    ASSUME NEW q, NEW k, NEW cur, NEW T, NEW rs, Grown(q, k, cur, T), Old(q, cur, rs),
           \A t \in T : \A job \in Jobs : t.job = job => t.gen <= GenOf(rs[t.m], job)
    PROVE  Old(k, cur, rs)
<1> SUFFICES ASSUME NEW p \in Places(k, cur), NEW job \in Jobs, TaskAt(k, cur, p).job = job
             PROVE  TaskAt(k, cur, p).gen <= GenOf(rs[TaskAt(k, cur, p).m], job)
  BY DEF Old
<1>1. CASE p \in Places(q, cur) BY <1>1 DEF Old, Grown
<1>2. CASE p \notin Places(q, cur) BY <1>2 DEF Grown
<1> QED BY <1>1, <1>2

\* None of the new tasks serves the lease: who served it goes on.
LEMMA GrownServer ==
    ASSUME NEW q, NEW k, NEW cur, NEW T, NEW rs, NEW job, NEW m, Grown(q, k, cur, T),
           Server(q, cur, rs, job, m),
           \A t \in T : ~(t.m = m /\ Serves(t, rs[m], job))
    PROVE  Server(k, cur, rs, job, m)
<1>1. PICK p \in Places(q, cur) :
        \A o \in Places(q, cur) : ServesAt(q, cur, o, rs, job, m) <=> o = p
  BY DEF Server
<1>2. p \in Places(k, cur) BY DEF Grown
<1>3. ASSUME NEW o \in Places(k, cur) PROVE ServesAt(k, cur, o, rs, job, m) <=> o = p
  <2>1. CASE o \in Places(q, cur) BY <1>1, <2>1 DEF Grown, ServesAt
  <2>2. CASE o \notin Places(q, cur)
    <3>1. TaskAt(k, cur, o) \in T BY <2>2 DEF Grown
    <3> QED BY <1>1, <2>2, <3>1 DEF ServesAt
  <2> QED BY <2>1, <2>2
<1> QED BY <1>2, <1>3 DEF Server

\* One of them does, and nobody served it before.
LEMMA GrownServes ==
    ASSUME NEW q, NEW k, NEW cur, NEW T, NEW rs, NEW job, NEW m, Grown(q, k, cur, T),
           \A p \in Places(q, cur) : ~ServesAt(q, cur, p, rs, job, m),
           NEW u \in T, u.m = m, Serves(u, rs[m], job),
           \A t \in T : t.m = m /\ Serves(t, rs[m], job) => t = u
    PROVE  Server(k, cur, rs, job, m)
<1>1. PICK p \in Places(k, cur) \ Places(q, cur) : TaskAt(k, cur, p) = u BY DEF Grown
<1>2. ASSUME NEW o \in Places(k, cur) PROVE ServesAt(k, cur, o, rs, job, m) <=> o = p
  <2>1. CASE o \in Places(q, cur)
    <3>1. ~ServesAt(k, cur, o, rs, job, m) BY <2>1 DEF Grown, ServesAt
    <3> QED BY <1>1, <2>1, <3>1
  <2>2. CASE o \notin Places(q, cur)
    <3>1. TaskAt(k, cur, o) \in T BY <2>2 DEF Grown
    <3>2. ServesAt(k, cur, o, rs, job, m) => TaskAt(k, cur, o) = u BY <3>1 DEF ServesAt
    <3>3. TaskAt(k, cur, o) = u => o = p BY <1>1, <2>2 DEF Grown
    <3>4. ServesAt(k, cur, p, rs, job, m) BY <1>1 DEF ServesAt
    <3> QED BY <3>2, <3>3, <3>4
  <2> QED BY <2>1, <2>2
<1> QED BY <1>1, <1>2 DEF Server

\* s lists a, then b.
Joins(a, b, s) ==
    /\ Len(a) \in Nat
    /\ \A i \in DOMAIN a : i \in DOMAIN s /\ s[i] = a[i]
    /\ \A i \in DOMAIN s :
        i \in Nat /\ (i \notin DOMAIN a => i - Len(a) \in DOMAIN b /\ s[i] = b[i - Len(a)])
    /\ \A i \in DOMAIN b :
        Len(a) + i \in DOMAIN s /\ Len(a) + i \notin DOMAIN a /\ s[Len(a) + i] = b[i]

LEMMA Joined ==
    ASSUME NEW A, NEW B, NEW a \in Seq(A), NEW b \in Seq(B)
    PROVE  Joins(a, b, a \o b)
<1> DEFINE s == a \o b
<1>1. /\ Len(a) \in Nat /\ DOMAIN a = 1 .. Len(a)
      /\ Len(b) \in Nat /\ DOMAIN b = 1 .. Len(b)
  OBVIOUS
<1>2. DOMAIN s = 1 .. (Len(a) + Len(b)) BY <1>1
<1>3. ASSUME NEW i \in DOMAIN s
      PROVE  s[i] = IF i <= Len(a) THEN a[i] ELSE b[i - Len(a)]
  BY <1>1, <1>2
<1>4. ASSUME NEW i \in DOMAIN b
      PROVE  /\ Len(a) + i \in DOMAIN s /\ Len(a) + i \notin DOMAIN a
             /\ s[Len(a) + i] = b[i]
  <2>1. Len(a) + i \in DOMAIN s /\ Len(a) + i \notin DOMAIN a /\ ~(Len(a) + i <= Len(a))
        /\ (Len(a) + i) - Len(a) = i
    BY <1>1, <1>2
  <2> QED BY <1>3, <2>1
<1>5. ASSUME NEW i \in DOMAIN s
      PROVE  i \in Nat /\ (i \notin DOMAIN a => i - Len(a) \in DOMAIN b /\ s[i] = b[i - Len(a)])
  BY <1>1, <1>2, <1>3
<1>6. ASSUME NEW i \in DOMAIN a PROVE i \in DOMAIN s /\ s[i] = a[i]
  BY <1>1, <1>2, <1>3
<1> QED BY <1>1, <1>4, <1>5, <1>6 DEF Joins

\* Each queue is extended by a list of its own.
Extends(q, k, T, L) ==
    /\ \A c \in CategoryNames :
        /\ L[c] \in Seq(T) /\ k[c] = q[c] \o L[c]
        /\ \A i \in DOMAIN L[c] : CategoryOf(L[c][i]) = c
        /\ \A i, j \in DOMAIN L[c] : L[c][i] = L[c][j] => i = j
    /\ \A t \in T : \E c \in CategoryNames : \E i \in DOMAIN L[c] : L[c][i] = t

LEMMA QueuesGrow ==
    ASSUME NEW q \in Queues, NEW k \in Queues, NEW cur \in Task \cup {NoTask}, NEW T, NEW L,
           Extends(q, k, T, L)
    PROVE  Grown(q, k, cur, T)
<1>1. ASSUME NEW c \in CategoryNames PROVE Joins(q[c], L[c], k[c])
  <2>1. q[c] \in Seq(Task) /\ L[c] \in Seq(T) /\ k[c] = q[c] \o L[c] BY DEF Queues, Extends
  <2>2. Joins(q[c], L[c], q[c] \o L[c]) BY <2>1, Joined
  <2> QED BY <2>1, <2>2
<1>7. ASSUME NEW c \in CategoryNames, NEW i \in DOMAIN L[c]
      PROVE  /\ L[c][i] \in T /\ CategoryOf(L[c][i]) = c
             /\ \A j \in DOMAIN L[c] : L[c][i] = L[c][j] => i = j
  <2>1. L[c] \in Seq(T) BY DEF Extends
  <2>2. L[c][i] \in T BY <2>1
  <2>3. CategoryOf(L[c][i]) = c BY DEF Extends
  <2>4. \A j \in DOMAIN L[c] : L[c][i] = L[c][j] => i = j BY DEF Extends
  <2> QED BY <2>2, <2>3, <2>4
<1>2. ASSUME NEW p \in Places(q, cur)
      PROVE  p \in Places(k, cur) /\ TaskAt(k, cur, p) = TaskAt(q, cur, p)
  <2>1. CASE p = <<"wire", 0>> /\ cur # NoTask BY <2>1, WirePlace
  <2>2. CASE p # <<"wire", 0>> /\ p[1] \in CategoryNames /\ p[2] \in DOMAIN q[p[1]] /\ p = <<p[1], p[2]>>
    <3>1. p[2] \in DOMAIN k[p[1]] /\ k[p[1]][p[2]] = q[p[1]][p[2]]
      BY <1>1, <2>2 DEF Joins
    <3>2. p \in Places(k, cur) /\ TaskAt(k, cur, p) = k[p[1]][p[2]] BY <2>2, <3>1, QueuePlace
    <3>3. TaskAt(q, cur, p) = q[p[1]][p[2]] BY <2>2, QueuePlace
    <3> QED BY <3>1, <3>2, <3>3
  <2> QED BY <2>1, <2>2, PlacesTyped
<1>3. ASSUME NEW p \in Places(k, cur) \ Places(q, cur)
      PROVE  /\ p[1] \in CategoryNames /\ p = <<p[1], p[2]>>
             /\ p[2] \in Nat /\ p[2] \notin DOMAIN q[p[1]] /\ Len(q[p[1]]) \in Nat
             /\ p[2] - Len(q[p[1]]) \in DOMAIN L[p[1]]
             /\ TaskAt(k, cur, p) = L[p[1]][p[2] - Len(q[p[1]])]
  <2>1. p # <<"wire", 0>>
    <3> SUFFICES ASSUME p = <<"wire", 0>> PROVE FALSE OBVIOUS
    <3>1. cur # NoTask BY PlacesTyped
    <3> QED BY <3>1, WirePlace
  <2>2. p[1] \in CategoryNames /\ p[2] \in DOMAIN k[p[1]] /\ p = <<p[1], p[2]>>
    BY <2>1, PlacesTyped
  <2>3. TaskAt(k, cur, p) = k[p[1]][p[2]] BY <2>2, QueuePlace
  <2>4. p[2] \notin DOMAIN q[p[1]] BY <2>2, QueuePlace
  <2>5. /\ p[2] - Len(q[p[1]]) \in DOMAIN L[p[1]] /\ k[p[1]][p[2]] = L[p[1]][p[2] - Len(q[p[1]])]
        /\ p[2] \in Nat /\ Len(q[p[1]]) \in Nat
    BY <1>1, <2>2, <2>4 DEF Joins
  <2> QED BY <2>2, <2>3, <2>4, <2>5
<1>4. ASSUME NEW p \in Places(k, cur) \ Places(q, cur)
      PROVE  TaskAt(k, cur, p) \in T /\ CategoryOf(TaskAt(k, cur, p)) = p[1]
  <2> DEFINE c == p[1]
             i == p[2] - Len(q[p[1]])
  <2>1. c \in CategoryNames /\ i \in DOMAIN L[c] /\ TaskAt(k, cur, p) = L[c][i] BY <1>3
  <2> HIDE DEF c, i
  <2>2. L[c][i] \in T /\ CategoryOf(L[c][i]) = c BY <1>7, <2>1
  <2> QED BY <2>1, <2>2 DEF c
<1>5. ASSUME NEW t \in T PROVE \E p \in Places(k, cur) \ Places(q, cur) : TaskAt(k, cur, p) = t
  <2>1. PICK c \in CategoryNames : \E i \in DOMAIN L[c] : L[c][i] = t BY DEF Extends
  <2>2. PICK i \in DOMAIN L[c] : L[c][i] = t BY <2>1
  <2> DEFINE j == Len(q[c]) + i
             p == <<c, j>>
  <2>3. j \in DOMAIN k[c] /\ j \notin DOMAIN q[c] /\ k[c][j] = t BY <1>1, <2>2 DEF Joins
  <2> HIDE DEF j
  <2>4. p[1] = c /\ p[2] = j /\ p = <<p[1], p[2]>> OBVIOUS
  <2> HIDE DEF p
  <2>5. p \in Places(k, cur) /\ p # <<"wire", 0>> /\ TaskAt(k, cur, p) = k[c][j]
    BY <2>3, <2>4, QueuePlace
  <2>6. p \notin Places(q, cur) BY <2>3, <2>4, <2>5, PlacesTyped
  <2> QED BY <2>3, <2>5, <2>6
<1>6. ASSUME NEW p \in Places(k, cur) \ Places(q, cur), NEW o \in Places(k, cur) \ Places(q, cur),
             TaskAt(k, cur, p) = TaskAt(k, cur, o)
      PROVE  p = o
  <2>1. p[1] = o[1] BY <1>4, <1>6
  <2> DEFINE c == p[1]
             i == p[2] - Len(q[c])
             j == o[2] - Len(q[c])
  <2>2. /\ c \in CategoryNames /\ i \in DOMAIN L[c] /\ j \in DOMAIN L[c]
        /\ L[c][i] = TaskAt(k, cur, p) /\ L[c][j] = TaskAt(k, cur, o)
    BY <1>3, <2>1
  <2>3. p[2] \in Nat /\ o[2] \in Nat /\ Len(q[c]) \in Nat BY <1>3
  <2>5. i = j
    <3> HIDE DEF c, i, j
    <3> QED BY <1>6, <1>7, <2>2
  <2>4. p[2] = o[2] BY <2>3, <2>5
  <2> QED BY <1>3, <2>1, <2>4
<1> QED BY <1>2, <1>4, <1>5, <1>6 DEF Grown

LEMMA EnqueuedGrows ==
    ASSUME NEW q \in Queues, NEW cur \in Task \cup {NoTask}, NEW rs, \A m \in Markets : rs[m] \in Row,
           NEW C \in SUBSET Markets, NEW I \in SUBSET Markets
    PROVE  /\ Enqueued(q, rs, C, I) \in Queues
           /\ Grown(q, Enqueued(q, rs, C, I), cur, NewTasks(rs, C, I))
<1> DEFINE T == NewTasks(rs, C, I)
           L == [c \in CategoryNames |-> InOrder(OfCategory(T, c))]
           k == Enqueued(q, rs, C, I)
<1>1. k = [c \in CategoryNames |-> q[c] \o InOrder(OfCategory(T, c))]
  BY DEF Enqueued, NewTasks, OfCategory
<1>2. \A t \in T : t \in Task BY NewTaskFields
<1>3. ASSUME NEW c \in CategoryNames
      PROVE  /\ L[c] \in Seq(OfCategory(T, c)) /\ k[c] = q[c] \o L[c]
             /\ \A t \in OfCategory(T, c) : \E i \in DOMAIN L[c] : L[c][i] = t
             /\ \A i, j \in DOMAIN L[c] : L[c][i] = L[c][j] => i = j
  <2>1. OnePerMarket(OfCategory(T, c)) BY NewTasksOnePerMarket
  <2>2. L[c] = InOrder(OfCategory(T, c)) OBVIOUS
  <2>3. k[c] = q[c] \o InOrder(OfCategory(T, c)) BY <1>1
  <2> HIDE DEF T, L, k
  <2> QED BY <2>1, <2>2, <2>3, InOrderListsTasks
<1> HIDE DEF T, L
<1>4. ASSUME NEW c \in CategoryNames
      PROVE  L[c] \in Seq(T) /\ \A i \in DOMAIN L[c] : CategoryOf(L[c][i]) = c
  <2>1. L[c] \in Seq(OfCategory(T, c)) BY <1>3
  <2>2. OfCategory(T, c) \subseteq T BY DEF OfCategory
  <2>3. \A i \in DOMAIN L[c] : L[c][i] \in OfCategory(T, c) BY <2>1
  <2>4. L[c] \in Seq(T) BY <2>1, <2>2
  <2> QED BY <2>3, <2>4 DEF OfCategory
<1>5. k \in Queues
  <2>1. ASSUME NEW c \in CategoryNames PROVE q[c] \o InOrder(OfCategory(T, c)) \in Seq(Task)
    <3>1. q[c] \in Seq(Task) BY DEF Queues
    <3>2. L[c] \in Seq(Task) BY <1>2, <1>4
    <3>3. q[c] \o L[c] \in Seq(Task) BY <3>1, <3>2
    <3>4. L[c] = InOrder(OfCategory(T, c)) BY DEF L
    <3> QED BY <3>3, <3>4
  <2> QED BY <1>1, <2>1 DEF Queues
<1>6. \A t \in T : \E c \in CategoryNames : \E i \in DOMAIN L[c] : L[c][i] = t
  <2> SUFFICES ASSUME NEW t \in T PROVE \E c \in CategoryNames : \E i \in DOMAIN L[c] : L[c][i] = t
    OBVIOUS
  <2>1. CategoryOf(t) \in CategoryNames /\ t \in OfCategory(T, CategoryOf(t))
    BY <1>2, Categorised DEF OfCategory
  <2> QED BY <1>3, <2>1
<1> HIDE DEF k
<1>7. Extends(q, k, T, L) BY <1>3, <1>4, <1>6 DEF Extends
<1> QED BY <1>5, <1>7, QueuesGrow DEF k, T

-----------------------------------------------------------------------------
(* Leases that are taken *)

LEMMA NewTaskServes ==
    ASSUME NEW m \in Markets, NEW r, GoodRow(r)
    PROVE  /\ r.status = "BACKFILLING" => Serves(CoverageTask(m, r), r, "coverage")
           /\ r.incStatus = "RUNNING" => Serves(IncrementalTask(m, r), r, "incremental")
<1>1. r \in Row /\ (Known(r) => Leased(r)) /\ (~Known(r) => r = NoRow) BY DEF GoodRow
<1>2. ASSUME r.status = "BACKFILLING" PROVE Serves(CoverageTask(m, r), r, "coverage")
  <2>1. AllowsCoverage(r, r.kind, r.gen) BY <1>1, <1>2 DEF Known, Leased
  <2> DEFINE t == CoverageTask(m, r)
  <2>2. /\ t.job = "coverage" /\ t.initial = r.initial /\ t.cutoff = r.cutoff
        /\ t.gen = r.gen /\ t.kind = r.kind /\ t.required = r.required
    BY <1>1, CoverageTaskFields
  <2> HIDE DEF t
  <2>3. Serves(t, r, "coverage") BY <1>2, <2>1, <2>2 DEF Serves, HoldsCoverage
  <2> QED BY <2>3 DEF t
<1>3. ASSUME r.incStatus = "RUNNING" PROVE Serves(IncrementalTask(m, r), r, "incremental")
  <2>1. AllowsIncremental(r) BY <1>1, <1>3 DEF Leased, NoRow
  <2> DEFINE t == IncrementalTask(m, r)
  <2>2. t.job = "incremental" /\ t.gen = r.incGen /\ t.required = r.frozen
    BY <1>1, IncrementalTaskFields
  <2> HIDE DEF t
  <2>3. Serves(t, r, "incremental") BY <1>3, <2>1, <2>2 DEF Serves, HoldsIncremental
  <2> QED BY <2>3 DEF t
<1> QED BY <1>2, <1>3

Placed(q, cur) ==
    \A p \in Places(q, cur) : TaskAt(q, cur, p).job \in Jobs => TaskAt(q, cur, p).m \in Markets

\* The markets whose lease of the job is taken.
Taken(job, C, I) == IF job = "coverage" THEN C ELSE I

Leases(rs, ss, C, I) ==
    \A m \in Markets : \A job \in Jobs :
        IF m \in Taken(job, C, I) THEN Takes(rs[m], ss[m], job) ELSE Keeps(rs[m], ss[m], job)

\* The task that serves a lease just taken is the one made for it.
LEMMA NewServer ==
    ASSUME NEW ss, \A m \in Markets : GoodRow(ss[m]), NEW C \in SUBSET Markets,
           NEW I \in SUBSET Markets, NEW job \in Jobs, NEW m \in Taken(job, C, I),
           Running(ss[m], job)
    PROVE  \E u \in NewTasks(ss, C, I) :
                /\ u.m = m /\ Serves(u, ss[m], job)
                /\ \A t \in NewTasks(ss, C, I) : t.m = m /\ Serves(t, ss[m], job) => t = u
<1>1. \A x \in Markets : ss[x] \in Row BY DEF GoodRow
<1>2. CASE job = "coverage"
  <2> DEFINE u == CoverageTask(m, ss[m])
  <2>1. m \in C /\ m \in Markets /\ GoodRow(ss[m]) BY <1>2 DEF Taken
  <2>2. u \in NewTasks(ss, C, I) BY <2>1 DEF NewTasks
  <2>3. u.m = m BY <1>1, <2>1, CoverageTaskFields
  <2>4. Serves(u, ss[m], job) BY <1>2, <2>1, NewTaskServes DEF Running
  <2>5. ASSUME NEW t \in NewTasks(ss, C, I), t.m = m, Serves(t, ss[m], job) PROVE t = u
    <3>1. t.job = "coverage" BY <1>2, <2>5 DEF Serves
    <3> QED BY <1>1, <2>5, <3>1, NewTaskFields
  <2> HIDE DEF u
  <2> QED BY <2>2, <2>3, <2>4, <2>5
<1>3. CASE job = "incremental"
  <2> DEFINE u == IncrementalTask(m, ss[m])
  <2>1. m \in I /\ m \in Markets /\ GoodRow(ss[m]) BY <1>3 DEF Taken
  <2>2. u \in NewTasks(ss, C, I) BY <2>1 DEF NewTasks
  <2>3. u.m = m BY <1>1, <2>1, IncrementalTaskFields
  <2>4. Serves(u, ss[m], job) BY <1>3, <2>1, NewTaskServes DEF Running
  <2>5. ASSUME NEW t \in NewTasks(ss, C, I), t.m = m, Serves(t, ss[m], job) PROVE t = u
    <3>1. t.job = "incremental" BY <1>3, <2>5 DEF Serves
    <3> QED BY <1>1, <2>5, <3>1, NewTaskFields
  <2> HIDE DEF u
  <2> QED BY <2>2, <2>3, <2>4, <2>5
<1> QED BY <1>2, <1>3 DEF Jobs

LEMMA EnqueuedLeases ==
    ASSUME NEW q \in Queues, NEW rs \in [Markets -> Row], NEW ss \in [Markets -> Row],
           \A m \in Markets : GoodRow(ss[m]), NEW C \in SUBSET Markets, NEW I \in SUBSET Markets,
           Placed(q, NoTask), Leases(rs, ss, C, I), Old(q, NoTask, rs),
           \A m \in Markets : \A job \in Jobs :
                m \notin Taken(job, C, I) /\ Running(ss[m], job) => Server(q, NoTask, rs, job, m)
    PROVE  LET k == Enqueued(q, ss, C, I) IN
           k \in Queues /\ Placed(k, NoTask) /\ Old(k, NoTask, ss) /\ Served(k, NoTask, ss)
<1> DEFINE k == Enqueued(q, ss, C, I)
           T == NewTasks(ss, C, I)
<1> SUFFICES k \in Queues /\ Placed(k, NoTask) /\ Old(k, NoTask, ss) /\ Served(k, NoTask, ss)
  OBVIOUS
<1>1. k \in Queues /\ Grown(q, k, NoTask, T) BY EnqueuedGrows
<1>2. \A t \in T :
        /\ t \in Task /\ t.m \in Markets
        /\ \/ t.job = "coverage" /\ t.m \in C /\ t = CoverageTask(t.m, ss[t.m])
           \/ t.job = "incremental" /\ t.m \in I /\ t = IncrementalTask(t.m, ss[t.m])
  BY NewTaskFields
<1>3. ASSUME NEW t \in T, NEW job \in Jobs, t.job = job PROVE t.gen <= GenOf(ss[t.m], job)
  <2>1. t \in Task /\ t.m \in Markets /\ ss[t.m] \in Row BY <1>2
  <2>2. t.gen = GenOf(ss[t.m], job)
    <3>1. CASE t.job = "coverage"
      <4>1. CoverageTask(t.m, ss[t.m]).gen = ss[t.m].gen BY <2>1, CoverageTaskFields
      <4> QED BY <1>2, <1>3, <3>1, <4>1 DEF GenOf
    <3>2. CASE t.job = "incremental"
      <4>1. IncrementalTask(t.m, ss[t.m]).gen = ss[t.m].incGen BY <2>1, IncrementalTaskFields
      <4> QED BY <1>2, <1>3, <3>2, <4>1 DEF GenOf
    <3> QED BY <1>2, <3>1, <3>2
  <2>3. t.gen \in Nat BY <2>1 DEF Task
  <2> QED BY <2>2, <2>3
<1>4. \A m \in Markets : \A job \in Jobs : GenOf(rs[m], job) <= GenOf(ss[m], job)
  <2> SUFFICES ASSUME NEW m \in Markets, NEW job \in Jobs
               PROVE  GenOf(rs[m], job) <= GenOf(ss[m], job)
    OBVIOUS
  <2>1. GenOf(rs[m], job) \in Nat /\ GenOf(ss[m], job) \in Nat BY DEF GenOf, Row
  <2>2. Takes(rs[m], ss[m], job) \/ Keeps(rs[m], ss[m], job) BY DEF Leases
  <2> QED BY <2>1, <2>2 DEF Takes, Keeps
<1>5. Old(q, NoTask, ss)
  <2>1. NoTask \in Task \cup {NoTask} OBVIOUS
  <2> QED BY <1>4, <2>1, OldMoves DEF Placed
<1> HIDE DEF k, T
<1>6. Old(k, NoTask, ss) BY <1>1, <1>3, <1>5, GrownOld
<1>7. Placed(k, NoTask)
  <2> SUFFICES ASSUME NEW p \in Places(k, NoTask), TaskAt(k, NoTask, p).job \in Jobs
               PROVE  TaskAt(k, NoTask, p).m \in Markets
    BY DEF Placed
  <2>1. CASE p \in Places(q, NoTask) BY <1>1, <2>1 DEF Grown, Placed
  <2>2. CASE p \notin Places(q, NoTask)
    <3>1. TaskAt(k, NoTask, p) \in T BY <1>1, <2>2 DEF Grown
    <3> QED BY <1>2, <3>1
  <2> QED BY <2>1, <2>2
<1>8. ASSUME NEW m \in Markets, NEW job \in Jobs, Running(ss[m], job)
      PROVE  Server(k, NoTask, ss, job, m)
  <2>1. CASE m \in Taken(job, C, I)
    <3>1. Takes(rs[m], ss[m], job) BY <2>1 DEF Leases
    <3>2. ASSUME NEW p \in Places(q, NoTask) PROVE ~ServesAt(q, NoTask, p, ss, job, m)
      <4> DEFINE t == TaskAt(q, NoTask, p)
      <4>1. t \in Task BY PlacesTyped
      <4>2. t.job = job => t.gen <= GenOf(rs[t.m], job) BY DEF Old
      <4> HIDE DEF t
      <4>3. t.m = m => ~Serves(t, ss[m], job) BY <3>1, <4>1, <4>2, OldServesNot
      <4> QED BY <4>3 DEF ServesAt, t
    <3>3. PICK u \in T :
            /\ u.m = m /\ Serves(u, ss[m], job)
            /\ \A t \in T : t.m = m /\ Serves(t, ss[m], job) => t = u
      BY <1>8, <2>1, NewServer DEF T
    <3> QED BY <1>1, <3>2, <3>3, GrownServes
  <2>2. CASE m \notin Taken(job, C, I)
    <3>1. Keeps(rs[m], ss[m], job) BY <2>2 DEF Leases
    <3>2. Server(q, NoTask, rs, job, m) BY <1>8, <2>2
    <3>3. Server(q, NoTask, ss, job, m)
      <4>1. NoTask \in Task \cup {NoTask} OBVIOUS
      <4> QED BY <1>8, <3>1, <3>2, <4>1, ServerMoves
    <3>4. ASSUME NEW t \in T PROVE ~(t.m = m /\ Serves(t, ss[m], job))
      BY <1>2, <2>2 DEF Serves, Taken
    <3> QED BY <1>1, <3>3, <3>4, GrownServer
  <2> QED BY <2>1, <2>2
<1> QED BY <1>1, <1>6, <1>7, <1>8 DEF Served

LEMMA PlacedTasks ==
    ASSUME NEW H, NEW n, NEW q \in [CategoryNames -> Seq(GoodTasks(H, n))],
           NEW cur \in GoodTasks(H, n) \cup {NoTask}
    PROVE  q \in Queues /\ cur \in Task \cup {NoTask} /\ Placed(q, cur)
<1> DEFINE G == GoodTasks(H, n)
<1>1. G \subseteq Task /\ \A t \in G : t.job # "discovery" => t.m \in Markets
  BY DEF GoodTasks, GoodTask
<1> HIDE DEF G
<1>2. q \in [CategoryNames -> Seq(G)] /\ cur \in G \cup {NoTask} BY DEF G
<1>3. q \in Queues BY <1>1, <1>2, QueuesPersist DEF Queues
<1>4. cur \in Task \cup {NoTask} BY <1>1, <1>2
<1>5. ASSUME NEW p \in Places(q, cur) PROVE TaskAt(q, cur, p) \in G
  <2>1. CASE p = <<"wire", 0>> /\ cur # NoTask BY <1>2, <2>1 DEF TaskAt
  <2>2. CASE p[1] \in CategoryNames /\ p[2] \in DOMAIN q[p[1]] /\ p = <<p[1], p[2]>>
    <3>1. q[p[1]] \in Seq(G) BY <1>2, <2>2
    <3>2. q[p[1]][p[2]] \in G BY <2>2, <3>1
    <3> QED BY <2>2, <3>2, QueuePlace
  <2> QED BY <1>3, <1>4, <2>1, <2>2, PlacesTyped
<1>6. Placed(q, cur) BY <1>1, <1>5 DEF Placed, Jobs
<1> QED BY <1>3, <1>4, <1>6

-----------------------------------------------------------------------------
(* Rows that keep their leases *)

LEMMA KeepsSelf ==
    ASSUME NEW r, GoodRow(r), NEW job \in Jobs
    PROVE  Keeps(r, r, job)
BY KeepsCoverage, KeepsIncremental DEF Jobs

LEMMA KeepsTask ==
    ASSUME NEW r, NEW s, GoodRow(r), GoodRow(s), SameTask(s, r), SameIncremental(s, r), NEW job \in Jobs
    PROVE  Keeps(r, s, job)
<1>1. Keeps(r, s, "coverage") BY KeepsCoverage DEF SameTask
<1>2. Keeps(r, s, "incremental") BY KeepsIncremental DEF SameIncremental
<1> QED BY <1>1, <1>2 DEF Jobs

LEMMA KeepsCommitted ==
    ASSUME NEW r, GoodRow(r), NEW lo \in Nat, NEW hi \in Nat, GoodRow(CommitCoverage(r, lo, hi)),
           NEW job \in Jobs
    PROVE  Keeps(r, CommitCoverage(r, lo, hi), job)
<1> DEFINE s == CommitCoverage(r, lo, hi)
           w == Widen(r, lo, hi)
<1>1. r \in Row BY DEF GoodRow
<1>2. /\ s.status = r.status /\ s.gen = r.gen /\ s.kind = r.kind /\ s.cutoff = r.cutoff
      /\ s.required = r.required /\ s.initial = r.initial /\ SameIncremental(s, r)
  <2>1. /\ s.status = r.status /\ s.gen = r.gen /\ s.kind = r.kind /\ s.cutoff = r.cutoff
        /\ s.required = r.required /\ s.initial = r.initial /\ SameIncremental(s, w)
    BY <1>1, CommitCoverageFields
  <2>2. SameIncremental(w, r) BY <1>1, WidenFields
  <2> HIDE DEF s, w
  <2> QED BY <2>1, <2>2 DEF SameIncremental
<1> HIDE DEF s
<1>3. GoodRow(s) BY DEF s
<1>4. Keeps(r, s, "coverage") BY <1>2, <1>3, KeepsCoverage
<1>5. Keeps(r, s, "incremental") BY <1>2, <1>3, KeepsIncremental DEF SameIncremental
<1> QED BY <1>4, <1>5 DEF Jobs, s

\* The coverage of r ends.
LEMMA KeepsEnded ==
    ASSUME NEW r, NEW s, GoodRow(r), GoodRow(s), s.status # "BACKFILLING", s.gen = r.gen,
           SameIncremental(s, r), NEW job \in Jobs
    PROVE  Keeps(r, s, job)
<1>1. Keeps(r, s, "coverage")
  <2>1. r.gen \in Nat BY DEF GoodRow, Row
  <2> QED BY <2>1, EndsLease DEF Running, GenOf
<1>2. Keeps(r, s, "incremental") BY KeepsIncremental DEF SameIncremental
<1> QED BY <1>1, <1>2 DEF Jobs

LEMMA KeepsFinished ==
    ASSUME NEW r, GoodRow(r), Known(r), NEW status \in {"IDLE", "INCOMPLETE"}, NEW job \in Jobs
    PROVE  Keeps(r, FinishIncremental(r, status), job)
<1> DEFINE s == FinishIncremental(r, status)
<1>1. r \in Row /\ r.incGen \in Nat BY DEF GoodRow, Row
<1>2. s.incStatus = status /\ s.incGen = r.incGen /\ SameTask(s, r)
  BY <1>1, FinishIncrementalFields
<1>3. GoodRow(s) BY FinishIncrementalGood
<1> HIDE DEF s
<1>4. Keeps(r, s, "coverage") BY <1>2, <1>3, KeepsCoverage DEF SameTask
<1>5. Keeps(r, s, "incremental") BY <1>1, <1>2, EndsLease DEF Running, GenOf
<1> QED BY <1>4, <1>5 DEF Jobs, s

LEMMA KeepsObserved ==
    ASSUME NEW r, GoodRow(r), NEW active \in BOOLEAN, NEW job \in Jobs
    PROVE  Keeps(r, Observe(r, active), job)
<1>1. r \in Row BY DEF GoodRow
<1>2. CASE Known(r) /\ r.active # active
  <2> DEFINE s == Transition(r, active)
  <2>1. Observe(r, active) = s BY <1>2 DEF Observe
  <2>2. /\ s.gen = r.gen + 1
        /\ s.status = (IF StaysPending(r) THEN r.status ELSE "INCOMPLETE")
        /\ s.incStatus = (IF r.incStatus = "RUNNING" THEN "IDLE" ELSE r.incStatus)
        /\ s.incGen = (IF r.incStatus = "RUNNING" THEN r.incGen + 1 ELSE r.incGen)
    BY <1>1, TransitionFields
  <2> HIDE DEF s
  <2>3. r.gen \in Nat /\ r.incGen \in Nat BY <1>1 DEF Row
  <2>4. ~Running(s, "coverage") /\ ~Running(s, "incremental")
    BY <2>2 DEF Running, StaysPending
  <2>5. GenOf(r, "coverage") <= GenOf(s, "coverage") BY <2>2, <2>3 DEF GenOf
  <2>6. GenOf(r, "incremental") <= GenOf(s, "incremental") BY <2>2, <2>3 DEF GenOf
  <2> QED BY <2>1, <2>4, <2>5, <2>6, EndsLease DEF Jobs
<1>3. CASE ~Known(r) /\ active
  <2>1. r = NoRow BY <1>3 DEF GoodRow
  <2>2. Observe(r, active) = NewRow BY <1>3 DEF Observe
  <2>3. GenOf(NoRow, job) <= GenOf(NewRow, job) /\ ~Running(NewRow, job)
    BY DEF GenOf, Running, NewRow, NoRow, Jobs
  <2> QED BY <2>1, <2>2, <2>3, EndsLease
<1>4. CASE Observe(r, active) = r BY <1>4, KeepsSelf
<1> QED BY <1>2, <1>3, <1>4 DEF Observe

GoodRows(rs) == rs \in [Markets -> Row] /\ \A m \in Markets : GoodRow(rs[m])

AllKeep(rs, ss) == \A m \in Markets : \A job \in Jobs : Keeps(rs[m], ss[m], job)

LEMMA OneRowKeeps ==
    ASSUME NEW rs, GoodRows(rs), NEW m \in Markets, NEW r, GoodRow(r),
           \A job \in Jobs : Keeps(rs[m], r, job)
    PROVE  GoodRows([rs EXCEPT ![m] = r]) /\ AllKeep(rs, [rs EXCEPT ![m] = r])
<1> DEFINE ss == [rs EXCEPT ![m] = r]
<1>1. r \in Row BY DEF GoodRow
<1>2. ss \in [Markets -> Row] BY <1>1 DEF GoodRows
<1>3. \A x \in Markets : ss[x] = IF x = m THEN r ELSE rs[x] BY DEF GoodRows
<1> HIDE DEF ss
<1>4. GoodRows(ss) BY <1>2, <1>3 DEF GoodRows
<1>5. AllKeep(rs, ss) BY <1>3, KeepsSelf DEF AllKeep, GoodRows
<1> QED BY <1>4, <1>5 DEF ss

LEMMA SameRowsKeep ==
    ASSUME NEW rs, GoodRows(rs)
    PROVE  AllKeep(rs, rs)
BY KeepsSelf DEF AllKeep, GoodRows

-----------------------------------------------------------------------------
(* Scheduling *)

LEMMA ScheduledLeases ==
    \A rs : \A rp \in Ripe :
        now \in Nat \ {0} /\ GoodRows(rs) /\ GoodRows(RowsScheduled(rs, rp)) =>
            Leases(rs, RowsScheduled(rs, rp), StartedCoverage(rs, rp), StartedIncremental(rs, rp))
<1> SUFFICES ASSUME NEW rs, NEW rp \in Ripe, now \in Nat \ {0}, GoodRows(rs),
                    GoodRows(RowsScheduled(rs, rp)), NEW m \in Markets
             PROVE  /\ IF m \in StartedCoverage(rs, rp)
                       THEN Takes(rs[m], RowsScheduled(rs, rp)[m], "coverage")
                       ELSE Keeps(rs[m], RowsScheduled(rs, rp)[m], "coverage")
                    /\ IF m \in StartedIncremental(rs, rp)
                       THEN Takes(rs[m], RowsScheduled(rs, rp)[m], "incremental")
                       ELSE Keeps(rs[m], RowsScheduled(rs, rp)[m], "incremental")
  BY DEF Leases, Taken, Jobs
<1> DEFINE r == rs[m]
           due == rp[m].coverage
           incDue == rp[m].incremental
           kind == CoverageKindDue(r, due)
           w == IF kind = "none" THEN r ELSE StartCoverage(r, kind, now)
           z == RowsScheduled(rs, rp)[m]
<1>1. z = IF IncrementalDue(r, incDue) THEN StartIncremental(w) ELSE w
  BY DEF RowsScheduled
<1>2. GoodRow(r) /\ r \in Row /\ GoodRow(z) BY DEF GoodRows
<1>3. due \in BOOLEAN /\ incDue \in BOOLEAN BY DEF Ripe
<1>4. /\ m \in StartedCoverage(rs, rp) <=> kind # "none"
      /\ m \in StartedIncremental(rs, rp) <=> IncrementalDue(r, incDue)
  BY DEF StartedCoverage, StartedIncremental
<1>5. /\ w \in Row /\ SameIncremental(w, r)
      /\ kind # "none" => w.status = "BACKFILLING" /\ w.gen = r.gen + 1
      /\ kind = "none" => w = r
  <2>1. CASE kind = "none" BY <1>2, <2>1 DEF SameIncremental
  <2>2. CASE kind # "none"
    <3>1. kind \in CoverageKinds BY <1>2, <1>3, <2>2, DueKindMayStart
    <3>2. w = StartCoverage(r, kind, now) BY <2>2
    <3> HIDE DEF kind, w
    <3> QED BY <1>2, <2>2, <3>1, <3>2, StartCoverageFields
  <2> QED BY <2>1, <2>2
<1> HIDE DEF w, z, kind, due, incDue
<1>6. /\ SameTask(z, w)
      /\ IncrementalDue(r, incDue) => z.incStatus = "RUNNING" /\ z.incGen = r.incGen + 1
      /\ ~IncrementalDue(r, incDue) => SameIncremental(z, r)
  <2>1. CASE IncrementalDue(r, incDue)
    <3>1. z = StartIncremental(w) BY <1>1, <2>1
    <3> QED BY <1>5, <2>1, <3>1, StartIncrementalFields DEF SameIncremental
  <2>2. CASE ~IncrementalDue(r, incDue)
    <3>1. z = w BY <1>1, <2>2
    <3> QED BY <1>5, <2>2, <3>1 DEF SameTask
  <2> QED BY <2>1, <2>2
<1>7. r.gen \in Nat /\ r.incGen \in Nat BY <1>2 DEF Row
<1>8. kind # "none" => Takes(r, z, "coverage")
  BY <1>5, <1>6, <1>7 DEF SameTask, Takes, Running, GenOf
<1>9. kind = "none" => Keeps(r, z, "coverage")
  BY <1>2, <1>5, <1>6, KeepsCoverage DEF SameTask
<1>10. IncrementalDue(r, incDue) => Takes(r, z, "incremental")
  BY <1>6, <1>7 DEF Takes, Running, GenOf
<1>11. ~IncrementalDue(r, incDue) => Keeps(r, z, "incremental")
  BY <1>2, <1>6, KeepsIncremental DEF SameIncremental
<1> QED BY <1>4, <1>8, <1>9, <1>10, <1>11 DEF z, r

LEMMA ScheduleLeases ==
    \A rs, sc : \A rp \in Ripe, q \in Queues :
        /\ now \in Nat \ {0} /\ GoodRows(rs) /\ GoodRows(rows')
        /\ SchedulePersistedWork(rs, rp, sc, q)
        /\ Placed(q, NoTask) /\ Old(q, NoTask, rs) /\ Served(q, NoTask, rs)
        => Old(queue', NoTask, rows') /\ Served(queue', NoTask, rows')
<1> SUFFICES ASSUME NEW rs, NEW sc, NEW rp \in Ripe, NEW q \in Queues,
                    now \in Nat \ {0}, GoodRows(rs), GoodRows(rows'),
                    SchedulePersistedWork(rs, rp, sc, q),
                    Placed(q, NoTask), Old(q, NoTask, rs), Served(q, NoTask, rs)
             PROVE  Old(queue', NoTask, rows') /\ Served(queue', NoTask, rows')
  OBVIOUS
<1> DEFINE C == StartedCoverage(rs, rp)
           I == StartedIncremental(rs, rp)
           ss == RowsScheduled(rs, rp)
<1>1. rows' = ss /\ queue' = Enqueued(q, rows', C, I) BY DEF SchedulePersistedWork
<1>2. C \in SUBSET Markets /\ I \in SUBSET Markets BY DEF StartedCoverage, StartedIncremental
<1>3. Leases(rs, ss, C, I) BY <1>1, ScheduledLeases
<1> HIDE DEF C, I, ss
<1>4. ASSUME NEW m \in Markets, NEW job \in Jobs, m \notin Taken(job, C, I), Running(ss[m], job)
      PROVE  Server(q, NoTask, rs, job, m)
  <2>1. Keeps(rs[m], ss[m], job) BY <1>3, <1>4 DEF Leases
  <2> QED BY <1>4, <2>1 DEF Keeps, Served
<1>5. ss \in [Markets -> Row] /\ rs \in [Markets -> Row] /\ \A m \in Markets : GoodRow(ss[m])
  BY <1>1 DEF GoodRows
<1> DEFINE k == Enqueued(q, ss, C, I)
<1>6. Old(k, NoTask, ss) /\ Served(k, NoTask, ss)
  <2> HIDE DEF k
  <2>1. k = Enqueued(q, ss, C, I) BY DEF k
  <2> QED BY <1>2, <1>3, <1>4, <1>5, <2>1, EnqueuedLeases
<1> QED BY <1>1, <1>6

-----------------------------------------------------------------------------
(* What the root loop does with its task and with the rows *)

LEMMA LeaseParts ==
    ASSUME FundingInv
    PROVE  /\ now \in Nat \ {0} /\ ripe \in Ripe
           /\ GoodRows(rows) /\ rows \in [Markets -> Row]
           /\ queue \in Queues /\ current \in Task \cup {NoTask}
           /\ Placed(queue, current) /\ Placed(queue, NoTask)
<1>1. GoodRows(rows) /\ rows \in [Markets -> Row]
  BY Parts DEF GoodMarkets, GoodMarket, GoodRows
<1>2. queue \in Queues /\ current \in Task \cup {NoTask} /\ Placed(queue, current)
  BY Parts, PlacedTasks
<1>3. Placed(queue, NoTask) BY Parts, PlacedTasks
<1> QED BY <1>1, <1>2, <1>3, Parts

\* A queue on its own is not newer than with the wire.
LEMMA WireOld ==
    ASSUME NEW q \in Queues, NEW cur \in Task \cup {NoTask}, NEW rs, Old(q, cur, rs)
    PROVE  Old(q, NoTask, rs)
<1>1. ASSUME NEW p \in Places(q, NoTask)
      PROVE  p \in Places(q, cur) /\ TaskAt(q, cur, p) = TaskAt(q, NoTask, p)
  <2>1. p # <<"wire", 0>> BY PlacesTyped
  <2> QED BY <2>1, InPlaces DEF TaskAt
<1> QED BY <1>1 DEF Old

LEMMA EmptyOld ==
    ASSUME NEW q \in Queues, NEW cur \in Task \cup {NoTask}, NEW rs, Old(q, cur, rs)
    PROVE  Old(NoQueue, cur, rs) /\ Old(NoQueue, NoTask, rs)
<1>1. NoQueue \in Queues BY EmptyQueues DEF Queues
<1>2. ASSUME NEW p \in Places(NoQueue, cur)
      PROVE  p \in Places(q, cur) /\ TaskAt(q, cur, p) = TaskAt(NoQueue, cur, p)
  <2>1. p = <<"wire", 0>> /\ cur # NoTask
    <3>1. ASSUME p[1] \in CategoryNames, p[2] \in DOMAIN NoQueue[p[1]] PROVE FALSE
      BY <3>1 DEF NoQueue
    <3> QED BY <1>1, <3>1, PlacesTyped
  <2> QED BY <2>1, WirePlace
<1>3. Old(NoQueue, cur, rs) BY <1>2 DEF Old
<1>4. Old(NoQueue, NoTask, rs) BY <1>1, <1>3, WireOld
<1> QED BY <1>3, <1>4

\* The rows of the task on the wire change, and the root goes on with the queues q.
LEMMA RootLeases ==
    \A rs \in [Markets -> Row] : \A sc, t : \A rp \in Ripe, q \in Queues :
        /\ FundingInv /\ FundingInv' /\ now' = now /\ GoodRows(rs) /\ ContinueRoot(rs, rp, sc, t)
        /\ q = IF t = NoTask THEN queue ELSE [queue EXCEPT ![CategoryOf(t)] = Append(@, t)]
        /\ Placed(q, NoTask) /\ Old(queue, NoTask, rs) /\ Old(q, NoTask, rs)
        /\ (life = "running" => Served(q, NoTask, rs))
        => LeaseInv'
<1> SUFFICES ASSUME NEW rs \in [Markets -> Row], NEW sc, NEW t, NEW rp \in Ripe, NEW q \in Queues,
                    FundingInv, FundingInv', now' = now, GoodRows(rs), ContinueRoot(rs, rp, sc, t),
                    q = IF t = NoTask THEN queue ELSE [queue EXCEPT ![CategoryOf(t)] = Append(@, t)],
                    Placed(q, NoTask), Old(queue, NoTask, rs), Old(q, NoTask, rs),
                    life = "running" => Served(q, NoTask, rs)
             PROVE  LeaseInv'
  OBVIOUS
<1>1. current' = NoTask BY DEF ContinueRoot
<1>2. CASE life = "running"
  <2>1. SchedulePersistedWork(rs, rp, sc, q) BY <1>2 DEF ContinueRoot
  <2>2. GoodRows(rows') BY Parts DEF FundingInv, GoodMarkets, GoodMarket, GoodRows
  <2>3. now \in Nat \ {0} BY Parts
  <2>4. Served(q, NoTask, rs) BY <1>2
  <2>5. Old(queue', NoTask, rows') /\ Served(queue', NoTask, rows')
    BY <2>1, <2>2, <2>3, <2>4, ScheduleLeases
  <2> QED BY <1>1, <2>5 DEF LeaseInv
<1>3. CASE life # "running"
  <2>1. rows' = rs /\ queue' = queue /\ life' = "stopped" BY <1>3 DEF ContinueRoot
  <2> QED BY <1>1, <2>1 DEF LeaseInv
<1> QED BY <1>2, <1>3

\* The task on the wire ends, and with it the lease it serves.
LEMMA WireEnds ==
    \A rs, sc : \A rp \in Ripe :
        /\ FundingInv /\ FundingInv' /\ LeaseInv /\ now' = now
        /\ GoodRows(rs) /\ AllKeep(rows, rs) /\ ContinueRoot(rs, rp, sc, NoTask)
        /\ \A job \in Jobs, m \in Markets :
                current # NoTask /\ Running(rs[m], job) =>
                    ~(current.m = m /\ Serves(current, rs[m], job))
        => LeaseInv'
<1> SUFFICES ASSUME NEW rs, NEW sc, NEW rp \in Ripe,
                    FundingInv, FundingInv', LeaseInv, now' = now, GoodRows(rs), AllKeep(rows, rs),
                    ContinueRoot(rs, rp, sc, NoTask),
                    \A job \in Jobs, m \in Markets :
                        current # NoTask /\ Running(rs[m], job) =>
                            ~(current.m = m /\ Serves(current, rs[m], job))
             PROVE  LeaseInv'
  OBVIOUS
<1>1. /\ queue \in Queues /\ current \in Task \cup {NoTask} /\ rows \in [Markets -> Row]
      /\ Placed(queue, current) /\ Placed(queue, NoTask)
  BY LeaseParts
<1>2. rs \in [Markets -> Row] BY DEF GoodRows
<1>3. /\ Old(queue, current, rs)
      /\ life = "running" => Served(queue, current, rs)
  BY <1>1, <1>2, RowsMove DEF AllKeep, Placed, LeaseInv
<1>4. /\ Old(queue, NoTask, rs)
      /\ life = "running" => Served(queue, NoTask, rs)
  BY <1>1, <1>3, WireDrops
<1> QED BY <1>1, <1>2, <1>4, RootLeases

\* The task on the wire goes to the back of its queue and keeps its lease.
LEMMA WireWaits ==
    \A rs, sc : \A rp \in Ripe : \A t \in Task :
        /\ FundingInv /\ FundingInv' /\ LeaseInv /\ now' = now /\ current # NoTask
        /\ GoodRows(rs) /\ AllKeep(rows, rs) /\ ContinueRoot(rs, rp, sc, t)
        /\ SameLease(t, current)
        => LeaseInv'
<1> SUFFICES ASSUME NEW rs, NEW sc, NEW rp \in Ripe, NEW t \in Task,
                    FundingInv, FundingInv', LeaseInv, now' = now, current # NoTask,
                    GoodRows(rs), AllKeep(rows, rs), ContinueRoot(rs, rp, sc, t),
                    SameLease(t, current)
             PROVE  LeaseInv'
  OBVIOUS
<1>1. /\ queue \in Queues /\ current \in Task \cup {NoTask} /\ current \in Task
      /\ rows \in [Markets -> Row] /\ Placed(queue, current)
  BY LeaseParts
<1>2. rs \in [Markets -> Row] BY DEF GoodRows
<1>3. /\ Old(queue, current, rs)
      /\ life = "running" => Served(queue, current, rs)
  BY <1>1, <1>2, RowsMove DEF AllKeep, Placed, LeaseInv
<1> DEFINE c == CategoryOf(t)
           q == [queue EXCEPT ![c] = Append(@, t)]
<1>4. c \in CategoryNames BY Categorised
<1>5. q = IF t = NoTask THEN queue ELSE [queue EXCEPT ![CategoryOf(t)] = Append(@, t)]
  BY NoTaskAssumption
<1> HIDE DEF c
<1>6. q \in Queues
  <2>1. queue[c] \in Seq(Task) BY <1>1, <1>4 DEF Queues
  <2>2. Append(queue[c], t) \in Seq(Task) BY <2>1
  <2> QED BY <1>1, <1>4, <2>2 DEF Queues
<1>7. /\ Old(q, NoTask, rs)
      /\ life = "running" => Served(q, NoTask, rs)
  <2> DEFINE k == q
  <2>1. k = [queue EXCEPT ![c] = Append(@, t)] OBVIOUS
  <2> HIDE DEF k
  <2>2. Old(k, NoTask, rs) /\ (life = "running" => Served(k, NoTask, rs))
    BY <1>1, <1>3, <1>4, <2>1, WireToQueue
  <2> QED BY <2>2 DEF k
<1>8. Old(queue, NoTask, rs) BY <1>1, <1>3, WireOld
<1>9. Placed(q, NoTask)
  <2>1. t.job \in Jobs => t.m \in Markets
    BY <1>1, WirePlace DEF Placed, SameLease
  <2> SUFFICES ASSUME NEW p \in Places(q, NoTask), TaskAt(q, NoTask, p).job \in Jobs
               PROVE  TaskAt(q, NoTask, p).m \in Markets
    BY DEF Placed
  <2>2. /\ p[1] \in CategoryNames /\ p[2] \in DOMAIN q[p[1]] /\ p = <<p[1], p[2]>>
        /\ TaskAt(q, NoTask, p) = q[p[1]][p[2]]
    <3> HIDE DEF q
    <3>1. p[1] \in CategoryNames /\ p[2] \in DOMAIN q[p[1]] /\ p = <<p[1], p[2]>>
      BY <1>6, PlacesTyped
    <3> QED BY <3>1, QueuePlace
  <2>3. CASE q[p[1]][p[2]] = t BY <2>1, <2>2, <2>3
  <2>4. CASE q[p[1]][p[2]] # t
    <3>1. p[2] \in DOMAIN queue[p[1]] /\ queue[p[1]][p[2]] = q[p[1]][p[2]]
      <4>1. CASE p[1] = c
        <5>1. queue[c] \in Seq(Task) /\ q[c] = Append(queue[c], t) BY <1>1, <1>4 DEF Queues
        <5> HIDE DEF q
        <5> QED BY <2>2, <2>4, <4>1, <5>1
      <4>2. CASE p[1] # c BY <1>1, <2>2, <4>2 DEF Queues
      <4> QED BY <4>1, <4>2
    <3>2. p \in Places(queue, current) /\ TaskAt(queue, current, p) = queue[p[1]][p[2]]
      BY <2>2, <3>1, QueuePlace
    <3> QED BY <1>1, <2>2, <3>1, <3>2 DEF Placed
  <2> QED BY <2>3, <2>4
<1> HIDE DEF q
<1> QED BY <1>2, <1>5, <1>6, <1>7, <1>8, <1>9, RootLeases

-----------------------------------------------------------------------------
(* The lease invariant, action by action *)


LEMMA InitLeases == Init => LeaseInv
<1> SUFFICES ASSUME Init PROVE LeaseInv OBVIOUS
<1>1. queue = NoQueue /\ current = NoTask /\ life = "new" BY DEF Init
<1>2. ASSUME NEW p \in Places(queue, current) PROVE FALSE
  <2>1. \A c \in CategoryNames : queue[c] = << >> BY <1>1 DEF NoQueue
  <2> QED BY <1>1, <1>2, <2>1, InPlaces
<1> QED BY <1>1, <1>2 DEF LeaseInv, Old

\* The recovery takes the leases that the last process left behind.
LEMMA RecoveredLeases ==
    ASSUME NEW r, GoodRow(r), GoodRow(Recovered(r))
    PROVE  /\ IF r.status = "BACKFILLING" THEN Takes(r, Recovered(r), "coverage")
              ELSE Keeps(r, Recovered(r), "coverage")
           /\ IF r.incStatus = "RUNNING" THEN Takes(r, Recovered(r), "incremental")
              ELSE Keeps(r, Recovered(r), "incremental")
<1> DEFINE w == IF r.status = "BACKFILLING" THEN ResumeCoverage(r) ELSE r
           z == Recovered(r)
<1>1. z = IF r.incStatus = "RUNNING" THEN StartIncremental(w) ELSE w BY DEF Recovered
<1>2. r \in Row /\ r.gen \in Nat /\ r.incGen \in Nat /\ GoodRow(z) BY DEF GoodRow, Row
<1>3. /\ w \in Row /\ SameIncremental(w, r) /\ w.status = r.status
      /\ r.status = "BACKFILLING" => w.gen = r.gen + 1
      /\ r.status # "BACKFILLING" => w = r
  <2>1. CASE r.status = "BACKFILLING"
    <3>1. w = ResumeCoverage(r) BY <2>1
    <3> HIDE DEF w
    <3> QED BY <1>2, <2>1, <3>1, ResumeCoverageFields
  <2>2. CASE r.status # "BACKFILLING"
    <3>1. w = r BY <2>2
    <3> QED BY <1>2, <2>2, <3>1 DEF SameIncremental
  <2> QED BY <2>1, <2>2
<1> HIDE DEF w, z
<1>4. /\ SameTask(z, w)
      /\ r.incStatus = "RUNNING" => z.incStatus = "RUNNING" /\ z.incGen = r.incGen + 1
      /\ r.incStatus # "RUNNING" => SameIncremental(z, r)
  <2>1. CASE r.incStatus = "RUNNING"
    <3>1. z = StartIncremental(w) BY <1>1, <2>1
    <3> QED BY <1>3, <2>1, <3>1, StartIncrementalFields DEF SameIncremental
  <2>2. CASE r.incStatus # "RUNNING"
    <3>1. z = w BY <1>1, <2>2
    <3> QED BY <1>3, <2>2, <3>1 DEF SameTask
  <2> QED BY <2>1, <2>2
<1>5. r.status = "BACKFILLING" => Takes(r, z, "coverage")
  BY <1>2, <1>3, <1>4 DEF SameTask, Takes, Running, GenOf
<1>6. r.status # "BACKFILLING" => Keeps(r, z, "coverage")
  BY <1>2, <1>3, <1>4, KeepsCoverage DEF SameTask
<1>7. r.incStatus = "RUNNING" => Takes(r, z, "incremental")
  BY <1>2, <1>4 DEF Takes, Running, GenOf
<1>8. r.incStatus # "RUNNING" => Keeps(r, z, "incremental")
  BY <1>2, <1>4, KeepsIncremental DEF SameIncremental
<1> QED BY <1>5, <1>6, <1>7, <1>8 DEF z

\* The queues of a worker that has not scheduled anything but the discovery.
LEMMA FirstQueueEmpty ==
    /\ FirstQueue \in Queues /\ Placed(FirstQueue, NoTask)
    /\ \A rs : Old(FirstQueue, NoTask, rs)
<1>1. FirstQueue \in Queues
  <2>1. <<DiscoveryTask>> \in Seq(Task) BY DiscoveryTaskFields
  <2>2. NoQueue \in Queues BY EmptyQueues DEF Queues
  <2> QED BY <2>1, <2>2 DEF Queues, FirstQueue
<1>2. ASSUME NEW p \in Places(FirstQueue, NoTask)
      PROVE  TaskAt(FirstQueue, NoTask, p).job = "discovery"
  <2>1. /\ p[1] \in CategoryNames /\ p[2] \in DOMAIN FirstQueue[p[1]] /\ p = <<p[1], p[2]>>
        /\ TaskAt(FirstQueue, NoTask, p) = FirstQueue[p[1]][p[2]]
    BY <1>1, PlacesTyped, QueuePlace
  <2>2. FirstQueue[p[1]] = IF p[1] = "discovery" THEN <<DiscoveryTask>> ELSE << >>
    BY <2>1 DEF FirstQueue, NoQueue
  <2>3. FirstQueue[p[1]] = <<DiscoveryTask>> /\ p[2] = 1 BY <2>1, <2>2
  <2> QED BY <2>1, <2>3, DiscoveryTaskFields
<1> QED BY <1>1, <1>2 DEF Placed, Old, Jobs

LEMMA StartLeases == FundingInv /\ FundingInv' /\ Start => LeaseInv'
<1> SUFFICES ASSUME FundingInv, FundingInv', Start PROVE LeaseInv' OBVIOUS
<1> DEFINE C == BackfillingMarkets
           I == Interrupted
           rs == RecoveredRows
           sc == [m \in Markets |-> EmptyScan]
           k == Enqueued(FirstQueue, rs, C, I)
<1>1. /\ life = "new" /\ SchedulePersistedWork(rs, ripe, sc, k)
      /\ UNCHANGED <<now, hist, current, spent>>
  BY StartFields
<1>2. current' = NoTask BY <1>1, Parts DEF Idle
<1>3. GoodRows(rows) /\ ripe \in Ripe /\ now \in Nat \ {0} BY LeaseParts
<1>4. ASSUME NEW m \in Markets PROVE GoodRow(Recovered(rows[m]))
  BY Parts, RecoveredMarketGood DEF GoodMarkets, GoodMarket
<1>5. GoodRows(rs)
  <2>1. \A m \in Markets : Recovered(rows[m]) \in Row BY <1>4 DEF GoodRow
  <2> QED BY <1>4, <2>1 DEF GoodRows, RecoveredRows
<1>6. C \in SUBSET Markets /\ I \in SUBSET Markets BY DEF BackfillingMarkets, Interrupted
<1>7. Leases(rows, rs, C, I)
  <2> SUFFICES ASSUME NEW m \in Markets
               PROVE  /\ IF m \in C THEN Takes(rows[m], rs[m], "coverage")
                         ELSE Keeps(rows[m], rs[m], "coverage")
                      /\ IF m \in I THEN Takes(rows[m], rs[m], "incremental")
                         ELSE Keeps(rows[m], rs[m], "incremental")
    BY DEF Leases, Taken, Jobs
  <2>1. rs[m] = Recovered(rows[m]) BY DEF RecoveredRows
  <2>2. (m \in C <=> rows[m].status = "BACKFILLING") /\ (m \in I <=> rows[m].incStatus = "RUNNING")
    BY DEF BackfillingMarkets, Interrupted
  <2>3. GoodRow(rows[m]) BY <1>3 DEF GoodRows
  <2> HIDE DEF C, I, rs
  <2> QED BY <1>4, <2>1, <2>2, <2>3, RecoveredLeases
<1>8. ASSUME NEW m \in Markets, NEW job \in Jobs, m \notin Taken(job, C, I), Running(rs[m], job)
      PROVE  FALSE
  <2>1. Keeps(rows[m], rs[m], job) BY <1>7, <1>8 DEF Leases
  <2>2. Running(rows[m], job) BY <1>8, <2>1 DEF Keeps
  <2> QED BY <1>8, <2>2 DEF Running, Taken, Jobs, BackfillingMarkets, Interrupted
<1> HIDE DEF C, I, rs, sc
<1>9. k \in Queues /\ Placed(k, NoTask) /\ Old(k, NoTask, rs) /\ Served(k, NoTask, rs)
  <2>1. rows \in [Markets -> Row] /\ rs \in [Markets -> Row] /\ \A m \in Markets : GoodRow(rs[m])
    BY <1>3, <1>5 DEF GoodRows
  <2> HIDE DEF k
  <2>2. k = Enqueued(FirstQueue, rs, C, I) BY DEF k
  <2> QED BY <1>6, <1>7, <1>8, <2>1, <2>2, FirstQueueEmpty, EnqueuedLeases
<1>10. GoodRows(rows') BY Parts DEF FundingInv, GoodMarkets, GoodMarket, GoodRows
<1> HIDE DEF k
<1>11. Old(queue', NoTask, rows') /\ Served(queue', NoTask, rows')
  BY <1>1, <1>3, <1>5, <1>9, <1>10, ScheduleLeases
<1> QED BY <1>2, <1>11 DEF LeaseInv

\* The worker stops, or was not running: no task has to serve anything.
LEMMA StopLeases ==
    ASSUME FundingInv, LeaseInv, RequestStop \/ Crash \/ Fatal
    PROVE  LeaseInv'
<1>1. queue \in Queues /\ current \in Task \cup {NoTask} BY LeaseParts
<1>2. Old(NoQueue, current, rows) /\ Old(NoQueue, NoTask, rows) BY <1>1, EmptyOld DEF LeaseInv
<1>3. queue' = NoQueue /\ rows' = rows /\ life' # "running" /\ (current' = current \/ current' = NoTask)
  BY DEF RequestStop, Crash, Fatal, stored
<1> QED BY <1>2, <1>3 DEF LeaseInv

LEMMA RestLeases ==
    ASSUME FundingInv, LeaseInv,
           UNCHANGED vars \/ Restart \/ Settle
             \/ \E m \in Markets : CoverageElapses(m) \/ IncrementalElapses(m)
    PROVE  LeaseInv'
<1>1. queue' = queue /\ current' = current /\ rows' = rows
  BY DEF vars, Restart, Settle, CoverageElapses, IncrementalElapses, stored, memory
<1>2. life' = "running" => life = "running"
  BY DEF vars, Restart, Settle, CoverageElapses, IncrementalElapses, stored, memory
<1> QED BY <1>1, <1>2 DEF LeaseInv

LEMMA TickLeases == FundingInv /\ LeaseInv /\ DiscoveryTick => LeaseInv'
<1> SUFFICES ASSUME FundingInv, LeaseInv, DiscoveryTick PROVE LeaseInv' OBVIOUS
<1>1. queue \in Queues /\ current \in Task \cup {NoTask} BY LeaseParts
<1>2. /\ queue' = [queue EXCEPT !["discovery"] = Append(@, DiscoveryTask)]
      /\ current' = current /\ rows' = rows /\ life' = life
  BY DEF DiscoveryTick, stored
<1> DEFINE k == queue'
           T == {DiscoveryTask}
           L == [c \in CategoryNames |-> IF c = "discovery" THEN <<DiscoveryTask>> ELSE << >>]
<1>3. "discovery" \in CategoryNames BY DEF CategoryNames, Categories
<1>4. DiscoveryTask \in Task /\ DiscoveryTask.job = "discovery" /\ CategoryOf(DiscoveryTask) = "discovery"
  BY DiscoveryTaskFields DEF CategoryOf
<1>5. ASSUME NEW c \in CategoryNames
      PROVE  /\ L[c] \in Seq(T) /\ queue'[c] = queue[c] \o L[c] /\ queue'[c] \in Seq(Task)
             /\ \A i \in DOMAIN L[c] : CategoryOf(L[c][i]) = c
             /\ \A i, j \in DOMAIN L[c] : L[c][i] = L[c][j] => i = j
  <2>1. queue[c] \in Seq(Task) BY <1>1 DEF Queues
  <2>2. CASE c = "discovery"
    <3>1. L[c] = <<DiscoveryTask>> /\ queue'[c] = Append(queue[c], DiscoveryTask)
      BY <1>1, <1>2, <2>2 DEF Queues
    <3>2. Append(queue[c], DiscoveryTask) = queue[c] \o <<DiscoveryTask>>
      BY <1>4, <2>1
    <3>3. DOMAIN L[c] = {1} /\ L[c][1] = DiscoveryTask BY <3>1
    <3>4. queue'[c] \in Seq(Task) BY <1>4, <2>1, <3>1
    <3>5. L[c] \in Seq(T)
      <4>1. DiscoveryTask \in T OBVIOUS
      <4> HIDE DEF T, L
      <4> QED BY <3>1, <4>1
    <3> HIDE DEF L
    <3> QED BY <1>4, <2>2, <3>1, <3>2, <3>3, <3>4, <3>5
  <2>3. CASE c # "discovery"
    <3>1. L[c] = << >> /\ queue'[c] = queue[c] BY <1>1, <1>2, <2>3 DEF Queues
    <3>2. queue[c] = queue[c] \o << >> BY <2>1
    <3> HIDE DEF T, L
    <3>3. L[c] \in Seq(T) /\ DOMAIN L[c] = {} BY <3>1
    <3> QED BY <2>1, <3>1, <3>2, <3>3
  <2> QED BY <2>2, <2>3
<1>6. \A t \in T : \E c \in CategoryNames : \E i \in DOMAIN L[c] : L[c][i] = t
  <2>1. L["discovery"] = <<DiscoveryTask>> BY <1>3
  <2>2. 1 \in DOMAIN L["discovery"] /\ L["discovery"][1] = DiscoveryTask BY <2>1
  <2> HIDE DEF L
  <2> QED BY <1>3, <2>2
<1>7. queue' \in Queues BY <1>1, <1>2, <1>5 DEF Queues
<1> HIDE DEF T, L
<1>8. Extends(queue, queue', T, L) BY <1>5, <1>6 DEF Extends
<1>9. Grown(queue, queue', current, T) BY <1>1, <1>7, <1>8, QueuesGrow
<1>10. \A t \in T : t.job \notin Jobs BY <1>4 DEF T, Jobs
<1>11. Old(queue', current, rows) BY <1>9, <1>10, GrownOld DEF LeaseInv
<1>12. ASSUME life = "running" PROVE Served(queue', current, rows)
  <2> SUFFICES ASSUME NEW m \in Markets, NEW job \in Jobs, Running(rows[m], job)
               PROVE  Server(queue', current, rows, job, m)
    BY DEF Served
  <2>1. Server(queue, current, rows, job, m) BY <1>12 DEF LeaseInv, Served
  <2>2. \A t \in T : ~(t.m = m /\ Serves(t, rows[m], job)) BY <1>10 DEF Serves
  <2> QED BY <1>9, <2>1, <2>2, GrownServer
<1> QED BY <1>2, <1>11, <1>12 DEF LeaseInv

LEMMA TakeTaskLeases == FundingInv /\ LeaseInv /\ TakeTask => LeaseInv'
<1> SUFFICES ASSUME FundingInv, LeaseInv, TakeTask PROVE LeaseInv' OBVIOUS
<1> DEFINE c == NextCategory
           n == Categories[c]
<1>1. c \in Ready BY NextCategoryReady, Parts DEF TakeTask
<1>2. n \in CategoryNames /\ queue[n] # << >> BY <1>1 DEF Ready, CategoryNames
<1>3. /\ life = "running" /\ life' = life /\ rows' = rows /\ current = NoTask
      /\ queue' = [queue EXCEPT ![n] = Tail(@)] /\ current' = Head(queue[n])
  BY DEF TakeTask, stored
<1> HIDE DEF c, n
<1>4. queue \in Queues BY LeaseParts
<1> DEFINE k == queue'
<1>5. k = [queue EXCEPT ![n] = Tail(@)] BY <1>3
<1> HIDE DEF k
<1>6. /\ Old(queue, NoTask, rows) => Old(k, Head(queue[n]), rows)
      /\ Served(queue, NoTask, rows) => Served(k, Head(queue[n]), rows)
  BY <1>2, <1>4, <1>5, QueueToWire
<1> QED BY <1>3, <1>6 DEF LeaseInv, k

-----------------------------------------------------------------------------
(* Answers *)

\* A task that is superseded, answered by a failed discovery, or canceled by a stop.
LEMMA QuietLeases ==
    ASSUME FundingInv, FundingInv', LeaseInv, DropSuperseded \/ DiscoveryFails \/ Canceled
    PROVE  LeaseInv'
<1>1. now' = now /\ ContinueRoot(rows, ripe, scan, NoTask) /\ GoodRows(rows) /\ ripe \in Ripe
  BY LeaseParts DEF DropSuperseded, DiscoveryFails, Canceled
<1>2. AllKeep(rows, rows) BY <1>1, SameRowsKeep
<1>3. CASE DropSuperseded
  <2>1. ASSUME NEW job \in Jobs, NEW m \in Markets, current.m = m, Serves(current, rows[m], job)
        PROVE  FALSE
    <3>1. ~Holds(current) BY <1>3 DEF DropSuperseded, MayRequest
    <3> QED BY <2>1, <3>1 DEF Serves, Holds, Jobs
  <2> QED BY <1>1, <1>2, <2>1, WireEnds
<1>4. CASE DiscoveryFails
  <2>1. current.job = "discovery" BY <1>4 DEF DiscoveryFails, Asked
  <2>2. \A job \in Jobs, m \in Markets : ~Serves(current, rows[m], job)
    BY <2>1 DEF Serves, Jobs
  <2> QED BY <1>1, <1>2, <2>2, WireEnds
<1>5. CASE Canceled
  <2>1. life # "running" BY <1>5 DEF Canceled
  <2>2. rows' = rows /\ queue' = queue /\ current' = NoTask /\ life' = "stopped"
    BY <1>1, <2>1 DEF ContinueRoot
  <2>3. Old(queue, NoTask, rows) BY LeaseParts, WireOld DEF LeaseInv
  <2> QED BY <2>2, <2>3 DEF LeaseInv
<1> QED BY <1>3, <1>4, <1>5

LEMMA DiscoveryAppliedLeases == FundingInv /\ FundingInv' /\ LeaseInv /\ DiscoveryApplied => LeaseInv'
<1> SUFFICES ASSUME FundingInv, FundingInv', LeaseInv, DiscoveryApplied PROVE LeaseInv' OBVIOUS
<1>1. PICK active \in [Markets -> BOOLEAN] :
        LET flipped == {m \in Markets : Known(rows[m]) /\ rows[m].active # active[m]}
            canceled(m) == m \in flipped /\ rows[m].incStatus = "RUNNING"
            waits(m) == m \in flipped /\ ~StaysPending(rows[m])
        IN /\ Asked("discovery") /\ now' = now
           /\ ContinueRoot(
                [m \in Markets |-> Observe(rows[m], active[m])],
                [m \in Markets |-> [coverage |-> ripe[m].coverage /\ ~waits(m),
                                    incremental |-> ripe[m].incremental /\ ~canceled(m)]],
                [m \in Markets |-> IF m \in flipped THEN EmptyScan ELSE scan[m]],
                NoTask)
  BY DEF DiscoveryApplied
<1> DEFINE flipped == {m \in Markets : Known(rows[m]) /\ rows[m].active # active[m]}
           canceled(m) == m \in flipped /\ rows[m].incStatus = "RUNNING"
           waits(m) == m \in flipped /\ ~StaysPending(rows[m])
           rs == [m \in Markets |-> Observe(rows[m], active[m])]
           rp == [m \in Markets |-> [coverage |-> ripe[m].coverage /\ ~waits(m),
                                     incremental |-> ripe[m].incremental /\ ~canceled(m)]]
           sc == [m \in Markets |-> IF m \in flipped THEN EmptyScan ELSE scan[m]]
<1>2. Asked("discovery") /\ now' = now /\ ContinueRoot(rs, rp, sc, NoTask) BY <1>1
<1> HIDE DEF flipped, canceled, waits
<1>3. rp \in Ripe BY Parts DEF Ripe
<1>4. ASSUME NEW m \in Markets
      PROVE  /\ GoodRow(rows[m]) /\ GoodRow(Observe(rows[m], active[m])) /\ active[m] \in BOOLEAN
  BY Parts, ObservedMarketGood DEF GoodMarkets, GoodMarket
<1>5. GoodRows(rs)
  <2>1. \A m \in Markets : Observe(rows[m], active[m]) \in Row BY <1>4 DEF GoodRow
  <2> QED BY <1>4, <2>1 DEF GoodRows
<1>6. AllKeep(rows, rs) BY <1>4, KeepsObserved DEF AllKeep
<1>7. \A job \in Jobs, m \in Markets : ~Serves(current, rs[m], job)
  BY <1>2 DEF Asked, Serves, Jobs
<1> HIDE DEF rs, rp, sc
<1> QED BY <1>2, <1>3, <1>5, <1>6, <1>7, WireEnds

\* The task of a coverage walk ends with it, whatever the walk came to.
LEMMA CoverageOver ==
    ASSUME FundingInv, FundingInv', LeaseInv, now' = now, Asked("coverage"), NEW r,
           GoodRow(r), r.status # "BACKFILLING", r.gen = rows[current.m].gen,
           SameIncremental(r, rows[current.m]),
           ContinueRoot([rows EXCEPT ![current.m] = r], CoverageWaits(current.m),
                        [scan EXCEPT ![current.m] = EmptyScan], NoTask)
    PROVE  LeaseInv'
<1> DEFINE n == current.m
           rs == [rows EXCEPT ![n] = r]
           sc == [scan EXCEPT ![n] = EmptyScan]
<1>1. n \in Markets BY CoverageHeld
<1>2. GoodRows(rows) /\ rows \in [Markets -> Row] BY LeaseParts
<1>3. CoverageWaits(n) \in Ripe BY <1>1, WaitsTyped
<1>4. \A job \in Jobs : Keeps(rows[n], r, job) BY <1>1, <1>2, KeepsEnded DEF GoodRows
<1>5. GoodRows(rs) /\ AllKeep(rows, rs) BY <1>1, <1>2, <1>4, OneRowKeeps
<1>6. ASSUME NEW job \in Jobs, NEW m \in Markets, current.m = m, Serves(current, rs[m], job)
      PROVE  FALSE
  <2>1. rs[m] = r BY <1>2, <1>6
  <2>2. current.job = "coverage" BY DEF Asked
  <2> QED BY <1>6, <2>1, <2>2 DEF Serves, HoldsCoverage
<1>7. ContinueRoot(rs, CoverageWaits(n), sc, NoTask) OBVIOUS
<1> HIDE DEF rs, sc
<1> QED BY <1>3, <1>5, <1>6, <1>7, WireEnds

LEMMA CoverageFailsLeases == FundingInv /\ FundingInv' /\ LeaseInv /\ CoverageFails => LeaseInv'
<1> SUFFICES ASSUME FundingInv, FundingInv', LeaseInv, CoverageFails PROVE LeaseInv' OBVIOUS
<1> DEFINE n == current.m
           r == FailCoverage(rows[n])
<1>1. /\ Asked("coverage") /\ now' = now
      /\ ContinueRoot([rows EXCEPT ![n] = FailCoverage(@)], CoverageWaits(n),
                      [scan EXCEPT ![n] = EmptyScan], NoTask)
  BY DEF CoverageFails
<1>2. /\ rows[n] \in Row /\ GoodMarket(rows[n], hist[n], now) /\ rows[n].status = "BACKFILLING"
  BY <1>1, CoverageHeld
<1>3. GoodRow(r) BY <1>2, Parts, FailedMarketGood DEF GoodMarket
<1>4. r.status # "BACKFILLING" /\ r.gen = rows[n].gen /\ SameIncremental(r, rows[n])
  BY <1>2, FailCoverageFields
<1>5. [rows EXCEPT ![n] = FailCoverage(@)] = [rows EXCEPT ![n] = r] OBVIOUS
<1> HIDE DEF r
<1> QED BY <1>1, <1>3, <1>4, <1>5, CoverageOver

LEMMA CoverageEmptyPageLeases ==
    FundingInv /\ FundingInv' /\ LeaseInv /\ CoverageEmptyPage => LeaseInv'
<1> SUFFICES ASSUME FundingInv, FundingInv', LeaseInv, CoverageEmptyPage PROVE LeaseInv'
  OBVIOUS
<1> DEFINE t == current
           row == rows[t.m]
           over(r) == ContinueRoot([rows EXCEPT ![t.m] = r], CoverageWaits(t.m),
                                   [scan EXCEPT ![t.m] = EmptyScan], NoTask)
<1>1. Asked("coverage") BY DEF CoverageEmptyPage
<1>2. PICK a \in Answers(t) :
        /\ a.page = {}
        /\ \/ CompletesCoverage(t) /\ over(CompleteCoverage(row))
           \/ RepeatsRound(t) /\ ContinueRoot(rows, ripe, scan, NextRound(t))
           \/ ~CompletesCoverage(t) /\ ~RepeatsRound(t) /\ over(FailCoverage(row))
        /\ UNCHANGED <<now, hist, last>>
  BY <1>1 DEF CoverageEmptyPage
<1>3. /\ t \in Task /\ row \in Row /\ GoodMarket(row, hist[t.m], now)
      /\ row.status = "BACKFILLING" /\ row.cutoff = t.cutoff
  BY <1>1, CoverageHeld
<1>4. now' = now BY <1>2
<1>5. CASE CompletesCoverage(t) /\ over(CompleteCoverage(row))
  <2> DEFINE r == CompleteCoverage(row)
  <2>1. GoodRow(r) BY <1>3, CompleteCoverageGood DEF GoodMarket
  <2>2. r.status # "BACKFILLING" /\ r.gen = row.gen /\ SameIncremental(r, row)
    BY <1>3, CompleteCoverageFields
  <2>3. over(r) BY <1>5
  <2> HIDE DEF r
  <2> QED BY <1>1, <1>4, <2>1, <2>2, <2>3, CoverageOver
<1>6. CASE ~CompletesCoverage(t) /\ ~RepeatsRound(t) /\ over(FailCoverage(row))
  <2> DEFINE r == FailCoverage(row)
  <2>1. GoodRow(r) BY <1>3, Parts, FailedMarketGood DEF GoodMarket
  <2>2. r.status # "BACKFILLING" /\ r.gen = row.gen /\ SameIncremental(r, row)
    BY <1>3, FailCoverageFields
  <2>3. over(r) BY <1>6
  <2> HIDE DEF r
  <2> QED BY <1>1, <1>4, <2>1, <2>2, <2>3, CoverageOver
<1>7. CASE RepeatsRound(t) /\ ContinueRoot(rows, ripe, scan, NextRound(t))
  <2> DEFINE u == NextRound(t)
  <2>1. t.round < 3 BY <1>3, <1>7 DEF RepeatsRound, Task
  <2>2. u \in Task
    <3>1. u \in GoodTasks(hist', now) BY <1>1, <1>2, <2>1, NextRoundGood
    <3> QED BY <3>1 DEF GoodTasks
  <2>3. SameLease(u, t) BY <1>3 DEF NextRound, Task, SameLease
  <2>4. t # NoTask BY <1>1 DEF Asked
  <2>5. GoodRows(rows) /\ AllKeep(rows, rows) /\ ripe \in Ripe BY LeaseParts, SameRowsKeep
  <2>6. ContinueRoot(rows, ripe, scan, u) BY <1>7
  <2> HIDE DEF u
  <2> QED BY <1>4, <2>2, <2>3, <2>4, <2>5, <2>6, WireWaits
<1> QED BY <1>2, <1>5, <1>6, <1>7

LEMMA AdvancedLease ==
    ASSUME NEW t \in Task, NEW n \in Nat, NEW page, page \subseteq 1 .. n, page # {}
    PROVE  Advanced(t, page) \in Task /\ SameLease(Advanced(t, page), t)
BY AdvancedFields DEF SameLease

LEMMA CoveragePageLeases == FundingInv /\ FundingInv' /\ LeaseInv /\ CoveragePage => LeaseInv'
<1> SUFFICES ASSUME FundingInv, FundingInv', LeaseInv, CoveragePage PROVE LeaseInv' OBVIOUS
<1> DEFINE t == current
           n == t.m
<1>1. Asked("coverage") BY DEF CoveragePage
<1>2. PICK a \in Answers(t) :
        /\ a.page # {}
        /\ ContinueRoot([rows EXCEPT ![n] = CommitCoverage(rows[n], Lowest(a.page), Highest(a.page))],
                        ripe, Scanned(t, a.page), Advanced(t, a.page))
        /\ UNCHANGED <<now, last>>
  BY <1>1 DEF CoveragePage
<1> DEFINE page == a.page
           r == CommitCoverage(rows[n], Lowest(page), Highest(page))
           rs == [rows EXCEPT ![n] = r]
           u == Advanced(t, page)
<1>3. page \subseteq 1 .. now /\ (Exchange = "okx" => page = OkxPage(t.after)) BY AnswerFields
<1>4. t \in Task /\ n \in Markets /\ t # NoTask BY <1>1, CoverageHeld DEF Asked
<1>5. GoodRow(r) /\ Lowest(page) \in Nat /\ Highest(page) \in Nat
  BY <1>1, <1>2, <1>3, PageCommitted DEF GoodMarket
<1>6. GoodRows(rows) /\ now \in Nat /\ ripe \in Ripe BY LeaseParts
<1>7. \A job \in Jobs : Keeps(rows[n], r, job)
  <2>1. GoodRow(rows[n]) BY <1>4, <1>6 DEF GoodRows
  <2> HIDE DEF n, page
  <2> QED BY <1>5, <2>1, KeepsCommitted
<1>8. GoodRows(rs) /\ AllKeep(rows, rs)
  <2> HIDE DEF r
  <2> QED BY <1>4, <1>5, <1>6, <1>7, OneRowKeeps
<1>9. u \in Task /\ SameLease(u, t)
  <2> HIDE DEF t, page
  <2>1. page \subseteq 1 .. now /\ page # {} BY <1>2, <1>3 DEF page, t
  <2> QED BY <1>4, <1>6, <2>1, AdvancedLease
<1>10. now' = now /\ ContinueRoot(rs, ripe, Scanned(t, page), u) BY <1>2
<1> HIDE DEF rs, u
<1> QED BY <1>4, <1>6, <1>8, <1>9, <1>10, WireWaits

LEMMA IncrementalPageLeases ==
    FundingInv /\ FundingInv' /\ LeaseInv /\ IncrementalPage => LeaseInv'
<1> SUFFICES ASSUME FundingInv, FundingInv', LeaseInv, IncrementalPage PROVE LeaseInv' OBVIOUS
<1> DEFINE t == current
           n == t.m
           page == PageAt(t)
           lo == Lowest(page)
           hi == Highest(page)
           r == Widen(rows[n], lo, hi)
           rs == [rows EXCEPT ![n] = r]
<1>1. /\ Asked("incremental") /\ page # {} /\ now' = now
      /\ IF t.seen
         THEN /\ current' = [t EXCEPT !.post = TRUE]
              /\ rows' = [rows EXCEPT ![n] = Widen(@, lo, hi)]
              /\ UNCHANGED <<scan, ripe, queue, life>>
         ELSE ContinueRoot([rows EXCEPT ![n] = Widen(@, lo, hi)], ripe, scan, Advanced(t, page))
  BY DEF IncrementalPage
<1>2. /\ t # NoTask /\ t \in Task /\ n \in Markets
      /\ Known(rows[n]) /\ rows[n] \in Row /\ GoodRow(rows[n])
  BY <1>1, IncrementalHeld DEF Asked, GoodMarket
<1>3. page \subseteq 1 .. now BY DEF PageAt, BitgetPage, OkxPage
<1>4. GoodRows(rows) /\ now \in Nat /\ ripe \in Ripe /\ rows \in [Markets -> Row] BY LeaseParts
<1>5. lo \in Nat \ {0} /\ hi \in Nat /\ lo <= hi
  <2>1. lo \in page /\ hi \in page /\ lo <= hi BY <1>1, <1>3, <1>4, PageBounds
  <2>2. lo \in 1 .. now /\ hi \in 1 .. now BY <1>3, <2>1
  <2> QED BY <1>4, <2>1, <2>2
<1>6. [rows EXCEPT ![n] = Widen(@, lo, hi)] = rs OBVIOUS
<1> HIDE DEF n, page, lo, hi
<1>7. GoodRow(r) BY <1>2, <1>5, WidenGood
<1>8. SameTask(r, rows[n]) /\ SameIncremental(r, rows[n]) BY <1>2, <1>5, WidenFields
<1> HIDE DEF r
<1>9. \A job \in Jobs : Keeps(rows[n], r, job) BY <1>2, <1>7, <1>8, KeepsTask
<1>10. GoodRows(rs) /\ AllKeep(rows, rs) BY <1>2, <1>4, <1>7, <1>9, OneRowKeeps
<1> HIDE DEF rs
<1>11. CASE t.seen
  <2> DEFINE u == [t EXCEPT !.post = TRUE]
  <2>1. u \in Task BY <1>2 DEF Task
  <2>2. SameLease(u, t) BY <1>2 DEF Task, SameLease
  <2>3. current' = u /\ rows' = rs /\ queue' = queue /\ life' = life BY <1>1, <1>6, <1>11
  <2> HIDE DEF u
  <2>4. queue \in Queues /\ current \in Task \cup {NoTask} /\ Placed(queue, current) BY LeaseParts
  <2>5. /\ Old(queue, t, rs)
        /\ life = "running" => Served(queue, t, rs)
    BY <1>4, <1>10, <2>4, RowsMove DEF GoodRows, AllKeep, Placed, LeaseInv
  <2>6. /\ Old(queue, u, rs)
        /\ life = "running" => Served(queue, u, rs)
    BY <1>2, <2>1, <2>2, <2>4, <2>5, WireMoves
  <2> QED BY <2>3, <2>6 DEF LeaseInv
<1>12. CASE ~t.seen
  <2> DEFINE u == Advanced(t, page)
  <2>1. u \in Task /\ SameLease(u, t) BY <1>1, <1>2, <1>3, <1>4, AdvancedLease
  <2>2. ContinueRoot(rs, ripe, scan, u) BY <1>1, <1>6, <1>12
  <2> HIDE DEF u
  <2> QED BY <1>1, <1>2, <1>4, <1>10, <2>1, <2>2, WireWaits
<1> QED BY <1>11, <1>12

\* The task of an incremental walk ends with it.
LEMMA IncrementalOver ==
    ASSUME FundingInv, FundingInv', LeaseInv, now' = now,
           current # NoTask, current.job = "incremental", MayRequest(current),
           NEW status \in {"IDLE", "INCOMPLETE"},
           ContinueRoot([rows EXCEPT ![current.m] = FinishIncremental(@, status)],
                        IncrementalWaits(current.m), scan, NoTask)
    PROVE  LeaseInv'
<1> DEFINE n == current.m
           r == FinishIncremental(rows[n], status)
           rs == [rows EXCEPT ![n] = r]
<1>1. /\ n \in Markets /\ Known(rows[n]) /\ rows[n] \in Row /\ GoodRow(rows[n])
  BY IncrementalHeld DEF GoodMarket
<1>2. GoodRows(rows) /\ rows \in [Markets -> Row] BY LeaseParts
<1>3. IncrementalWaits(n) \in Ripe BY <1>1, WaitsTyped
<1>4. GoodRow(r) BY <1>1, FinishIncrementalGood
<1>5. r.incStatus # "RUNNING" BY <1>1, FinishIncrementalFields
<1>6. \A job \in Jobs : Keeps(rows[n], r, job) BY <1>1, KeepsFinished
<1>7. [rows EXCEPT ![n] = FinishIncremental(@, status)] = rs OBVIOUS
<1> HIDE DEF r
<1>8. GoodRows(rs) /\ AllKeep(rows, rs) BY <1>1, <1>2, <1>4, <1>6, OneRowKeeps
<1>9. ASSUME NEW job \in Jobs, NEW m \in Markets, current.m = m, Serves(current, rs[m], job)
      PROVE  FALSE
  <2>1. rs[m] = r BY <1>2, <1>9
  <2> QED BY <1>5, <1>9, <2>1 DEF Serves, HoldsIncremental
<1> HIDE DEF rs
<1> QED BY <1>3, <1>7, <1>8, <1>9, WireEnds

LEMMA NextKeepsLeases == FundingInv /\ FundingInv' /\ LeaseInv /\ [Next]_vars => LeaseInv'
<1> SUFFICES ASSUME FundingInv, FundingInv', LeaseInv, [Next]_vars PROVE LeaseInv' OBVIOUS
<1>1. CASE UNCHANGED vars \/ Restart \/ Settle
             \/ \E m \in Markets : CoverageElapses(m) \/ IncrementalElapses(m)
  BY <1>1, RestLeases
<1>2. CASE Start BY <1>2, StartLeases
<1>3. CASE RequestStop \/ Crash \/ Fatal BY <1>3, StopLeases
<1>4. CASE DiscoveryTick BY <1>4, TickLeases
<1>5. CASE TakeTask BY <1>5, TakeTaskLeases
<1>6. CASE DropSuperseded \/ DiscoveryFails \/ Canceled BY <1>6, QuietLeases
<1>7. CASE CoveragePage BY <1>7, CoveragePageLeases
<1>8. CASE CoverageEmptyPage BY <1>8, CoverageEmptyPageLeases
<1>9. CASE CoverageFails BY <1>9, CoverageFailsLeases
<1>10. CASE IncrementalPage BY <1>10, IncrementalPageLeases
<1>11. CASE IncrementalEnds
  <2>1. "IDLE" \in {"IDLE", "INCOMPLETE"} OBVIOUS
  <2> QED BY <1>11, <2>1, IncrementalOver DEF IncrementalEnds
<1>12. CASE IncrementalFails
  <2>1. "INCOMPLETE" \in {"IDLE", "INCOMPLETE"} OBVIOUS
  <2> QED BY <1>12, <2>1, IncrementalOver DEF IncrementalFails
<1>13. CASE DiscoveryApplied BY <1>13, DiscoveryAppliedLeases
<1> QED
  BY <1>1, <1>2, <1>3, <1>4, <1>5, <1>6, <1>7, <1>8, <1>9, <1>10, <1>11, <1>12, <1>13
  DEF Next, Work

LEMMA LeaseInvariant == Spec => []LeaseInv
<1>1. Init => LeaseInv BY InitLeases
<1>2. FundingInv /\ FundingInv' /\ LeaseInv /\ [Next]_vars => LeaseInv' BY NextKeepsLeases
<1> QED BY <1>1, <1>2, FundingInvariant, PTL DEF Spec

-----------------------------------------------------------------------------
(* The theorem *)

\* A queue position or the wire holds a lease just when its task serves it.
LEMMA HoldersArePlaces ==
    ASSUME NEW m \in Markets, NEW job \in Jobs, queue \in Queues, current \in Task \cup {NoTask}
    PROVE  Holders(job, m) =
             {p \in Places(queue, current) : ServesAt(queue, current, p, rows, job, m)}
<1> DEFINE holds(t) == t.job = job /\ t.m = m /\ Holds(t)
           A == {w \in InQueues(queue) : holds(queue[w[1]][w[2]])}
           B == {w \in {<<"wire", 0>>} : current # NoTask /\ holds(current)}
           S == {p \in Places(queue, current) : ServesAt(queue, current, p, rows, job, m)}
<1>1. Holders(job, m) = A \cup B BY DEF Holders, InQueues
<1>2. ASSUME NEW t PROVE holds(t) <=> t.m = m /\ Serves(t, rows[m], job)
  <2>1. CASE job = "coverage" BY <2>1 DEF Holds, Serves
  <2>2. CASE job = "incremental" BY <2>2 DEF Holds, Serves
  <2> QED BY <2>1, <2>2 DEF Jobs
<1> HIDE DEF holds
<1>3. ASSUME NEW p PROVE p \in A \cup B <=> p \in S
  <2>1. CASE p = <<"wire", 0>>
    <3>1. p \notin InQueues(queue)
      <4>1. "wire" \notin CategoryNames BY DEF CategoryNames, Categories
      <4>2. ASSUME NEW c \in CategoryNames, p \in {c} \X DOMAIN queue[c] PROVE FALSE
        <5>1. p[1] = c BY <4>2
        <5> QED BY <2>1, <4>1, <5>1
      <4> QED BY <4>2, Zenon DEF InQueues
    <3>2. p \in S <=> current # NoTask /\ current.m = m /\ Serves(current, rows[m], job)
      BY <2>1, <3>1 DEF Places, ServesAt, TaskAt
    <3> QED BY <1>2, <2>1, <3>1, <3>2
  <2>2. CASE p # <<"wire", 0>>
    <3>1. p \in Places(queue, current) <=> p \in InQueues(queue) BY <2>2 DEF Places
    <3>2. TaskAt(queue, current, p) = queue[p[1]][p[2]] BY <2>2 DEF TaskAt
    <3> QED BY <1>2, <2>2, <3>1, <3>2 DEF ServesAt
  <2> QED BY <2>1, <2>2
<1> HIDE DEF A, B, S
<1>4. A \cup B = S BY <1>3
<1> QED BY <1>1, <1>4 DEF S

\* A lease of a running worker is in the hands of exactly one task, in a queue or on the wire:
\* whatever the recovery, the scheduler, a discovery or a page did before.
THEOREM LeasesHaveOneTask == Spec => []OneTaskPerLease
<1>1. FundingInv /\ LeaseInv => OneTaskPerLease
  <2> SUFFICES ASSUME FundingInv, LeaseInv, life = "running", NEW m \in Markets,
                      NEW job \in Jobs, Running(rows[m], job)
               PROVE  Cardinality(Holders(job, m)) = 1
    BY DEF OneTaskPerLease, Running, Jobs
  <2>1. queue \in Queues /\ current \in Task \cup {NoTask} BY LeaseParts
  <2>2. Server(queue, current, rows, job, m) BY DEF LeaseInv, Served
  <2>3. PICK p \in Places(queue, current) :
            \A o \in Places(queue, current) : ServesAt(queue, current, o, rows, job, m) <=> o = p
    BY <2>2 DEF Server
  <2>4. Holders(job, m) = {p} BY <2>1, <2>3, HoldersArePlaces
  <2> QED BY <2>4, FS_Singleton
<1> QED BY <1>1, LeaseInvariant, FundingInvariant, PTL
=============================================================================
