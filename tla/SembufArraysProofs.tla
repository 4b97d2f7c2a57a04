------------------------- MODULE SembufArraysProofs -------------------------
(***************************************************************************)
(* The summaries that semop() is modelled with are what the arrays of      *)
(* common.c do, on every value of a semaphore set.                         *)
(***************************************************************************)
EXTENDS SembufArrays, TLAPS

\* A run that has performed all its sembufs so far, with its values and account.
Done(v, d) == [val |-> v, adj |-> d, res |-> "done"]

\* A sembuf that adds n to x cannot be performed on the values v.
Blocks(v, x, n) == (n = 0 /\ v[x] # 0) \/ v[x] + n < 0

\* What a sembuf with the flags flg returns when it cannot be performed, and the
\* account once it has been.
Failure(flg) == IF "IPC_NOWAIT" \in flg THEN "eagain" ELSE "sleep"

Charged(d, x, n, flg) == IF "SEM_UNDO" \in flg THEN [d EXCEPT ![x] = @ - n] ELSE d

\* The run st got as far as the values v and the account d, or stopped with the
\* result nw.
Reached(st, v, d, nw) == st.res \in {"done", nw} /\ (st.res = "done" => st = Done(v, d))

\* The run next is st with one sembuf more.
Extends(next, st, v, x, n, w, e, nw) ==
  /\ next.res = "done" <=> (st.res = "done" /\ ~Blocks(v, x, n))
  /\ Reached(next, w, e, nw)

\* One sembuf more, performed or not.
LEMMA OneMoreSembuf ==
  ASSUME NEW st, NEW v \in [Sems -> Int], NEW d \in [Sems -> Int],
         NEW nw \in {"sleep", "eagain"}, Reached(st, v, d, nw),
         NEW x \in Sems, NEW n \in Int, NEW flg,
         Blocks(v, x, n) => nw = Failure(flg),
         NEW w, w = [v EXCEPT ![x] = @ + n]
  PROVE  LET next == OneSembuf(st, Sembuf(x, n, flg))
         IN  Extends(next, st, v, x, n, w, Charged(d, x, n, flg), nw)
<1> USE DEF Reached, Extends, Failure, Charged
<1> DEFINE s == Sembuf(x, n, flg)
           next == OneSembuf(st, s)
<1>1. s.num = x /\ s.op = n /\ s.flg = flg
  BY DEF Sembuf
<1>2. CASE st.res # "done"
  <2>1. next = st
    BY <1>2 DEF OneSembuf
  <2> QED BY <1>2, <2>1
<1>3. CASE st.res = "done"
  <2>1. st = Done(v, d)
    BY <1>3
  <2>2. st.val = v /\ st.adj = d
    BY <2>1 DEF Done
  <2>3. CASE Blocks(v, x, n)
    <3>1. next = [st EXCEPT !.res = IF "IPC_NOWAIT" \in flg THEN "eagain" ELSE "sleep"]
      BY <1>1, <1>3, <2>2, <2>3 DEF OneSembuf, Blocks
    <3>2. next.res = nw
      BY <2>1, <2>3, <3>1 DEF Done
    <3> QED BY <2>3, <3>2
  <2>4. CASE ~Blocks(v, x, n)
    <3>1. next = [val |-> [v EXCEPT ![x] = @ + n],
                  adj |-> IF "SEM_UNDO" \in flg THEN [d EXCEPT ![x] = @ - n] ELSE d,
                  res |-> "done"]
      BY <1>1, <1>3, <2>2, <2>4 DEF OneSembuf, Blocks
    <3>2. next = Done([v EXCEPT ![x] = @ + n],
                      IF "SEM_UNDO" \in flg THEN [d EXCEPT ![x] = @ - n] ELSE d)
      BY <3>1 DEF Done
    <3>3. next.res = "done"
      BY <3>1
    <3> QED BY <1>3, <2>4, <3>2, <3>3
  <2> QED BY <2>3, <2>4
<1> QED BY <1>2, <1>3

\* The same for each of the flags that common.c uses.
LEMMA PlainSembuf ==
  ASSUME NEW st, NEW v \in [Sems -> Int], NEW d \in [Sems -> Int],
         NEW nw \in {"sleep", "eagain"}, Reached(st, v, d, nw),
         NEW x \in Sems, NEW n \in Int, Blocks(v, x, n) => nw = "sleep",
         NEW w, w = [v EXCEPT ![x] = @ + n]
  PROVE  Extends(OneSembuf(st, Sembuf(x, n, {})), st, v, x, n, w, d, nw)
<1> DEFINE flg == {}
<1>1. Blocks(v, x, n) => nw = Failure(flg)
  BY DEF Failure
<1>2. d = Charged(d, x, n, flg)
  BY DEF Charged
<1> HIDE DEF flg
<1>3. Extends(OneSembuf(st, Sembuf(x, n, flg)), st, v, x, n, w,
             Charged(d, x, n, flg), nw)
  BY <1>1, OneMoreSembuf, Zenon
<1> QED BY <1>2, <1>3 DEF flg

LEMMA UndoSembuf ==
  ASSUME NEW st, NEW v \in [Sems -> Int], NEW d \in [Sems -> Int],
         NEW nw \in {"sleep", "eagain"}, Reached(st, v, d, nw),
         NEW x \in Sems, NEW n \in Int, Blocks(v, x, n) => nw = "sleep",
         NEW w, w = [v EXCEPT ![x] = @ + n], NEW e, e = [d EXCEPT ![x] = @ - n]
  PROVE  Extends(OneSembuf(st, Sembuf(x, n, {"SEM_UNDO"})), st, v, x, n, w, e, nw)
<1> DEFINE flg == {"SEM_UNDO"}
<1>1. Blocks(v, x, n) => nw = Failure(flg)
  BY DEF Failure
<1>2. e = Charged(d, x, n, flg)
  BY DEF Charged
<1> HIDE DEF flg
<1>3. Extends(OneSembuf(st, Sembuf(x, n, flg)), st, v, x, n, w,
             Charged(d, x, n, flg), nw)
  BY <1>1, OneMoreSembuf, Zenon
<1> QED BY <1>2, <1>3 DEF flg

LEMMA NowaitSembuf ==
  ASSUME NEW st, NEW v \in [Sems -> Int], NEW d \in [Sems -> Int],
         NEW nw \in {"sleep", "eagain"}, Reached(st, v, d, nw),
         NEW x \in Sems, NEW n \in Int, Blocks(v, x, n) => nw = "eagain",
         NEW w, w = [v EXCEPT ![x] = @ + n]
  PROVE  Extends(OneSembuf(st, Sembuf(x, n, {"IPC_NOWAIT"})), st, v, x, n, w, d, nw)
<1> DEFINE flg == {"IPC_NOWAIT"}
<1>1. Blocks(v, x, n) => nw = Failure(flg)
  BY DEF Failure
<1>2. d = Charged(d, x, n, flg)
  BY DEF Charged
<1> HIDE DEF flg
<1>3. Extends(OneSembuf(st, Sembuf(x, n, flg)), st, v, x, n, w,
             Charged(d, x, n, flg), nw)
  BY <1>1, OneMoreSembuf, Zenon
<1> QED BY <1>2, <1>3 DEF flg

\* The runs of one to four sembufs.
Run0 == Done(val, NoSems)
Run1(s) == OneSembuf(Run0, s)
Run2(s, t) == OneSembuf(Run1(s), t)
Run3(s, t, u) == OneSembuf(Run2(s, t), u)
Run4(s, t, u, w) == OneSembuf(Run3(s, t, u), w)

\* Run is one of them, as many sembufs as the array has.
LEMMA Runs ==
  ASSUME NEW a \in DOMAIN Arrays
  PROVE  /\ \A s : Arrays[a] = <<s>> => Run(a, val) = Run1(s)
         /\ \A s, t : Arrays[a] = <<s, t>> => Run(a, val) = Run2(s, t)
         /\ \A s, t, u : Arrays[a] = <<s, t, u>> => Run(a, val) = Run3(s, t, u)
         /\ \A s, t, u, w :
              Arrays[a] = <<s, t, u, w>> => Run(a, val) = Run4(s, t, u, w)
<1> USE DEF Run, Run0, Run1, Run2, Run3, Run4, Done
<1>1. ASSUME NEW s, Arrays[a] = <<s>>
      PROVE  Run(a, val) = Run1(s)
  BY <1>1
<1>2. ASSUME NEW s, NEW t, Arrays[a] = <<s, t>>
      PROVE  Run(a, val) = Run2(s, t)
  BY <1>2
<1>3. ASSUME NEW s, NEW t, NEW u, Arrays[a] = <<s, t, u>>
      PROVE  Run(a, val) = Run3(s, t, u)
  BY <1>3
<1>4. ASSUME NEW s, NEW t, NEW u, NEW w, Arrays[a] = <<s, t, u, w>>
      PROVE  Run(a, val) = Run4(s, t, u, w)
  BY <1>4
<1> HIDE DEF Run, Run0, Run1, Run2, Run3, Run4
<1> QED BY <1>1, <1>2, <1>3, <1>4

\* The run st of an array and the summary op of it agree.
Agree(st, op) ==
  \/ /\ st.res = "done" /\ Ready(op, val)
     /\ st.val = Performed(op, val) /\ st.adj = Account(op, NoSems)
  \/ /\ st.res = (IF op.nowait THEN "eagain" ELSE "sleep") /\ ~Ready(op, val)

\* The values w, the account e and the failure nw are what the summary op says.
Matches(w, e, nw, op) ==
  /\ w \in [Sems -> Int] /\ \A x \in Sems : w[x] = val[x] + op.add[x]
  /\ e \in [Sems -> Int] /\ \A x \in Sems : e[x] = IF x \in op.undo THEN 0 - op.add[x] ELSE 0
  /\ nw = IF op.nowait THEN "eagain" ELSE "sleep"

\* A run agrees with a summary that describes its outcome.
LEMMA AgreeIf ==
  ASSUME NEW st, NEW op, NEW w, NEW e, NEW nw, Reached(st, w, e, nw), Matches(w, e, nw, op),
         st.res = "done" <=> Ready(op, val)
  PROVE  Agree(st, op)
<1>1. w = Performed(op, val)
  BY DEF Performed, Matches
<1>2. e = Account(op, NoSems)
  BY DEF Account, NoSems, Matches
<1>3. nw = IF op.nowait THEN "eagain" ELSE "sleep"
  BY DEF Matches
<1>4. CASE st.res = "done"
  BY <1>1, <1>2, <1>4 DEF Agree, Done, Reached
<1>5. CASE st.res # "done"
  BY <1>3, <1>5 DEF Agree, Reached
<1> QED BY <1>4, <1>5

\* What the arrays of the two roles have in common.
Start(x) == Sembufs({x}, NoSems, [NoSems EXCEPT ![x] = 1], {x}, FALSE)

WaitPeer(x) ==
  Sembufs({}, [NoSems EXCEPT ![x] = 2], [NoSems EXCEPT !["PAIR"] = 1], {"PAIR"}, FALSE)

\* A single decrement, a single increment.
LEMMA AgreeP ==
  ASSUME val \in [Sems -> Nat], NEW x \in Sems
  PROVE  Agree(Run1(Sembuf(x, -1, {})), P(x))
<1> DEFINE op == P(x)
           s1 == Sembuf(x, -1, {})
           r1 == OneSembuf(Run0, s1)
           v1 == [val EXCEPT ![x] = @ + -1]
<1>1. /\ val \in [Sems -> Int] /\ v1 \in [Sems -> Int]
      /\ NoSems \in [Sems -> Int]
      /\ v1 = [val EXCEPT ![x] = @ + -1]
      /\ {-1} \subseteq Int
  BY DEF NoSems, Sems
<1>2. Ready(op, val) <=> ~Blocks(val, x, -1)
  BY DEF Ready, Blocks, Sembufs, NoSems, Sems, P
<1>3. \A y \in Sems : v1[y] = val[y] + op.add[y]
  BY DEF Sembufs, NoSems, Sems, P
<1>4. \A y \in Sems : NoSems[y] = IF y \in op.undo THEN 0 - op.add[y] ELSE 0
  BY DEF Sembufs, NoSems, Sems, P
<1>5. op.nowait = FALSE
  BY DEF Sembufs, P
<1>6. Run0.res = "done" /\ Reached(Run0, val, NoSems, "sleep")
  BY DEF Run0, Done, Reached
<1> HIDE DEF op, v1
<1>7. Extends(r1, Run0, val, x, -1, v1, NoSems, "sleep")
  BY <1>1, <1>6, PlainSembuf, Zenon
<1> HIDE DEF r1
<1>8. /\ Reached(r1, v1, NoSems, "sleep")
      /\ r1.res = "done" <=> (Run0.res = "done" /\ ~Blocks(val, x, -1))
  BY <1>7 DEF Extends
<1>9. Matches(v1, NoSems, "sleep", op)
  BY <1>1, <1>3, <1>4, <1>5 DEF Matches
<1>10. r1.res = "done" <=> Ready(op, val)
  BY <1>2, <1>6, <1>8
<1>11. Agree(r1, op)
  BY <1>8, <1>9, <1>10, AgreeIf, Zenon
<1> QED BY <1>11 DEF op, r1, Run1

LEMMA AgreeV ==
  ASSUME val \in [Sems -> Nat], NEW x \in Sems
  PROVE  Agree(Run1(Sembuf(x, 1, {})), V(x))
<1> DEFINE op == V(x)
           s1 == Sembuf(x, 1, {})
           r1 == OneSembuf(Run0, s1)
           v1 == [val EXCEPT ![x] = @ + 1]
<1>1. /\ val \in [Sems -> Int] /\ v1 \in [Sems -> Int]
      /\ NoSems \in [Sems -> Int]
      /\ v1 = [val EXCEPT ![x] = @ + 1]
      /\ {1} \subseteq Int
  BY DEF NoSems, Sems
<1>2. Ready(op, val) <=> ~Blocks(val, x, 1)
  BY DEF Ready, Blocks, Sembufs, NoSems, Sems, V
<1>3. \A y \in Sems : v1[y] = val[y] + op.add[y]
  BY DEF Sembufs, NoSems, Sems, V
<1>4. \A y \in Sems : NoSems[y] = IF y \in op.undo THEN 0 - op.add[y] ELSE 0
  BY DEF Sembufs, NoSems, Sems, V
<1>5. op.nowait = FALSE
  BY DEF Sembufs, V
<1>6. Run0.res = "done" /\ Reached(Run0, val, NoSems, "sleep")
  BY DEF Run0, Done, Reached
<1> HIDE DEF op, v1
<1>7. Extends(r1, Run0, val, x, 1, v1, NoSems, "sleep")
  BY <1>1, <1>6, PlainSembuf, Zenon
<1> HIDE DEF r1
<1>8. /\ Reached(r1, v1, NoSems, "sleep")
      /\ r1.res = "done" <=> (Run0.res = "done" /\ ~Blocks(val, x, 1))
  BY <1>7 DEF Extends
<1>9. Matches(v1, NoSems, "sleep", op)
  BY <1>1, <1>3, <1>4, <1>5 DEF Matches
<1>10. r1.res = "done" <=> Ready(op, val)
  BY <1>2, <1>6, <1>8
<1>11. Agree(r1, op)
  BY <1>8, <1>9, <1>10, AgreeIf, Zenon
<1> QED BY <1>11 DEF op, r1, Run1

\* sem_wait_pair.
LEMMA AgreeWaitPair ==
  ASSUME val \in [Sems -> Nat]
  PROVE  Agree(Run1(Sembuf("PAIR", 0, {})), sem_wait_pair)
<1> DEFINE op == sem_wait_pair
           s1 == Sembuf("PAIR", 0, {})
           r1 == OneSembuf(Run0, s1)
           v1 == [val EXCEPT !["PAIR"] = @ + 0]
<1>1. /\ val \in [Sems -> Int] /\ v1 \in [Sems -> Int]
      /\ NoSems \in [Sems -> Int]
      /\ v1 = [val EXCEPT !["PAIR"] = @ + 0]
      /\ {0} \subseteq Int
      /\ {"PAIR"} \subseteq Sems
  BY DEF NoSems, Sems
<1>2. Ready(op, val) <=> ~Blocks(val, "PAIR", 0)
  BY DEF Ready, Blocks, Sembufs, NoSems, Sems, sem_wait_pair
<1>3. \A x \in Sems : v1[x] = val[x] + op.add[x]
  BY DEF Sembufs, NoSems, Sems, sem_wait_pair
<1>4. \A x \in Sems : NoSems[x] = IF x \in op.undo THEN 0 - op.add[x] ELSE 0
  BY DEF Sembufs, NoSems, Sems, sem_wait_pair
<1>5. op.nowait = FALSE
  BY DEF Sembufs, sem_wait_pair
<1>6. Run0.res = "done" /\ Reached(Run0, val, NoSems, "sleep")
  BY DEF Run0, Done, Reached
<1> HIDE DEF op, v1
<1>7. Extends(r1, Run0, val, "PAIR", 0, v1, NoSems, "sleep")
  BY <1>1, <1>6, PlainSembuf, Zenon
<1> HIDE DEF r1
<1>8. /\ Reached(r1, v1, NoSems, "sleep")
      /\ r1.res = "done" <=> (Run0.res = "done" /\ ~Blocks(val, "PAIR", 0))
  BY <1>7 DEF Extends
<1>9. Matches(v1, NoSems, "sleep", op)
  BY <1>1, <1>3, <1>4, <1>5 DEF Matches
<1>10. r1.res = "done" <=> Ready(op, val)
  BY <1>2, <1>6, <1>8
<1>11. Agree(r1, op)
  BY <1>8, <1>9, <1>10, AgreeIf, Zenon
<1> QED BY <1>11 DEF op, r1, Run1

\* sem_rd_finish.
LEMMA AgreeRdFinish ==
  ASSUME val \in [Sems -> Nat]
  PROVE  Agree(Run1(Sembuf("FINISH", 0, {"IPC_NOWAIT"})), sem_rd_finish)
<1> DEFINE op == sem_rd_finish
           s1 == Sembuf("FINISH", 0, {"IPC_NOWAIT"})
           r1 == OneSembuf(Run0, s1)
           v1 == [val EXCEPT !["FINISH"] = @ + 0]
<1>1. /\ val \in [Sems -> Int] /\ v1 \in [Sems -> Int]
      /\ NoSems \in [Sems -> Int]
      /\ v1 = [val EXCEPT !["FINISH"] = @ + 0]
      /\ {0} \subseteq Int
      /\ {"FINISH"} \subseteq Sems
  BY DEF NoSems, Sems
<1>2. Ready(op, val) <=> ~Blocks(val, "FINISH", 0)
  BY DEF Ready, Blocks, Sembufs, NoSems, Sems, sem_rd_finish
<1>3. \A x \in Sems : v1[x] = val[x] + op.add[x]
  BY DEF Sembufs, NoSems, Sems, sem_rd_finish
<1>4. \A x \in Sems : NoSems[x] = IF x \in op.undo THEN 0 - op.add[x] ELSE 0
  BY DEF Sembufs, NoSems, Sems, sem_rd_finish
<1>5. op.nowait = TRUE
  BY DEF Sembufs, sem_rd_finish
<1>6. Run0.res = "done" /\ Reached(Run0, val, NoSems, "eagain")
  BY DEF Run0, Done, Reached
<1> HIDE DEF op, v1
<1>7. Extends(r1, Run0, val, "FINISH", 0, v1, NoSems, "eagain")
  BY <1>1, <1>6, NowaitSembuf, Zenon
<1> HIDE DEF r1
<1>8. /\ Reached(r1, v1, NoSems, "eagain")
      /\ r1.res = "done" <=> (Run0.res = "done" /\ ~Blocks(val, "FINISH", 0))
  BY <1>7 DEF Extends
<1>9. Matches(v1, NoSems, "eagain", op)
  BY <1>1, <1>3, <1>4, <1>5 DEF Matches
<1>10. r1.res = "done" <=> Ready(op, val)
  BY <1>2, <1>6, <1>8
<1>11. Agree(r1, op)
  BY <1>8, <1>9, <1>10, AgreeIf, Zenon
<1> QED BY <1>11 DEF op, r1, Run1

\* sem_wr_start and sem_rd_start.
LEMMA AgreeStart ==
  ASSUME val \in [Sems -> Nat], NEW x \in Sems
  PROVE  LET s1 == Sembuf(x, 0, {})
             s2 == Sembuf(x, 1, {"SEM_UNDO"})
         IN  Agree(Run2(s1, s2), Start(x))
<1> DEFINE op == Start(x)
           s1 == Sembuf(x, 0, {})
           s2 == Sembuf(x, 1, {"SEM_UNDO"})
           r1 == OneSembuf(Run0, s1)
           r2 == OneSembuf(r1, s2)
           v1 == [val EXCEPT ![x] = @ + 0]
           v2 == [v1 EXCEPT ![x] = @ + 1]
           d2 == [NoSems EXCEPT ![x] = @ - 1]
<1>1. /\ val \in [Sems -> Int] /\ v1 \in [Sems -> Int] /\ v2 \in [Sems -> Int]
      /\ NoSems \in [Sems -> Int] /\ d2 \in [Sems -> Int]
      /\ v1 = [val EXCEPT ![x] = @ + 0]
      /\ v2 = [v1 EXCEPT ![x] = @ + 1] /\ d2 = [NoSems EXCEPT ![x] = @ - 1]
      /\ {0, 1} \subseteq Int
  BY DEF NoSems, Sems
<1>2. Ready(op, val) <=>
        /\ ~Blocks(val, x, 0)
        /\ ~Blocks(v1, x, 1)
  BY DEF Ready, Blocks, Sembufs, NoSems, Sems, Start
<1>3. \A y \in Sems : v2[y] = val[y] + op.add[y]
  BY DEF Sembufs, NoSems, Sems, Start
<1>4. \A y \in Sems : d2[y] = IF y \in op.undo THEN 0 - op.add[y] ELSE 0
  BY DEF Sembufs, NoSems, Sems, Start
<1>5. op.nowait = FALSE
  BY DEF Sembufs, Start
<1>6. Run0.res = "done" /\ Reached(Run0, val, NoSems, "sleep")
  BY DEF Run0, Done, Reached
<1> HIDE DEF op, v1, v2, d2
<1>7. Extends(r1, Run0, val, x, 0, v1, NoSems, "sleep")
  BY <1>1, <1>6, PlainSembuf, Zenon
<1> HIDE DEF r1
<1>8. /\ Reached(r1, v1, NoSems, "sleep")
      /\ r1.res = "done" <=> (Run0.res = "done" /\ ~Blocks(val, x, 0))
  BY <1>7 DEF Extends
<1>9. Extends(r2, r1, v1, x, 1, v2, d2, "sleep")
  BY <1>1, <1>8, UndoSembuf, Zenon
<1> HIDE DEF r2
<1>10. /\ Reached(r2, v2, d2, "sleep")
       /\ r2.res = "done" <=> (r1.res = "done" /\ ~Blocks(v1, x, 1))
  BY <1>9 DEF Extends
<1>11. Matches(v2, d2, "sleep", op)
  BY <1>1, <1>3, <1>4, <1>5 DEF Matches
<1>12. r2.res = "done" <=> Ready(op, val)
  BY <1>2, <1>6, <1>8, <1>10
<1>13. Agree(r2, op)
  BY <1>10, <1>11, <1>12, AgreeIf, Zenon
<1> QED BY <1>13 DEF op, r1, r2, Run1, Run2

\* sem_wr_init.
LEMMA AgreeWrInit ==
  ASSUME val \in [Sems -> Nat]
  PROVE  LET s1 == Sembuf("WRITER", 1, {"SEM_UNDO"})
             s2 == Sembuf("FULL", -1, {"SEM_UNDO"})
             s3 == Sembuf("FINISH", -1, {"SEM_UNDO"})
             s4 == Sembuf("MUTEX", -1, {"SEM_UNDO"})
         IN  Agree(Run4(s1, s2, s3, s4), sem_wr_init)
<1> DEFINE op == sem_wr_init
           s1 == Sembuf("WRITER", 1, {"SEM_UNDO"})
           s2 == Sembuf("FULL", -1, {"SEM_UNDO"})
           s3 == Sembuf("FINISH", -1, {"SEM_UNDO"})
           s4 == Sembuf("MUTEX", -1, {"SEM_UNDO"})
           r1 == OneSembuf(Run0, s1)
           r2 == OneSembuf(r1, s2)
           r3 == OneSembuf(r2, s3)
           r4 == OneSembuf(r3, s4)
           v1 == [val EXCEPT !["WRITER"] = @ + 1]
           d1 == [NoSems EXCEPT !["WRITER"] = @ - 1]
           v2 == [v1 EXCEPT !["FULL"] = @ + -1]
           d2 == [d1 EXCEPT !["FULL"] = @ - -1]
           v3 == [v2 EXCEPT !["FINISH"] = @ + -1]
           d3 == [d2 EXCEPT !["FINISH"] = @ - -1]
           v4 == [v3 EXCEPT !["MUTEX"] = @ + -1]
           d4 == [d3 EXCEPT !["MUTEX"] = @ - -1]
<1>1. /\ val \in [Sems -> Int] /\ v1 \in [Sems -> Int] /\ v2 \in [Sems -> Int]
      /\ v3 \in [Sems -> Int] /\ v4 \in [Sems -> Int]
      /\ NoSems \in [Sems -> Int] /\ d1 \in [Sems -> Int] /\ d2 \in [Sems -> Int]
      /\ d3 \in [Sems -> Int] /\ d4 \in [Sems -> Int]
      /\ v1 = [val EXCEPT !["WRITER"] = @ + 1] /\ d1 = [NoSems EXCEPT !["WRITER"] = @ - 1]
      /\ v2 = [v1 EXCEPT !["FULL"] = @ + -1] /\ d2 = [d1 EXCEPT !["FULL"] = @ - -1]
      /\ v3 = [v2 EXCEPT !["FINISH"] = @ + -1] /\ d3 = [d2 EXCEPT !["FINISH"] = @ - -1]
      /\ v4 = [v3 EXCEPT !["MUTEX"] = @ + -1] /\ d4 = [d3 EXCEPT !["MUTEX"] = @ - -1]
      /\ {1, -1} \subseteq Int
      /\ {"WRITER", "FULL", "FINISH", "MUTEX"} \subseteq Sems
  BY DEF NoSems, Sems
<1>2. Ready(op, val) <=>
        /\ ~Blocks(val, "WRITER", 1)
        /\ ~Blocks(v1, "FULL", -1)
        /\ ~Blocks(v2, "FINISH", -1)
        /\ ~Blocks(v3, "MUTEX", -1)
  BY DEF Ready, Blocks, Sembufs, NoSems, Sems, sem_wr_init
<1>3. \A x \in Sems : v4[x] = val[x] + op.add[x]
  BY DEF Sembufs, NoSems, Sems, sem_wr_init
<1>4. \A x \in Sems : d4[x] = IF x \in op.undo THEN 0 - op.add[x] ELSE 0
  BY DEF Sembufs, NoSems, Sems, sem_wr_init
<1>5. op.nowait = FALSE
  BY DEF Sembufs, sem_wr_init
<1>6. Run0.res = "done" /\ Reached(Run0, val, NoSems, "sleep")
  BY DEF Run0, Done, Reached
<1> HIDE DEF op, v1, v2, v3, v4, d1, d2, d3, d4
<1>7. Extends(r1, Run0, val, "WRITER", 1, v1, d1, "sleep")
  BY <1>1, <1>6, UndoSembuf, Zenon
<1> HIDE DEF r1
<1>8. /\ Reached(r1, v1, d1, "sleep")
      /\ r1.res = "done" <=> (Run0.res = "done" /\ ~Blocks(val, "WRITER", 1))
  BY <1>7 DEF Extends
<1>9. Extends(r2, r1, v1, "FULL", -1, v2, d2, "sleep")
  BY <1>1, <1>8, UndoSembuf, Zenon
<1> HIDE DEF r2
<1>10. /\ Reached(r2, v2, d2, "sleep")
       /\ r2.res = "done" <=> (r1.res = "done" /\ ~Blocks(v1, "FULL", -1))
  BY <1>9 DEF Extends
<1>11. Extends(r3, r2, v2, "FINISH", -1, v3, d3, "sleep")
  BY <1>1, <1>10, UndoSembuf, Zenon
<1> HIDE DEF r3
<1>12. /\ Reached(r3, v3, d3, "sleep")
       /\ r3.res = "done" <=> (r2.res = "done" /\ ~Blocks(v2, "FINISH", -1))
  BY <1>11 DEF Extends
<1>13. Extends(r4, r3, v3, "MUTEX", -1, v4, d4, "sleep")
  BY <1>1, <1>12, UndoSembuf, Zenon
<1> HIDE DEF r4
<1>14. /\ Reached(r4, v4, d4, "sleep")
       /\ r4.res = "done" <=> (r3.res = "done" /\ ~Blocks(v3, "MUTEX", -1))
  BY <1>13 DEF Extends
<1>15. Matches(v4, d4, "sleep", op)
  BY <1>1, <1>3, <1>4, <1>5 DEF Matches
<1>16. r4.res = "done" <=> Ready(op, val)
  BY <1>2, <1>6, <1>8, <1>10, <1>12, <1>14
<1>17. Agree(r4, op)
  BY <1>14, <1>15, <1>16, AgreeIf, Zenon
<1> QED BY <1>17 DEF op, r1, r2, r3, r4, Run1, Run2, Run3, Run4

\* sem_rd_init.
LEMMA AgreeRdInit ==
  ASSUME val \in [Sems -> Nat]
  PROVE  LET s1 == Sembuf("READER", 1, {"SEM_UNDO"})
             s2 == Sembuf("EMPTY", -1, {"SEM_UNDO"})
             s3 == Sembuf("MUTEX", -1, {"SEM_UNDO"})
         IN  Agree(Run3(s1, s2, s3), sem_rd_init)
<1> DEFINE op == sem_rd_init
           s1 == Sembuf("READER", 1, {"SEM_UNDO"})
           s2 == Sembuf("EMPTY", -1, {"SEM_UNDO"})
           s3 == Sembuf("MUTEX", -1, {"SEM_UNDO"})
           r1 == OneSembuf(Run0, s1)
           r2 == OneSembuf(r1, s2)
           r3 == OneSembuf(r2, s3)
           v1 == [val EXCEPT !["READER"] = @ + 1]
           d1 == [NoSems EXCEPT !["READER"] = @ - 1]
           v2 == [v1 EXCEPT !["EMPTY"] = @ + -1]
           d2 == [d1 EXCEPT !["EMPTY"] = @ - -1]
           v3 == [v2 EXCEPT !["MUTEX"] = @ + -1]
           d3 == [d2 EXCEPT !["MUTEX"] = @ - -1]
<1>1. /\ val \in [Sems -> Int] /\ v1 \in [Sems -> Int] /\ v2 \in [Sems -> Int]
      /\ v3 \in [Sems -> Int]
      /\ NoSems \in [Sems -> Int] /\ d1 \in [Sems -> Int] /\ d2 \in [Sems -> Int]
      /\ d3 \in [Sems -> Int]
      /\ v1 = [val EXCEPT !["READER"] = @ + 1] /\ d1 = [NoSems EXCEPT !["READER"] = @ - 1]
      /\ v2 = [v1 EXCEPT !["EMPTY"] = @ + -1] /\ d2 = [d1 EXCEPT !["EMPTY"] = @ - -1]
      /\ v3 = [v2 EXCEPT !["MUTEX"] = @ + -1] /\ d3 = [d2 EXCEPT !["MUTEX"] = @ - -1]
      /\ {1, -1} \subseteq Int
      /\ {"READER", "EMPTY", "MUTEX"} \subseteq Sems
  BY DEF NoSems, Sems
<1>2. Ready(op, val) <=>
        /\ ~Blocks(val, "READER", 1)
        /\ ~Blocks(v1, "EMPTY", -1)
        /\ ~Blocks(v2, "MUTEX", -1)
  BY DEF Ready, Blocks, Sembufs, NoSems, Sems, sem_rd_init
<1>3. \A x \in Sems : v3[x] = val[x] + op.add[x]
  BY DEF Sembufs, NoSems, Sems, sem_rd_init
<1>4. \A x \in Sems : d3[x] = IF x \in op.undo THEN 0 - op.add[x] ELSE 0
  BY DEF Sembufs, NoSems, Sems, sem_rd_init
<1>5. op.nowait = FALSE
  BY DEF Sembufs, sem_rd_init
<1>6. Run0.res = "done" /\ Reached(Run0, val, NoSems, "sleep")
  BY DEF Run0, Done, Reached
<1> HIDE DEF op, v1, v2, v3, d1, d2, d3
<1>7. Extends(r1, Run0, val, "READER", 1, v1, d1, "sleep")
  BY <1>1, <1>6, UndoSembuf, Zenon
<1> HIDE DEF r1
<1>8. /\ Reached(r1, v1, d1, "sleep")
      /\ r1.res = "done" <=> (Run0.res = "done" /\ ~Blocks(val, "READER", 1))
  BY <1>7 DEF Extends
<1>9. Extends(r2, r1, v1, "EMPTY", -1, v2, d2, "sleep")
  BY <1>1, <1>8, UndoSembuf, Zenon
<1> HIDE DEF r2
<1>10. /\ Reached(r2, v2, d2, "sleep")
       /\ r2.res = "done" <=> (r1.res = "done" /\ ~Blocks(v1, "EMPTY", -1))
  BY <1>9 DEF Extends
<1>11. Extends(r3, r2, v2, "MUTEX", -1, v3, d3, "sleep")
  BY <1>1, <1>10, UndoSembuf, Zenon
<1> HIDE DEF r3
<1>12. /\ Reached(r3, v3, d3, "sleep")
       /\ r3.res = "done" <=> (r2.res = "done" /\ ~Blocks(v2, "MUTEX", -1))
  BY <1>11 DEF Extends
<1>13. Matches(v3, d3, "sleep", op)
  BY <1>1, <1>3, <1>4, <1>5 DEF Matches
<1>14. r3.res = "done" <=> Ready(op, val)
  BY <1>2, <1>6, <1>8, <1>10, <1>12
<1>15. Agree(r3, op)
  BY <1>12, <1>13, <1>14, AgreeIf, Zenon
<1> QED BY <1>15 DEF op, r1, r2, r3, Run1, Run2, Run3

\* sem_wr_wait_rd and sem_rd_wait_wr.
LEMMA AgreeWaitPeer ==
  ASSUME val \in [Sems -> Nat], NEW x \in Sems, x # "PAIR"
  PROVE  LET s1 == Sembuf(x, -2, {})
             s2 == Sembuf(x, 2, {})
             s3 == Sembuf("PAIR", 1, {"SEM_UNDO"})
         IN  Agree(Run3(s1, s2, s3), WaitPeer(x))
<1> DEFINE op == WaitPeer(x)
           s1 == Sembuf(x, -2, {})
           s2 == Sembuf(x, 2, {})
           s3 == Sembuf("PAIR", 1, {"SEM_UNDO"})
           r1 == OneSembuf(Run0, s1)
           r2 == OneSembuf(r1, s2)
           r3 == OneSembuf(r2, s3)
           v1 == [val EXCEPT ![x] = @ + -2]
           v2 == [v1 EXCEPT ![x] = @ + 2]
           v3 == [v2 EXCEPT !["PAIR"] = @ + 1]
           d3 == [NoSems EXCEPT !["PAIR"] = @ - 1]
<1>1. /\ val \in [Sems -> Int] /\ v1 \in [Sems -> Int] /\ v2 \in [Sems -> Int]
      /\ v3 \in [Sems -> Int]
      /\ NoSems \in [Sems -> Int] /\ d3 \in [Sems -> Int]
      /\ v1 = [val EXCEPT ![x] = @ + -2]
      /\ v2 = [v1 EXCEPT ![x] = @ + 2]
      /\ v3 = [v2 EXCEPT !["PAIR"] = @ + 1] /\ d3 = [NoSems EXCEPT !["PAIR"] = @ - 1]
      /\ {-2, 2, 1} \subseteq Int
      /\ {"PAIR"} \subseteq Sems
  BY DEF NoSems, Sems
<1>2. Ready(op, val) <=>
        /\ ~Blocks(val, x, -2)
        /\ ~Blocks(v1, x, 2)
        /\ ~Blocks(v2, "PAIR", 1)
  BY DEF Ready, Blocks, Sembufs, NoSems, Sems, WaitPeer
<1>3. \A y \in Sems : v3[y] = val[y] + op.add[y]
  BY DEF Sembufs, NoSems, Sems, WaitPeer
<1>4. \A y \in Sems : d3[y] = IF y \in op.undo THEN 0 - op.add[y] ELSE 0
  BY DEF Sembufs, NoSems, Sems, WaitPeer
<1>5. op.nowait = FALSE
  BY DEF Sembufs, WaitPeer
<1>6. Run0.res = "done" /\ Reached(Run0, val, NoSems, "sleep")
  BY DEF Run0, Done, Reached
<1> HIDE DEF op, v1, v2, v3, d3
<1>7. Extends(r1, Run0, val, x, -2, v1, NoSems, "sleep")
  BY <1>1, <1>6, PlainSembuf, Zenon
<1> HIDE DEF r1
<1>8. /\ Reached(r1, v1, NoSems, "sleep")
      /\ r1.res = "done" <=> (Run0.res = "done" /\ ~Blocks(val, x, -2))
  BY <1>7 DEF Extends
<1>9. Extends(r2, r1, v1, x, 2, v2, NoSems, "sleep")
  BY <1>1, <1>8, PlainSembuf, Zenon
<1> HIDE DEF r2
<1>10. /\ Reached(r2, v2, NoSems, "sleep")
       /\ r2.res = "done" <=> (r1.res = "done" /\ ~Blocks(v1, x, 2))
  BY <1>9 DEF Extends
<1>11. Extends(r3, r2, v2, "PAIR", 1, v3, d3, "sleep")
  BY <1>1, <1>10, UndoSembuf, Zenon
<1> HIDE DEF r3
<1>12. /\ Reached(r3, v3, d3, "sleep")
       /\ r3.res = "done" <=> (r2.res = "done" /\ ~Blocks(v2, "PAIR", 1))
  BY <1>11 DEF Extends
<1>13. Matches(v3, d3, "sleep", op)
  BY <1>1, <1>3, <1>4, <1>5 DEF Matches
<1>14. r3.res = "done" <=> Ready(op, val)
  BY <1>2, <1>6, <1>8, <1>10, <1>12
<1>15. Agree(r3, op)
  BY <1>12, <1>13, <1>14, AgreeIf, Zenon
<1> QED BY <1>15 DEF op, r1, r2, r3, Run1, Run2, Run3

\* sem_rd_check_wr_alive.
LEMMA AgreeRdCheck ==
  ASSUME val \in [Sems -> Nat]
  PROVE  LET s1 == Sembuf("PAIR", -2, {"IPC_NOWAIT"})
             s2 == Sembuf("PAIR", 2, {})
             s3 == Sembuf("FINISH", 0, {"IPC_NOWAIT"})
         IN  Agree(Run3(s1, s2, s3), sem_rd_check_wr_alive)
<1> DEFINE op == sem_rd_check_wr_alive
           s1 == Sembuf("PAIR", -2, {"IPC_NOWAIT"})
           s2 == Sembuf("PAIR", 2, {})
           s3 == Sembuf("FINISH", 0, {"IPC_NOWAIT"})
           r1 == OneSembuf(Run0, s1)
           r2 == OneSembuf(r1, s2)
           r3 == OneSembuf(r2, s3)
           v1 == [val EXCEPT !["PAIR"] = @ + -2]
           v2 == [v1 EXCEPT !["PAIR"] = @ + 2]
           v3 == [v2 EXCEPT !["FINISH"] = @ + 0]
<1>1. /\ val \in [Sems -> Int] /\ v1 \in [Sems -> Int] /\ v2 \in [Sems -> Int]
      /\ v3 \in [Sems -> Int]
      /\ NoSems \in [Sems -> Int]
      /\ v1 = [val EXCEPT !["PAIR"] = @ + -2]
      /\ v2 = [v1 EXCEPT !["PAIR"] = @ + 2]
      /\ v3 = [v2 EXCEPT !["FINISH"] = @ + 0]
      /\ {-2, 2, 0} \subseteq Int
      /\ {"PAIR", "FINISH"} \subseteq Sems
  BY DEF NoSems, Sems
<1>2. Ready(op, val) <=>
        /\ ~Blocks(val, "PAIR", -2)
        /\ ~Blocks(v1, "PAIR", 2)
        /\ ~Blocks(v2, "FINISH", 0)
  BY DEF Ready, Blocks, Sembufs, NoSems, Sems, sem_rd_check_wr_alive
<1>3. ~Blocks(v1, "PAIR", 2)
  BY DEF Blocks, Sems
<1>4. \A x \in Sems : v3[x] = val[x] + op.add[x]
  BY DEF Sembufs, NoSems, Sems, sem_rd_check_wr_alive
<1>5. \A x \in Sems : NoSems[x] = IF x \in op.undo THEN 0 - op.add[x] ELSE 0
  BY DEF Sembufs, NoSems, Sems, sem_rd_check_wr_alive
<1>6. op.nowait = TRUE
  BY DEF Sembufs, sem_rd_check_wr_alive
<1>7. Run0.res = "done" /\ Reached(Run0, val, NoSems, "eagain")
  BY DEF Run0, Done, Reached
<1> HIDE DEF op, v1, v2, v3
<1>8. Extends(r1, Run0, val, "PAIR", -2, v1, NoSems, "eagain")
  BY <1>1, <1>7, NowaitSembuf, Zenon
<1> HIDE DEF r1
<1>9. /\ Reached(r1, v1, NoSems, "eagain")
      /\ r1.res = "done" <=> (Run0.res = "done" /\ ~Blocks(val, "PAIR", -2))
  BY <1>8 DEF Extends
<1>10. Extends(r2, r1, v1, "PAIR", 2, v2, NoSems, "eagain")
  BY <1>1, <1>3, <1>9, PlainSembuf, Zenon
<1> HIDE DEF r2
<1>11. /\ Reached(r2, v2, NoSems, "eagain")
       /\ r2.res = "done" <=> (r1.res = "done" /\ ~Blocks(v1, "PAIR", 2))
  BY <1>10 DEF Extends
<1>12. Extends(r3, r2, v2, "FINISH", 0, v3, NoSems, "eagain")
  BY <1>1, <1>11, NowaitSembuf, Zenon
<1> HIDE DEF r3
<1>13. /\ Reached(r3, v3, NoSems, "eagain")
       /\ r3.res = "done" <=> (r2.res = "done" /\ ~Blocks(v2, "FINISH", 0))
  BY <1>12 DEF Extends
<1>14. Matches(v3, NoSems, "eagain", op)
  BY <1>1, <1>4, <1>5, <1>6 DEF Matches
<1>15. r3.res = "done" <=> Ready(op, val)
  BY <1>2, <1>7, <1>9, <1>11, <1>13
<1>16. Agree(r3, op)
  BY <1>13, <1>14, <1>15, AgreeIf, Zenon
<1> QED BY <1>16 DEF op, r1, r2, r3, Run1, Run2, Run3

\* sem_wr_check_rd_alive.
LEMMA AgreeWrCheck ==
  ASSUME val \in [Sems -> Nat]
  PROVE  LET s1 == Sembuf("PAIR", -2, {"IPC_NOWAIT"})
             s2 == Sembuf("PAIR", 2, {})
         IN  Agree(Run2(s1, s2), sem_wr_check_rd_alive)
<1> DEFINE op == sem_wr_check_rd_alive
           s1 == Sembuf("PAIR", -2, {"IPC_NOWAIT"})
           s2 == Sembuf("PAIR", 2, {})
           r1 == OneSembuf(Run0, s1)
           r2 == OneSembuf(r1, s2)
           v1 == [val EXCEPT !["PAIR"] = @ + -2]
           v2 == [v1 EXCEPT !["PAIR"] = @ + 2]
<1>1. /\ val \in [Sems -> Int] /\ v1 \in [Sems -> Int] /\ v2 \in [Sems -> Int]
      /\ NoSems \in [Sems -> Int]
      /\ v1 = [val EXCEPT !["PAIR"] = @ + -2]
      /\ v2 = [v1 EXCEPT !["PAIR"] = @ + 2]
      /\ {-2, 2} \subseteq Int
      /\ {"PAIR"} \subseteq Sems
  BY DEF NoSems, Sems
<1>2. Ready(op, val) <=>
        /\ ~Blocks(val, "PAIR", -2)
        /\ ~Blocks(v1, "PAIR", 2)
  BY DEF Ready, Blocks, Sembufs, NoSems, Sems, sem_wr_check_rd_alive
<1>3. ~Blocks(v1, "PAIR", 2)
  BY DEF Blocks, Sems
<1>4. \A x \in Sems : v2[x] = val[x] + op.add[x]
  BY DEF Sembufs, NoSems, Sems, sem_wr_check_rd_alive
<1>5. \A x \in Sems : NoSems[x] = IF x \in op.undo THEN 0 - op.add[x] ELSE 0
  BY DEF Sembufs, NoSems, Sems, sem_wr_check_rd_alive
<1>6. op.nowait = TRUE
  BY DEF Sembufs, sem_wr_check_rd_alive
<1>7. Run0.res = "done" /\ Reached(Run0, val, NoSems, "eagain")
  BY DEF Run0, Done, Reached
<1> HIDE DEF op, v1, v2
<1>8. Extends(r1, Run0, val, "PAIR", -2, v1, NoSems, "eagain")
  BY <1>1, <1>7, NowaitSembuf, Zenon
<1> HIDE DEF r1
<1>9. /\ Reached(r1, v1, NoSems, "eagain")
      /\ r1.res = "done" <=> (Run0.res = "done" /\ ~Blocks(val, "PAIR", -2))
  BY <1>8 DEF Extends
<1>10. Extends(r2, r1, v1, "PAIR", 2, v2, NoSems, "eagain")
  BY <1>1, <1>3, <1>9, PlainSembuf, Zenon
<1> HIDE DEF r2
<1>11. /\ Reached(r2, v2, NoSems, "eagain")
       /\ r2.res = "done" <=> (r1.res = "done" /\ ~Blocks(v1, "PAIR", 2))
  BY <1>10 DEF Extends
<1>12. Matches(v2, NoSems, "eagain", op)
  BY <1>1, <1>4, <1>5, <1>6 DEF Matches
<1>13. r2.res = "done" <=> Ready(op, val)
  BY <1>2, <1>7, <1>9, <1>11
<1>14. Agree(r2, op)
  BY <1>11, <1>12, <1>13, AgreeIf, Zenon
<1> QED BY <1>14 DEF op, r1, r2, Run1, Run2

\* Every array, run on the values of the set, agrees with its summary.
LEMMA SummariesHold ==
  ASSUME val \in [Sems -> Nat]
  PROVE  SummariesAgree
<1>1. \A a \in DOMAIN Arrays : Agree(Run(a, val), Summary[a])
  <2>1. Agree(Run("sem_wr_start", val), Summary["sem_wr_start"])
    <3> DEFINE s1 == Sembuf("WRITER", 0, {})
               s2 == Sembuf("WRITER", 1, {"SEM_UNDO"})
    <3>1. /\ "sem_wr_start" \in DOMAIN Arrays
          /\ Summary["sem_wr_start"] = sem_wr_start
          /\ Arrays["sem_wr_start"] = <<s1, s2>>
      BY DEF Arrays, Summary
    <3>2. Agree(Run2(s1, s2), sem_wr_start)
      BY AgreeStart DEF sem_wr_start, Sems, Start
    <3> QED BY <3>1, <3>2, Runs
  <2>2. Agree(Run("sem_rd_start", val), Summary["sem_rd_start"])
    <3> DEFINE s1 == Sembuf("READER", 0, {})
               s2 == Sembuf("READER", 1, {"SEM_UNDO"})
    <3>1. /\ "sem_rd_start" \in DOMAIN Arrays
          /\ Summary["sem_rd_start"] = sem_rd_start
          /\ Arrays["sem_rd_start"] = <<s1, s2>>
      BY DEF Arrays, Summary
    <3>2. Agree(Run2(s1, s2), sem_rd_start)
      BY AgreeStart DEF sem_rd_start, Sems, Start
    <3> QED BY <3>1, <3>2, Runs
  <2>3. Agree(Run("sem_wait_pair", val), Summary["sem_wait_pair"])
    <3> DEFINE s1 == Sembuf("PAIR", 0, {})
    <3>1. /\ "sem_wait_pair" \in DOMAIN Arrays
          /\ Summary["sem_wait_pair"] = sem_wait_pair
          /\ Arrays["sem_wait_pair"] = <<s1>>
      BY DEF Arrays, Summary
    <3>2. Agree(Run1(s1), sem_wait_pair)
      BY AgreeWaitPair DEF sem_wait_pair, Sems
    <3> QED BY <3>1, <3>2, Runs
  <2>4. Agree(Run("sem_wr_init", val), Summary["sem_wr_init"])
    <3> DEFINE s1 == Sembuf("WRITER", 1, {"SEM_UNDO"})
               s2 == Sembuf("FULL", -1, {"SEM_UNDO"})
               s3 == Sembuf("FINISH", -1, {"SEM_UNDO"})
               s4 == Sembuf("MUTEX", -1, {"SEM_UNDO"})
    <3>1. /\ "sem_wr_init" \in DOMAIN Arrays
          /\ Summary["sem_wr_init"] = sem_wr_init
          /\ Arrays["sem_wr_init"] = <<s1, s2, s3, s4>>
      BY DEF Arrays, Summary
    <3>2. Agree(Run4(s1, s2, s3, s4), sem_wr_init)
      BY AgreeWrInit DEF sem_wr_init, Sems
    <3> QED BY <3>1, <3>2, Runs
  <2>5. Agree(Run("sem_rd_init", val), Summary["sem_rd_init"])
    <3> DEFINE s1 == Sembuf("READER", 1, {"SEM_UNDO"})
               s2 == Sembuf("EMPTY", -1, {"SEM_UNDO"})
               s3 == Sembuf("MUTEX", -1, {"SEM_UNDO"})
    <3>1. /\ "sem_rd_init" \in DOMAIN Arrays
          /\ Summary["sem_rd_init"] = sem_rd_init
          /\ Arrays["sem_rd_init"] = <<s1, s2, s3>>
      BY DEF Arrays, Summary
    <3>2. Agree(Run3(s1, s2, s3), sem_rd_init)
      BY AgreeRdInit DEF sem_rd_init, Sems
    <3> QED BY <3>1, <3>2, Runs
  <2>6. Agree(Run("sem_wr_wait_rd", val), Summary["sem_wr_wait_rd"])
    <3> DEFINE s1 == Sembuf("READER", -2, {})
               s2 == Sembuf("READER", 2, {})
               s3 == Sembuf("PAIR", 1, {"SEM_UNDO"})
    <3>1. /\ "sem_wr_wait_rd" \in DOMAIN Arrays
          /\ Summary["sem_wr_wait_rd"] = sem_wr_wait_rd
          /\ Arrays["sem_wr_wait_rd"] = <<s1, s2, s3>>
      BY DEF Arrays, Summary
    <3>2. Agree(Run3(s1, s2, s3), sem_wr_wait_rd)
      BY AgreeWaitPeer DEF sem_wr_wait_rd, Sems, WaitPeer
    <3> QED BY <3>1, <3>2, Runs
  <2>7. Agree(Run("sem_rd_wait_wr", val), Summary["sem_rd_wait_wr"])
    <3> DEFINE s1 == Sembuf("WRITER", -2, {})
               s2 == Sembuf("WRITER", 2, {})
               s3 == Sembuf("PAIR", 1, {"SEM_UNDO"})
    <3>1. /\ "sem_rd_wait_wr" \in DOMAIN Arrays
          /\ Summary["sem_rd_wait_wr"] = sem_rd_wait_wr
          /\ Arrays["sem_rd_wait_wr"] = <<s1, s2, s3>>
      BY DEF Arrays, Summary
    <3>2. Agree(Run3(s1, s2, s3), sem_rd_wait_wr)
      BY AgreeWaitPeer DEF sem_rd_wait_wr, Sems, WaitPeer
    <3> QED BY <3>1, <3>2, Runs
  <2>8. Agree(Run("sem_wr_finish", val), Summary["sem_wr_finish"])
    <3> DEFINE s1 == Sembuf("FINISH", 1, {})
    <3>1. /\ "sem_wr_finish" \in DOMAIN Arrays
          /\ Summary["sem_wr_finish"] = sem_wr_finish
          /\ Arrays["sem_wr_finish"] = <<s1>>
      BY DEF Arrays, Summary
    <3>2. Agree(Run1(s1), sem_wr_finish)
      BY AgreeV DEF sem_wr_finish, Sems
    <3> QED BY <3>1, <3>2, Runs
  <2>9. Agree(Run("sem_rd_check_wr_alive", val), Summary["sem_rd_check_wr_alive"])
    <3> DEFINE s1 == Sembuf("PAIR", -2, {"IPC_NOWAIT"})
               s2 == Sembuf("PAIR", 2, {})
               s3 == Sembuf("FINISH", 0, {"IPC_NOWAIT"})
    <3>1. /\ "sem_rd_check_wr_alive" \in DOMAIN Arrays
          /\ Summary["sem_rd_check_wr_alive"] = sem_rd_check_wr_alive
          /\ Arrays["sem_rd_check_wr_alive"] = <<s1, s2, s3>>
      BY DEF Arrays, Summary
    <3>2. Agree(Run3(s1, s2, s3), sem_rd_check_wr_alive)
      BY AgreeRdCheck DEF sem_rd_check_wr_alive, Sems
    <3> QED BY <3>1, <3>2, Runs
  <2>10. Agree(Run("sem_wr_check_rd_alive", val), Summary["sem_wr_check_rd_alive"])
    <3> DEFINE s1 == Sembuf("PAIR", -2, {"IPC_NOWAIT"})
               s2 == Sembuf("PAIR", 2, {})
    <3>1. /\ "sem_wr_check_rd_alive" \in DOMAIN Arrays
          /\ Summary["sem_wr_check_rd_alive"] = sem_wr_check_rd_alive
          /\ Arrays["sem_wr_check_rd_alive"] = <<s1, s2>>
      BY DEF Arrays, Summary
    <3>2. Agree(Run2(s1, s2), sem_wr_check_rd_alive)
      BY AgreeWrCheck DEF sem_wr_check_rd_alive, Sems
    <3> QED BY <3>1, <3>2, Runs
  <2>11. Agree(Run("sem_p_empty", val), Summary["sem_p_empty"])
    <3> DEFINE s1 == Sembuf("EMPTY", -1, {})
    <3>1. /\ "sem_p_empty" \in DOMAIN Arrays
          /\ Summary["sem_p_empty"] = sem_p_empty
          /\ Arrays["sem_p_empty"] = <<s1>>
      BY DEF Arrays, Summary
    <3>2. Agree(Run1(s1), sem_p_empty)
      BY AgreeP DEF sem_p_empty, Sems
    <3> QED BY <3>1, <3>2, Runs
  <2>12. Agree(Run("sem_v_empty", val), Summary["sem_v_empty"])
    <3> DEFINE s1 == Sembuf("EMPTY", 1, {})
    <3>1. /\ "sem_v_empty" \in DOMAIN Arrays
          /\ Summary["sem_v_empty"] = sem_v_empty
          /\ Arrays["sem_v_empty"] = <<s1>>
      BY DEF Arrays, Summary
    <3>2. Agree(Run1(s1), sem_v_empty)
      BY AgreeV DEF sem_v_empty, Sems
    <3> QED BY <3>1, <3>2, Runs
  <2>13. Agree(Run("sem_p_mutex", val), Summary["sem_p_mutex"])
    <3> DEFINE s1 == Sembuf("MUTEX", -1, {})
    <3>1. /\ "sem_p_mutex" \in DOMAIN Arrays
          /\ Summary["sem_p_mutex"] = sem_p_mutex
          /\ Arrays["sem_p_mutex"] = <<s1>>
      BY DEF Arrays, Summary
    <3>2. Agree(Run1(s1), sem_p_mutex)
      BY AgreeP DEF sem_p_mutex, Sems
    <3> QED BY <3>1, <3>2, Runs
  <2>14. Agree(Run("sem_v_mutex", val), Summary["sem_v_mutex"])
    <3> DEFINE s1 == Sembuf("MUTEX", 1, {})
    <3>1. /\ "sem_v_mutex" \in DOMAIN Arrays
          /\ Summary["sem_v_mutex"] = sem_v_mutex
          /\ Arrays["sem_v_mutex"] = <<s1>>
      BY DEF Arrays, Summary
    <3>2. Agree(Run1(s1), sem_v_mutex)
      BY AgreeV DEF sem_v_mutex, Sems
    <3> QED BY <3>1, <3>2, Runs
  <2>15. Agree(Run("sem_p_full", val), Summary["sem_p_full"])
    <3> DEFINE s1 == Sembuf("FULL", -1, {})
    <3>1. /\ "sem_p_full" \in DOMAIN Arrays
          /\ Summary["sem_p_full"] = sem_p_full
          /\ Arrays["sem_p_full"] = <<s1>>
      BY DEF Arrays, Summary
    <3>2. Agree(Run1(s1), sem_p_full)
      BY AgreeP DEF sem_p_full, Sems
    <3> QED BY <3>1, <3>2, Runs
  <2>16. Agree(Run("sem_v_full", val), Summary["sem_v_full"])
    <3> DEFINE s1 == Sembuf("FULL", 1, {})
    <3>1. /\ "sem_v_full" \in DOMAIN Arrays
          /\ Summary["sem_v_full"] = sem_v_full
          /\ Arrays["sem_v_full"] = <<s1>>
      BY DEF Arrays, Summary
    <3>2. Agree(Run1(s1), sem_v_full)
      BY AgreeV DEF sem_v_full, Sems
    <3> QED BY <3>1, <3>2, Runs
  <2>17. Agree(Run("sem_rd_finish", val), Summary["sem_rd_finish"])
    <3> DEFINE s1 == Sembuf("FINISH", 0, {"IPC_NOWAIT"})
    <3>1. /\ "sem_rd_finish" \in DOMAIN Arrays
          /\ Summary["sem_rd_finish"] = sem_rd_finish
          /\ Arrays["sem_rd_finish"] = <<s1>>
      BY DEF Arrays, Summary
    <3>2. Agree(Run1(s1), sem_rd_finish)
      BY AgreeRdFinish DEF sem_rd_finish, Sems
    <3> QED BY <3>1, <3>2, Runs
  <2>18. DOMAIN Arrays = {"sem_wr_start", "sem_rd_start", "sem_wait_pair", "sem_wr_init",
          "sem_rd_init", "sem_wr_wait_rd", "sem_rd_wait_wr", "sem_wr_finish", "sem_rd_finish",
          "sem_rd_check_wr_alive", "sem_wr_check_rd_alive", "sem_p_empty", "sem_v_empty",
          "sem_p_mutex", "sem_v_mutex", "sem_p_full", "sem_v_full"}
    BY DEF Arrays
  <2> QED BY <2>1, <2>2, <2>3, <2>4, <2>5, <2>6, <2>7, <2>8, <2>9, <2>10, <2>11, <2>12, <2>13,
             <2>14, <2>15, <2>16, <2>17, <2>18
<1> QED BY <1>1 DEF SummariesAgree, Agree

\* The change of each semaphore by each array is a number.
LEMMA SummaryChanges ==
  ASSUME NEW a \in DOMAIN Arrays
  PROVE  \A x \in Sems : Summary[a].add[x] \in Int
<1> DEFINE Changes(op) == \A x \in Sems : op.add[x] \in Int
<1>1. /\ Changes(sem_wr_start) /\ Changes(sem_rd_start) /\ Changes(sem_wait_pair)
      /\ Changes(sem_wr_init) /\ Changes(sem_rd_init)
      /\ Changes(sem_wr_wait_rd) /\ Changes(sem_rd_wait_wr)
      /\ Changes(sem_rd_finish)
      /\ Changes(sem_rd_check_wr_alive) /\ Changes(sem_wr_check_rd_alive)
  BY DEF Sembufs, NoSems, Sems, sem_wr_start, sem_rd_start, sem_wait_pair, sem_wr_init,
         sem_rd_init, sem_wr_wait_rd, sem_rd_wait_wr, sem_rd_finish, sem_rd_check_wr_alive,
         sem_wr_check_rd_alive
<1>2. \A x \in Sems : Changes(P(x)) /\ Changes(V(x))
  BY DEF Sembufs, NoSems, Sems, P, V
<1>3. /\ Changes(sem_wr_finish) /\ Changes(sem_p_empty) /\ Changes(sem_v_empty)
      /\ Changes(sem_p_mutex) /\ Changes(sem_v_mutex)
      /\ Changes(sem_p_full) /\ Changes(sem_v_full)
  BY <1>2 DEF Sems, sem_wr_finish, sem_p_empty, sem_v_empty, sem_p_mutex, sem_v_mutex,
              sem_p_full, sem_v_full
<1>4. Summary[a] \in {sem_wr_start, sem_rd_start, sem_wait_pair, sem_wr_init, sem_rd_init,
        sem_wr_wait_rd, sem_rd_wait_wr, sem_rd_finish, sem_rd_check_wr_alive,
        sem_wr_check_rd_alive, sem_wr_finish, sem_p_empty, sem_v_empty, sem_p_mutex, sem_v_mutex, sem_p_full,
        sem_v_full}
  BY DEF Arrays, Summary
<1> HIDE DEF Changes
<1>5. Changes(Summary[a])
  BY <1>1, <1>3, <1>4
<1> QED BY <1>5 DEF Changes

-----------------------------------------------------------------------------
\* The values of the set stay natural numbers: an array is only performed when its
\* summary says that it can be, and that leaves no value below 0.
ValuesInv == val \in [Sems -> Nat]

LEMMA ValuesInvariant == Spec => []ValuesInv
<1>1. Init => ValuesInv
  BY DEF Init, ValuesInv, NoSems
<1>2. ValuesInv /\ [Next]_val => ValuesInv'
  <2> SUFFICES ASSUME ValuesInv, [Next]_val PROVE ValuesInv'
    OBVIOUS
  <2>1. ASSUME NEW a \in DOMAIN Arrays, Semop(a) PROVE ValuesInv'
    <3>1. Run(a, val).res = "done" /\ val' = Run(a, val).val
      BY <2>1 DEF Semop
    <3>2. Agree(Run(a, val), Summary[a])
      BY SummariesHold DEF ValuesInv, SummariesAgree, Agree
    <3>3. Ready(Summary[a], val) /\ val' = Performed(Summary[a], val)
      BY <3>1, <3>2 DEF Agree
    <3>4. \A x \in Sems : val[x] + Summary[a].add[x] \in Int
      <4>1. \A x \in Sems : Summary[a].add[x] \in Int
        BY SummaryChanges
      <4> QED BY <4>1 DEF ValuesInv
    <3> QED BY <3>3, <3>4 DEF Ready, Performed, ValuesInv
  <2>2. ASSUME NEW x \in Sems, NEW n \in 0 .. MaxVal, Setval(x, n) PROVE ValuesInv'
    BY <2>2, MaxValAssumption DEF Setval, ValuesInv
  <2>3. CASE UNCHANGED val
    BY <2>3 DEF ValuesInv
  <2> QED BY <2>1, <2>2, <2>3 DEF Next
<1> QED BY <1>1, <1>2, PTL DEF Spec

\* On every value of a set, however large, each array of common.c, run one sembuf
\* at a time, is performed, sleeps or fails exactly when the summary that semop
\* uses says so, and leaves the values and the account that it says.
THEOREM SummariesAgreeCorrect == Spec => []SummariesAgree
<1>1. ValuesInv => SummariesAgree
  BY SummariesHold DEF ValuesInv
<1> QED BY <1>1, ValuesInvariant, PTL
=============================================================================
