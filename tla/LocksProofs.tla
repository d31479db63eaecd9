----------------------------- MODULE LocksProofs -----------------------------
(***************************************************************************)
(* Theorems of Locks, for any number of goroutines and any set of calls.   *)
(* The mutexes have an order that every call but GetStats follows.         *)
(***************************************************************************)
EXTENDS Locks, TLAPS

-----------------------------------------------------------------------------
(***************************************************************************)
(* Disciplined sequences of operations.                                    *)
(***************************************************************************)
\* The order: the album-art handler's mutex, the manager's, the others.
Rank(l) == IF l = "art" THEN 1 ELSE IF l = "manager" THEN 2 ELSE 3

Ops == [kind : {"Lock", "RLock", "Unlock", "RUnlock"}, lock : Mutexes]

\* The first operation on l at or after the i-th is of this kind.
First(p, i, kind, l) ==
    \E j \in i .. Len(p) :
        p[j] = [kind |-> kind, lock |-> l] /\ \A k \in i .. (j - 1) : p[k].lock # l

Acquires(op) == op.kind \in {"Lock", "RLock"}

\* At the i-th operation l is locked: the next operation on it unlocks it.
Held(p, i, l) == First(p, i, "Unlock", l) \/ First(p, i, "RUnlock", l)

\* What is locked is unlocked, by the operation that fits.
Balanced(p) ==
    \A i \in 1 .. Len(p) :
        /\ p[i].kind = "Lock" => First(p, i + 1, "Unlock", p[i].lock)
        /\ p[i].kind = "RLock" => First(p, i + 1, "RUnlock", p[i].lock)

\* A mutex that is locked under another has the higher rank.
Ordered(p) ==
    \A i \in 1 .. Len(p), l \in Mutexes :
        Acquires(p[i]) /\ Held(p, i, l) => Rank(l) < Rank(p[i].lock)

\* Nothing is locked at the beginning.
Closed(p) == \A l \in Mutexes : ~Held(p, 1, l)

Disciplined(p, r) ==
    /\ p \in Seq(Ops) /\ Balanced(p) /\ Ordered(p) /\ Closed(p)
    /\ \A i \in 1 .. Len(p) : r < Rank(p[i].lock)

-----------------------------------------------------------------------------
\* The empty sequence, a sequence after another, and a section under a mutex whose
\* rank is below the section's.
LEMMA EmptyDisciplined == ASSUME NEW r \in Nat PROVE Disciplined(<<>>, r)
BY DEF Disciplined, Balanced, Ordered, Closed, Held, First

LEMMA ConcatElements ==
    ASSUME NEW p \in Seq(Ops), NEW q \in Seq(Ops)
    PROVE  /\ p \o q \in Seq(Ops) /\ Len(p \o q) = Len(p) + Len(q)
           /\ \A i \in 1 .. Len(p) : (p \o q)[i] = p[i]
           /\ \A i \in 1 .. Len(q) : (p \o q)[Len(p) + i] = q[i]
OBVIOUS

LEMMA ConcatFirst ==
    ASSUME NEW p \in Seq(Ops), NEW q \in Seq(Ops), NEW s, s = p \o q, NEW l \in Mutexes, NEW kind
    PROVE  /\ \A i \in 1 .. (Len(p) + 1) :
                  First(s, i, kind, l) => First(p, i, kind, l) \/ First(q, 1, kind, l)
           /\ \A i \in 1 .. (Len(p) + 1) : First(p, i, kind, l) => First(s, i, kind, l)
           /\ \A i \in 1 .. (Len(q) + 1) : First(s, Len(p) + i, kind, l) => First(q, i, kind, l)
           /\ \A i \in 1 .. (Len(q) + 1) : First(q, i, kind, l) => First(s, Len(p) + i, kind, l)
<1>1. /\ s \in Seq(Ops) /\ Len(s) = Len(p) + Len(q)
      /\ \A i \in 1 .. Len(p) : s[i] = p[i]
      /\ \A i \in 1 .. Len(q) : s[Len(p) + i] = q[i]
  BY ConcatElements
<1>2. ASSUME NEW i \in 1 .. (Len(p) + 1), First(s, i, kind, l)
      PROVE  First(p, i, kind, l) \/ First(q, 1, kind, l)
  <2>1. PICK j \in i .. Len(s) :
            s[j] = [kind |-> kind, lock |-> l] /\ \A k \in i .. (j - 1) : s[k].lock # l
    BY <1>2 DEF First
  <2>2. CASE j <= Len(p)
    <3>1. j \in i .. Len(p) /\ p[j] = [kind |-> kind, lock |-> l]
      BY <1>1, <2>1, <2>2
    <3>2. \A k \in i .. (j - 1) : p[k].lock # l
      BY <1>1, <2>1, <2>2
    <3> QED
      BY <3>1, <3>2 DEF First
  <2>3. CASE j > Len(p)
    <3> DEFINE m == j - Len(p)
    <3>1. m \in 1 .. Len(q) /\ q[m] = [kind |-> kind, lock |-> l]
      BY <1>1, <2>1, <2>3
    <3>2. ASSUME NEW k \in 1 .. (m - 1) PROVE q[k].lock # l
      <4>1. Len(p) + k \in i .. (j - 1) /\ k \in 1 .. Len(q)
        BY <2>3, <3>1
      <4> QED
        BY <1>1, <2>1, <4>1
    <3> HIDE DEF m
    <3> QED
      BY <3>1, <3>2 DEF First
  <2> QED
    BY <2>2, <2>3, <1>1
<1>3. ASSUME NEW i \in 1 .. (Len(p) + 1), First(p, i, kind, l) PROVE First(s, i, kind, l)
  BY <1>1, <1>3 DEF First
<1>4. ASSUME NEW i \in 1 .. (Len(q) + 1), First(s, Len(p) + i, kind, l)
      PROVE  First(q, i, kind, l)
  <2>1. PICK j \in (Len(p) + i) .. Len(s) :
            /\ s[j] = [kind |-> kind, lock |-> l]
            /\ \A k \in (Len(p) + i) .. (j - 1) : s[k].lock # l
    BY <1>4 DEF First
  <2> DEFINE m == j - Len(p)
  <2>2. m \in i .. Len(q) /\ q[m] = [kind |-> kind, lock |-> l]
    BY <1>1, <2>1
  <2>3. ASSUME NEW k \in i .. (m - 1) PROVE q[k].lock # l
    <3>1. Len(p) + k \in (Len(p) + i) .. (j - 1) /\ k \in 1 .. Len(q)
      BY <2>2
    <3> QED
      BY <1>1, <2>1, <3>1
  <2> HIDE DEF m
  <2> QED
    BY <2>2, <2>3 DEF First
<1>5. ASSUME NEW i \in 1 .. (Len(q) + 1), First(q, i, kind, l)
      PROVE  First(s, Len(p) + i, kind, l)
  <2>1. PICK j \in i .. Len(q) :
            q[j] = [kind |-> kind, lock |-> l] /\ \A k \in i .. (j - 1) : q[k].lock # l
    BY <1>5 DEF First
  <2>2. /\ Len(p) + j \in (Len(p) + i) .. Len(s)
        /\ s[Len(p) + j] = [kind |-> kind, lock |-> l]
    BY <1>1, <2>1
  <2>3. ASSUME NEW k \in (Len(p) + i) .. (Len(p) + j - 1) PROVE s[k].lock # l
    <3>1. k - Len(p) \in i .. (j - 1) /\ k - Len(p) \in 1 .. Len(q) /\ k = Len(p) + (k - Len(p))
      BY <2>1
    <3> QED
      BY <1>1, <2>1, <3>1
  <2> DEFINE m == Len(p) + j
  <2>4. m \in (Len(p) + i) .. Len(s) /\ \A k \in (Len(p) + i) .. (m - 1) : s[k].lock # l
    BY <2>2, <2>3
  <2>5. s[m] = [kind |-> kind, lock |-> l]
    BY <2>2
  <2> HIDE DEF m
  <2> QED
    BY <2>4, <2>5 DEF First
<1> QED
  BY <1>2, <1>3, <1>4, <1>5

LEMMA ConcatDisciplined ==
    ASSUME NEW p, NEW q, NEW r \in Nat, Disciplined(p, r), Disciplined(q, r)
    PROVE  Disciplined(p \o q, r)
<1> DEFINE s == p \o q
<1>1. p \in Seq(Ops) /\ q \in Seq(Ops)
  BY DEF Disciplined
<1>2. /\ s \in Seq(Ops) /\ Len(s) = Len(p) + Len(q)
      /\ \A i \in 1 .. Len(p) : s[i] = p[i]
      /\ \A i \in 1 .. Len(q) : s[Len(p) + i] = q[i]
  BY <1>1, ConcatElements
<1>3. ASSUME NEW l \in Mutexes, NEW kind
      PROVE  /\ \A i \in 1 .. (Len(p) + 1) :
                    First(s, i, kind, l) => First(p, i, kind, l) \/ First(q, 1, kind, l)
             /\ \A i \in 1 .. (Len(p) + 1) : First(p, i, kind, l) => First(s, i, kind, l)
             /\ \A i \in 1 .. (Len(q) + 1) :
                    First(s, Len(p) + i, kind, l) => First(q, i, kind, l)
             /\ \A i \in 1 .. (Len(q) + 1) :
                    First(q, i, kind, l) => First(s, Len(p) + i, kind, l)
  BY <1>1, ConcatFirst
<1> HIDE DEF s
<1>4. \A i \in 1 .. Len(s) :
          i \in 1 .. Len(p) \/ (i - Len(p) \in 1 .. Len(q) /\ i = Len(p) + (i - Len(p)))
  BY <1>1, <1>2
<1>5. \A i \in 1 .. Len(p) : p[i] \in Ops
  BY <1>1
<1>6. \A i \in 1 .. Len(q) : q[i] \in Ops
  BY <1>1
<1>7. Balanced(s)
  <2> SUFFICES ASSUME NEW i \in 1 .. Len(s)
               PROVE  /\ s[i].kind = "Lock" => First(s, i + 1, "Unlock", s[i].lock)
                      /\ s[i].kind = "RLock" => First(s, i + 1, "RUnlock", s[i].lock)
    BY DEF Balanced
  <2>1. CASE i \in 1 .. Len(p)
    <3>1. /\ p[i].kind = "Lock" => First(p, i + 1, "Unlock", p[i].lock)
          /\ p[i].kind = "RLock" => First(p, i + 1, "RUnlock", p[i].lock)
      BY <2>1 DEF Disciplined, Balanced
    <3>2. s[i] = p[i] /\ p[i].lock \in Mutexes /\ i + 1 \in 1 .. (Len(p) + 1)
      BY <2>1, <1>2, <1>5 DEF Ops
    <3> QED
      BY <3>1, <3>2, <1>3
  <2>2. CASE i - Len(p) \in 1 .. Len(q) /\ i = Len(p) + (i - Len(p))
    <3> DEFINE k == i - Len(p)
    <3>1. /\ q[k].kind = "Lock" => First(q, k + 1, "Unlock", q[k].lock)
          /\ q[k].kind = "RLock" => First(q, k + 1, "RUnlock", q[k].lock)
      BY <2>2 DEF Disciplined, Balanced
    <3>2. /\ s[i] = q[k] /\ q[k].lock \in Mutexes /\ k + 1 \in 1 .. (Len(q) + 1)
          /\ i + 1 = Len(p) + (k + 1)
      BY <2>2, <1>1, <1>2, <1>6 DEF Ops
    <3> HIDE DEF k
    <3> QED
      BY <3>1, <3>2, <1>3
  <2> QED
    BY <2>1, <2>2, <1>4
<1>8. ASSUME NEW l \in Mutexes PROVE ~Held(q, 1, l)
  BY <1>8 DEF Disciplined, Closed
<1>9. Ordered(s)
  <2> SUFFICES ASSUME NEW i \in 1 .. Len(s), NEW l \in Mutexes, Acquires(s[i]), Held(s, i, l)
               PROVE  Rank(l) < Rank(s[i].lock)
    BY DEF Ordered
  <2>1. CASE i \in 1 .. Len(p)
    <3>1. Held(p, i, l)
      BY <2>1, <1>1, <1>3, <1>8 DEF Held
    <3> QED
      BY <2>1, <3>1, <1>2 DEF Disciplined, Ordered
  <2>2. CASE i - Len(p) \in 1 .. Len(q) /\ i = Len(p) + (i - Len(p))
    <3> DEFINE k == i - Len(p)
    <3>1. k \in 1 .. (Len(q) + 1) /\ k \in 1 .. Len(q) /\ i = Len(p) + k
      BY <2>2, <1>1
    <3>2. s[i] = q[k]
      BY <2>2, <1>2
    <3> HIDE DEF k
    <3>3. Held(q, k, l)
      BY <3>1, <1>3 DEF Held
    <3> QED
      BY <3>1, <3>2, <3>3 DEF Disciplined, Ordered
  <2> QED
    BY <2>1, <2>2, <1>4
<1>10. Closed(s)
  <2> SUFFICES ASSUME NEW l \in Mutexes, Held(s, 1, l) PROVE FALSE
    BY DEF Closed
  <2>1. Held(p, 1, l)
    BY <1>1, <1>3, <1>8 DEF Held
  <2> QED
    BY <2>1 DEF Disciplined, Closed
<1>11. \A i \in 1 .. Len(s) : r < Rank(s[i].lock)
  <2> SUFFICES ASSUME NEW i \in 1 .. Len(s) PROVE r < Rank(s[i].lock)
    OBVIOUS
  <2>1. CASE i \in 1 .. Len(p)
    BY <2>1, <1>2 DEF Disciplined
  <2>2. CASE i - Len(p) \in 1 .. Len(q) /\ i = Len(p) + (i - Len(p))
    <3>1. s[i] = q[i - Len(p)]
      BY <2>2, <1>2
    <3> QED
      BY <2>2, <3>1 DEF Disciplined
  <2> QED
    BY <2>1, <2>2, <1>4
<1> QED
  BY <1>2, <1>7, <1>9, <1>10, <1>11 DEF Disciplined, s

\* A section of a higher rank under a mutex.
LEMMA SectionDisciplined ==
    ASSUME NEW l \in Mutexes, NEW body, NEW r \in Nat, r < Rank(l),
           Disciplined(body, Rank(l)),
           NEW opening, NEW closing,
           <<opening, closing>> \in {<<"Lock", "Unlock">>, <<"RLock", "RUnlock">>}
    PROVE  Disciplined(Op(opening, l) \o body \o Op(closing, l), r)
<1> DEFINE s == Op(opening, l) \o body \o Op(closing, l)
           a == [kind |-> opening, lock |-> l]
           z == [kind |-> closing, lock |-> l]
           n == Len(body)
<1>1. body \in Seq(Ops) /\ n \in Nat /\ \A i \in 1 .. n : body[i] \in Ops
  BY DEF Disciplined
<1>2. a \in Ops /\ z \in Ops
  BY DEF Ops
<1>3. /\ s \in Seq(Ops) /\ Len(s) = n + 2 /\ s[1] = a /\ s[n + 2] = z
      /\ \A i \in 1 .. n : s[i + 1] = body[i]
  <2>1. Op(opening, l) = <<a>> /\ Op(closing, l) = <<z>>
    BY DEF Op
  <2>2. <<a>> \in Seq(Ops) /\ <<z>> \in Seq(Ops)
    BY <1>2
  <2> HIDE DEF a, z
  <2>3. /\ <<a>> \o body \in Seq(Ops) /\ Len(<<a>> \o body) = n + 1
        /\ (<<a>> \o body)[1] = a /\ \A i \in 1 .. n : (<<a>> \o body)[i + 1] = body[i]
    BY <1>1, <2>2
  <2> DEFINE front == <<a>> \o body
  <2>4. s = front \o <<z>>
    BY <2>1
  <2> HIDE DEF front, s
  <2> QED
    BY <2>2, <2>3, <2>4, <1>1 DEF front
<1> HIDE DEF s
<1>4. \A i \in 1 .. n : Rank(l) < Rank(body[i].lock) /\ body[i].lock # l
  BY DEF Disciplined, Rank
<1>5. \A i \in 1 .. (n + 2) : i = 1 \/ i = n + 2 \/ (i - 1 \in 1 .. n /\ i = (i - 1) + 1)
  BY <1>1
<1>6. ASSUME NEW m \in Mutexes, m # l, NEW kind, NEW i \in 1 .. (n + 1), First(s, i + 1, kind, m)
      PROVE  First(body, i, kind, m)
  <2>1. PICK j \in (i + 1) .. Len(s) :
            s[j] = [kind |-> kind, lock |-> m] /\ \A k \in (i + 1) .. (j - 1) : s[k].lock # m
    BY <1>6 DEF First
  <2>2. j - 1 \in i .. n /\ body[j - 1] = [kind |-> kind, lock |-> m]
    BY <2>1, <1>1, <1>3, <1>5, <1>6
  <2>3. ASSUME NEW k \in i .. (j - 2) PROVE body[k].lock # m
    <3>1. k + 1 \in (i + 1) .. (j - 1) /\ k \in 1 .. n
      BY <2>2, <1>1
    <3> QED
      BY <3>1, <2>1, <1>3
  <2> QED
    BY <2>2, <2>3, <1>1 DEF First
<1>7. ASSUME NEW m \in Mutexes, NEW kind, NEW i \in 1 .. (n + 1), First(body, i, kind, m)
      PROVE  First(s, i + 1, kind, m)
  <2>1. PICK j \in i .. n :
            body[j] = [kind |-> kind, lock |-> m] /\ \A k \in i .. (j - 1) : body[k].lock # m
    BY <1>7 DEF First
  <2>2. j \in 1 .. n /\ j + 1 \in (i + 1) .. Len(s)
    BY <2>1, <1>1, <1>3
  <2>3. ASSUME NEW k \in (i + 1) .. j PROVE s[k].lock # m
    <3>1. k - 1 \in i .. (j - 1) /\ k - 1 \in 1 .. n /\ k = (k - 1) + 1
      BY <2>1, <1>1
    <3> QED
      BY <3>1, <2>1, <1>3
  <2>4. s[j + 1] = [kind |-> kind, lock |-> m]
    BY <2>1, <2>2, <1>3
  <2> QED
    BY <2>2, <2>3, <2>4, <1>1 DEF First
<1>8. First(s, 2, closing, l)
  <2>1. ASSUME NEW k \in 2 .. (n + 1) PROVE s[k].lock # l
    <3>1. k - 1 \in 1 .. n /\ k = (k - 1) + 1
      BY <1>1
    <3> QED
      BY <3>1, <1>3, <1>4
  <2> QED
    BY <2>1, <1>1, <1>3 DEF First
<1>9. ASSUME NEW m \in Mutexes, Held(s, 1, m) PROVE FALSE
  <2>1. m # l
    BY <1>9, <1>1, <1>3 DEF Held, First
  <2>2. ASSUME NEW kind, First(s, 1, kind, m) PROVE First(s, 2, kind, m)
    <3>1. PICK j \in 1 .. Len(s) :
              s[j] = [kind |-> kind, lock |-> m] /\ \A k \in 1 .. (j - 1) : s[k].lock # m
      BY <2>2 DEF First
    <3>2. j # 1
      BY <3>1, <2>1, <1>3
    <3> QED
      BY <3>1, <3>2, <1>1, <1>3 DEF First
  <2>3. \A kind : First(s, 1 + 1, kind, m) => First(body, 1, kind, m)
    BY <2>1, <1>1, <1>6
  <2>4. Held(body, 1, m)
    BY <1>9, <2>2, <2>3 DEF Held
  <2> QED
    BY <2>4 DEF Disciplined, Closed
<1>10. Balanced(s)
  <2> SUFFICES ASSUME NEW i \in 1 .. Len(s)
               PROVE  /\ s[i].kind = "Lock" => First(s, i + 1, "Unlock", s[i].lock)
                      /\ s[i].kind = "RLock" => First(s, i + 1, "RUnlock", s[i].lock)
    BY DEF Balanced
  <2>1. CASE i = 1
    BY <2>1, <1>3, <1>8
  <2>2. CASE i = n + 2
    BY <2>2, <1>3
  <2>3. CASE i - 1 \in 1 .. n /\ i = (i - 1) + 1
    <3>1. /\ body[i - 1].kind = "Lock" => First(body, i, "Unlock", body[i - 1].lock)
          /\ body[i - 1].kind = "RLock" => First(body, i, "RUnlock", body[i - 1].lock)
      BY <2>3, <1>1 DEF Disciplined, Balanced
    <3>2. s[i] = body[i - 1] /\ body[i - 1].lock \in Mutexes /\ i \in 1 .. (n + 1)
      BY <2>3, <1>1, <1>3 DEF Ops
    <3> QED
      BY <3>1, <3>2, <1>7
  <2> QED
    BY <2>1, <2>2, <2>3, <1>3, <1>5
<1>11. Ordered(s)
  <2> SUFFICES ASSUME NEW i \in 1 .. Len(s), NEW m \in Mutexes, Acquires(s[i]), Held(s, i, m)
               PROVE  Rank(m) < Rank(s[i].lock)
    BY DEF Ordered
  <2>1. CASE i = 1
    BY <2>1, <1>9
  <2>2. CASE i = n + 2
    BY <2>2, <1>3 DEF Acquires
  <2>3. CASE i - 1 \in 1 .. n /\ i = (i - 1) + 1
    <3>1. s[i] = body[i - 1]
      BY <2>3, <1>3
    <3>2. CASE m = l
      BY <2>3, <3>1, <3>2, <1>4
    <3>3. CASE m # l
      <4>1. Held(body, i - 1, m)
        BY <2>3, <3>3, <1>1, <1>6 DEF Held
      <4> QED
        BY <2>3, <3>1, <4>1 DEF Disciplined, Ordered
    <3> QED
      BY <3>2, <3>3
  <2> QED
    BY <2>1, <2>2, <2>3, <1>3, <1>5
<1>12. \A i \in 1 .. Len(s) : r < Rank(s[i].lock)
  <2> SUFFICES ASSUME NEW i \in 1 .. Len(s) PROVE r < Rank(s[i].lock)
    OBVIOUS
  <2>1. CASE i = 1 \/ i = n + 2
    BY <2>1, <1>3
  <2>2. CASE i - 1 \in 1 .. n /\ i = (i - 1) + 1
    <3>1. s[i] = body[i - 1]
      BY <2>2, <1>3
    <3> QED
      BY <2>2, <3>1, <1>4 DEF Rank
  <2> QED
    BY <2>1, <2>2, <1>3, <1>5
<1> QED
  BY <1>3, <1>9, <1>10, <1>11, <1>12 DEF Disciplined, Closed, s

-----------------------------------------------------------------------------
(***************************************************************************)
(* The calls.                                                              *)
(***************************************************************************)
Section(p, r) == Disciplined(p, r) /\ p # <<>>

LEMMA Sequence ==
    ASSUME NEW p, NEW q, NEW r \in Nat, Section(p, r), Section(q, r) PROVE Section(p \o q, r)
<1>1. Disciplined(p \o q, r)
  BY ConcatDisciplined DEF Section
<1>2. p \in Seq(Ops) /\ q \in Seq(Ops) /\ p # <<>>
  BY DEF Section, Disciplined
<1> QED
  BY <1>1, <1>2 DEF Section

LEMMA Guarded ==
    ASSUME NEW l \in Mutexes, NEW body, NEW r \in Nat, r < Rank(l),
           body = <<>> \/ Section(body, Rank(l))
    PROVE  Section(Locked(l, body), r) /\ Section(RLocked(l, body), r)
<1>1. Rank(l) \in Nat
  BY DEF Rank
<1>2. Disciplined(body, Rank(l))
  BY <1>1, EmptyDisciplined DEF Section
<1>3. body \in Seq(Ops)
  BY <1>2 DEF Disciplined
<1>4. \A kind \in {"Lock", "RLock", "Unlock", "RUnlock"} :
          Op(kind, l) \in Seq(Ops) /\ Len(Op(kind, l)) = 1
  BY DEF Op, Ops
<1>5. Locked(l, body) # <<>> /\ RLocked(l, body) # <<>>
  BY <1>3, <1>4, ConcatElements DEF Locked, RLocked
<1>6. Disciplined(Locked(l, body), r) /\ Disciplined(RLocked(l, body), r)
  BY <1>2, SectionDisciplined DEF Locked, RLocked
<1> QED
  BY <1>5, <1>6 DEF Section

\* Every call but GetStats follows the order, and leaves nothing locked.
LEMMA ProgramSection ==
    ASSUME NEW c \in Calls, c # "GetStats" PROVE Section(Program(c), 0)
<1>1. /\ \A l \in Mutexes : l \in {"art", "manager", "current", "hub", "client"}
      /\ Rank("art") = 1 /\ Rank("manager") = 2
      /\ Rank("current") = 3 /\ Rank("hub") = 3 /\ Rank("client") = 3
  BY DEF Mutexes, Rank
<1>2. \A l \in {"current", "hub", "client"}, r \in 0 .. 2 :
          Section(Locked(l, <<>>), r) /\ Section(RLocked(l, <<>>), r)
  BY <1>1, Guarded DEF Mutexes
<1>3. \A r \in 0 .. 1 : Section(Locked("manager", <<>>), r) /\ Section(RLocked("manager", <<>>), r)
  BY <1>1, Guarded DEF Mutexes
<1>4. Section(Locked("art", <<>>), 0) /\ Section(RLocked("art", <<>>), 0)
  BY <1>1, Guarded DEF Mutexes
<1>5. \A r \in 0 .. 2 : Section(Broadcast, r) /\ Section(SetCurrentAlbumArt, r)
  BY <1>2, Sequence DEF Broadcast, SetCurrentAlbumArt
<1>6. \A r \in 0 .. 1 : Section(RecordActivity, r)
  BY <1>3 DEF RecordActivity
<1>7. Section(Locked("manager", Broadcast), 0)
  BY <1>1, <1>5, Guarded DEF Mutexes
<1>8. Section(ArtCallback, 1)
  <2>1. Section(RecordActivity \o SetCurrentAlbumArt, 1)
    BY <1>5, <1>6, Sequence
  <2>2. Section(RecordActivity \o SetCurrentAlbumArt \o Broadcast, 1)
    BY <2>1, <1>5, Sequence
  <2> QED
    BY <2>2, <1>5, Sequence DEF ArtCallback
<1>9. Section(ReceiveLastChunk, 0)
  <2>1. Section(Locked("art", ArtCallback), 0)
    BY <1>1, <1>8, Guarded DEF Mutexes
  <2> QED
    BY <1>4, <2>1, Sequence DEF ReceiveLastChunk
<1>10. Section(ReadArt, 0)
  <2>1. Section(RLocked("art", <<>>) \o RLocked("art", <<>>), 0)
    BY <1>4, Sequence
  <2> QED
    BY <1>4, <2>1, Sequence DEF ReadArt
<1>11. Section(CheckAlbumArt, 0)
  <2>1. Section(RLocked("art", <<>>) \o Locked("art", <<>>), 0)
    BY <1>4, Sequence
  <2>2. Section(RLocked("art", <<>>) \o Locked("art", <<>>) \o SetCurrentAlbumArt, 0)
    BY <1>5, <2>1, Sequence
  <2> QED
    BY <1>5, <2>2, Sequence DEF CheckAlbumArt
<1>12. Section(UpdateMediaState, 0)
  <2>1. Section(RLocked("client", <<>>) \o RecordActivity, 0)
    BY <1>2, <1>6, Sequence
  <2> QED
    BY <1>7, <2>1, Sequence DEF UpdateMediaState
<1>13. Section(SendMediaCommand, 0)
  <2>1. Section(RecordActivity \o Locked("manager", Broadcast), 0)
    BY <1>6, <1>7, Sequence
  <2> QED
    BY <1>2, <2>1, Sequence DEF SendMediaCommand
<1>14. Section(SendUpdate, 0) /\ Section(CheckConnectionStatus, 0)
  BY <1>3, <1>5, <1>7, Sequence DEF SendUpdate, CheckConnectionStatus
<1>15. /\ Section(ReadState, 0) /\ Section(ChangeArt, 0)
       /\ Section(ChangeClients, 0) /\ Section(GetCurrentAlbumArt, 0)
  BY <1>2, <1>3, <1>4 DEF ReadState, ChangeArt, ChangeClients, GetCurrentAlbumArt
<1> QED
  BY <1>9, <1>10, <1>11, <1>12, <1>13, <1>14, <1>15, LocksAssumption DEF Program

-----------------------------------------------------------------------------
(***************************************************************************)
(* The goroutines.                                                         *)
(***************************************************************************)
\* The next operation of g on l is one of this kind.
Owes(g, kind, l) == in[g] # Idle /\ First(Program(in[g]), pc[g], kind, l)

\* Who has locked a mutex will unlock it.
OwnersUnlock ==
    \A l \in Mutexes :
        /\ writer[l] # Idle => Owes(writer[l], "Unlock", l)
        /\ \A g \in readers[l] : Owes(g, "RUnlock", l)

IInv == TypeOK /\ OwnersUnlock

LEMMA InitIInv == Init => IInv
BY LocksAssumption DEF Init, IInv, TypeOK, OwnersUnlock

\* A goroutine in a call is at an operation of it.
LEMMA CurrentOp ==
    ASSUME TypeOK, "GetStats" \notin Calls, NEW g \in Goroutines, in[g] # Idle
    PROVE  /\ in[g] \in Calls /\ Program(in[g]) \in Seq(Ops)
           /\ Balanced(Program(in[g])) /\ Ordered(Program(in[g]))
           /\ pc[g] \in 1 .. Len(Program(in[g]))
           /\ Current(g) \in Ops /\ Current(g) = Program(in[g])[pc[g]]
<1>1. in[g] \in Calls /\ Section(Program(in[g]), 0)
  BY ProgramSection DEF TypeOK
<1>2. Program(in[g]) \in Seq(Ops) /\ pc[g] \in 1 .. Len(Program(in[g]))
  BY <1>1 DEF Section, Disciplined, TypeOK
<1> QED
  BY <1>1, <1>2 DEF Section, Disciplined, Current

\* What a goroutine owes it still owes after an operation on another mutex; one that
\* locks a mutex owes the unlock that fits; an operation on a mutex it owes an
\* unlock of is that unlock.
LEMMA OwesAfter ==
    ASSUME TypeOK, "GetStats" \notin Calls, NEW S \in SUBSET Goroutines, Advance(S),
           NEW g \in Goroutines, NEW l \in Mutexes, NEW kind, Owes(g, kind, l),
           g \in S => Current(g).lock # l
    PROVE  Owes(g, kind, l)'
<1>1. CASE g \notin S
  BY <1>1 DEF Advance, Owes
<1>2. CASE g \in S
  <2> DEFINE p == Program(in[g])
  <2>1. /\ p \in Seq(Ops) /\ pc[g] \in 1 .. Len(p) /\ p[pc[g]].lock # l /\ in[g] # Idle
        /\ First(p, pc[g], kind, l)
    BY <1>2, CurrentOp DEF Owes
  <2> HIDE DEF p
  <2>2. PICK j \in pc[g] .. Len(p) :
            p[j] = [kind |-> kind, lock |-> l] /\ \A k \in pc[g] .. (j - 1) : p[k].lock # l
    BY <2>1 DEF First
  <2>3. j # pc[g]
    BY <2>1, <2>2
  <2>4. First(p, pc[g] + 1, kind, l) /\ pc[g] # Len(p)
    BY <2>1, <2>2, <2>3 DEF First
  <2>5. in'[g] = in[g] /\ pc'[g] = pc[g] + 1
    BY <1>2, <2>4 DEF Advance, p
  <2> QED
    BY <2>1, <2>4, <2>5 DEF Owes, p
<1> QED
  BY <1>1, <1>2

LEMMA OwesUnlock ==
    ASSUME TypeOK, "GetStats" \notin Calls, NEW S \in SUBSET Goroutines, Advance(S),
           NEW g \in S, NEW l \in Mutexes, Current(g).lock = l, NEW kind,
           \/ At(g, "Lock") /\ kind = "Unlock"
           \/ At(g, "RLock") /\ kind = "RUnlock"
    PROVE  Owes(g, kind, l)'
<1> DEFINE p == Program(in[g])
<1>1. /\ p \in Seq(Ops) /\ pc[g] \in 1 .. Len(p) /\ Balanced(p) /\ p[pc[g]] = Current(g)
      /\ in[g] # Idle
  BY CurrentOp DEF At
<1> HIDE DEF p
<1>2. First(p, pc[g] + 1, kind, l)
  BY <1>1 DEF At, Balanced
<1>3. pc[g] # Len(p)
  BY <1>1, <1>2 DEF First
<1>4. in'[g] = in[g] /\ pc'[g] = pc[g] + 1
  BY <1>3 DEF Advance, p
<1> QED
  BY <1>1, <1>2, <1>4 DEF Owes, p

LEMMA OwesCurrent ==
    ASSUME TypeOK, "GetStats" \notin Calls, NEW g \in Goroutines, NEW l \in Mutexes, NEW kind,
           Owes(g, kind, l), Current(g).lock = l
    PROVE  Current(g).kind = kind
<1>1. PICK j \in pc[g] .. Len(Program(in[g])) :
          /\ Program(in[g])[j] = [kind |-> kind, lock |-> l]
          /\ \A k \in pc[g] .. (j - 1) : Program(in[g])[k].lock # l
  BY DEF Owes, First
<1>2. pc[g] \in 1 .. Len(Program(in[g])) /\ Current(g) = Program(in[g])[pc[g]]
  BY CurrentOp DEF Owes
<1>3. j = pc[g]
  BY <1>1, <1>2
<1> QED
  BY <1>1, <1>2, <1>3

-----------------------------------------------------------------------------
(***************************************************************************)
(* Every step keeps the invariant.                                         *)
(***************************************************************************)
LEMMA NextIInv == "GetStats" \notin Calls /\ IInv /\ [Next]_vars => IInv'
<1> SUFFICES ASSUME "GetStats" \notin Calls, TypeOK, OwnersUnlock, [Next]_vars PROVE IInv'
  BY DEF IInv
<1>1. \A l \in Mutexes :
          /\ writer[l] # Idle => writer[l] \in Goroutines /\ readers[l] = {}
          /\ readers[l] \subseteq Goroutines
  BY DEF TypeOK
\* What Advance does to types, and to who waits.
<1>2. ASSUME NEW S \in SUBSET Goroutines, Advance(S), \A g \in S : in[g] # Idle
      PROVE  /\ in' \in [Goroutines -> Calls \cup {Idle}]
             /\ \A g \in Goroutines :
                    IF in'[g] = Idle THEN pc'[g] = 1 ELSE pc'[g] \in DOMAIN Program(in'[g])
             /\ waits' \subseteq {g \in Goroutines : At(g, "Lock") \/ At(g, "RLock")}'
  <2>1. in' \in [Goroutines -> Calls \cup {Idle}]
    BY <1>2 DEF Advance, TypeOK
  <2>2. ASSUME NEW g \in Goroutines
        PROVE  IF in'[g] = Idle THEN pc'[g] = 1 ELSE pc'[g] \in DOMAIN Program(in'[g])
    <3>1. CASE in[g] = Idle
      BY <1>2, <3>1 DEF Advance, TypeOK
    <3>2. CASE in[g] # Idle
      BY <1>2, <3>2, CurrentOp DEF Advance, TypeOK
    <3> QED
      BY <3>1, <3>2
  <2>3. ASSUME NEW g \in waits'
        PROVE  g \in Goroutines /\ (At(g, "Lock") \/ At(g, "RLock"))'
    <3>1. g \in waits /\ g \notin S /\ g \in Goroutines
      BY <1>2, <2>3 DEF Advance, TypeOK
    <3>2. in'[g] = in[g] /\ pc'[g] = pc[g]
      BY <1>2, <3>1 DEF Advance
    <3> QED
      BY <3>1, <3>2 DEF At, Current, TypeOK
  <2> QED
    BY <2>1, <2>2, <2>3
<1>3. ASSUME NEW g \in Goroutines, Call(g) PROVE IInv'
  <2>1. PICK c \in Calls : in' = [in EXCEPT ![g] = c]
    BY <1>3 DEF Call
  <2>2. in[g] = Idle /\ UNCHANGED <<pc, waits, writer, readers>>
    BY <1>3 DEF Call
  <2>3. Program(c) \in Seq(Ops) /\ Program(c) # <<>>
    BY ProgramSection DEF Section, Disciplined
  <2>4. 1 \in DOMAIN Program(c) /\ c # Idle
    BY <2>3, LocksAssumption
  <2>5. \A h \in Goroutines : h # g => in'[h] = in[h]
    BY <2>1 DEF TypeOK
  <2>6. TypeOK'
    BY <2>1, <2>2, <2>4, <2>5 DEF TypeOK, At, Current
  <2>7. \A h \in Goroutines, kind \in {"Unlock", "RUnlock"}, l \in Mutexes :
            Owes(h, kind, l) => Owes(h, kind, l)'
    BY <2>2, <2>5 DEF Owes
  <2>8. OwnersUnlock'
    BY <1>1, <2>2, <2>7 DEF OwnersUnlock
  <2> QED
    BY <2>6, <2>8 DEF IInv
<1>4. ASSUME NEW g \in Goroutines, At(g, "Lock") \/ At(g, "RLock"), Wait(g) PROVE IInv'
  BY <1>1, <1>4 DEF Wait, IInv, TypeOK, OwnersUnlock, Owes, At, Current
<1>5. ASSUME NEW g \in Goroutines, At(g, "Lock"), NEW l \in Mutexes, Current(g).lock = l, Free(l),
             writer' = [writer EXCEPT ![l] = g], UNCHANGED readers, Advance({g})
      PROVE  IInv'
  <2>1. TypeOK'
    BY <1>2, <1>5 DEF TypeOK, Free, At
  <2>2. Owes(g, "Unlock", l)'
    BY <1>5, OwesUnlock
  <2>3. ASSUME NEW m \in Mutexes, writer'[m] # Idle PROVE Owes(writer[m], "Unlock", m)'
    <3>1. CASE m = l
      BY <1>5, <2>2, <3>1 DEF TypeOK
    <3>2. CASE m # l
      BY <1>1, <1>5, <2>3, <3>2, OwesAfter DEF TypeOK, OwnersUnlock
    <3> QED
      BY <3>1, <3>2
  <2>4. ASSUME NEW m \in Mutexes, NEW h \in readers'[m] PROVE Owes(h, "RUnlock", m)'
    BY <1>1, <1>5, OwesAfter DEF Free, OwnersUnlock
  <2> QED
    BY <2>1, <2>3, <2>4 DEF IInv, OwnersUnlock
<1>6. ASSUME NEW g \in Goroutines, At(g, "RLock"), NEW l \in Mutexes, Current(g).lock = l,
             writer[l] = Idle, readers' = [readers EXCEPT ![l] = @ \cup {g}],
             UNCHANGED writer, Advance({g})
      PROVE  IInv'
  <2>1. TypeOK'
    BY <1>2, <1>6 DEF TypeOK, At
  <2>2. Owes(g, "RUnlock", l)'
    BY <1>6, OwesUnlock DEF At
  <2>3. ASSUME NEW m \in Mutexes, writer'[m] # Idle PROVE Owes(writer[m], "Unlock", m)'
    BY <1>1, <1>6, <2>3, OwesAfter DEF OwnersUnlock
  <2>4. ASSUME NEW m \in Mutexes, NEW h \in readers'[m] PROVE Owes(h, "RUnlock", m)'
    <3>1. CASE m = l /\ h = g
      BY <2>2, <3>1
    <3>2. CASE m # l \/ h # g
      <4>1. h \in readers[m]
        BY <1>6, <3>2 DEF TypeOK
      <4> QED
        BY <1>1, <1>6, <3>2, <4>1, OwesAfter DEF OwnersUnlock
    <3> QED
      BY <3>1, <3>2
  <2> QED
    BY <2>1, <2>3, <2>4, <1>6 DEF IInv, OwnersUnlock
<1>7. ASSUME NEW g \in Goroutines, At(g, "Unlock"), NEW l \in Mutexes, Current(g).lock = l,
             NEW entering, entering = Waiting(l, "RLock"),
             writer' = [writer EXCEPT ![l] = Idle], readers' = [readers EXCEPT ![l] = entering],
             Advance({g} \cup entering)
      PROVE  IInv'
  <2>1. entering \subseteq Goroutines /\ \A h \in {g} \cup entering : Current(h).lock = l /\ in[h] # Idle
    BY <1>7 DEF Waiting, At, TypeOK
  <2>2. TypeOK'
    BY <1>2, <1>7, <2>1 DEF TypeOK
  <2>3. ASSUME NEW m \in Mutexes, writer'[m] # Idle PROVE Owes(writer[m], "Unlock", m)' /\ m # l
    <3>1. m # l /\ writer'[m] = writer[m]
      BY <1>7, <2>3 DEF TypeOK
    <3> QED
      BY <1>1, <1>7, <2>1, <2>3, <3>1, OwesAfter DEF OwnersUnlock
  <2>4. ASSUME NEW m \in Mutexes, NEW h \in readers'[m] PROVE Owes(h, "RUnlock", m)'
    <3>1. CASE m = l
      <4>1. h \in entering
        BY <1>7, <3>1 DEF TypeOK
      <4>2. At(h, "RLock") /\ Current(h).lock = l
        BY <1>7, <4>1 DEF Waiting
      <4> QED
        BY <1>7, <2>1, <3>1, <4>1, <4>2, OwesUnlock
    <3>2. CASE m # l
      <4>1. h \in readers[m]
        BY <1>7, <3>2 DEF TypeOK
      <4> QED
        BY <1>1, <1>7, <2>1, <3>2, <4>1, OwesAfter DEF OwnersUnlock
    <3> QED
      BY <3>1, <3>2
  <2> QED
    BY <2>2, <2>3, <2>4, <1>7 DEF IInv, OwnersUnlock
<1>8. ASSUME NEW g \in Goroutines, At(g, "RUnlock"), NEW l \in Mutexes, Current(g).lock = l,
             readers' = [readers EXCEPT ![l] = @ \ {g}], UNCHANGED writer, Advance({g})
      PROVE  IInv'
  <2>1. TypeOK'
    BY <1>2, <1>8 DEF TypeOK, At
  <2>2. ASSUME NEW m \in Mutexes, writer'[m] # Idle PROVE Owes(writer[m], "Unlock", m)'
    <3>1. writer[m] \in Goroutines /\ Owes(writer[m], "Unlock", m)
      BY <1>1, <1>8, <2>2 DEF OwnersUnlock
    <3>2. writer[m] = g => m # l
      BY <1>8, <3>1, OwesCurrent DEF At
    <3> QED
      BY <1>8, <3>1, <3>2, OwesAfter
  <2>3. ASSUME NEW m \in Mutexes, NEW h \in readers'[m] PROVE Owes(h, "RUnlock", m)'
    <3>1. h \in readers[m] /\ (m = l => h # g)
      BY <1>8 DEF TypeOK
    <3> QED
      BY <1>1, <1>8, <3>1, OwesAfter DEF OwnersUnlock
  <2> QED
    BY <2>1, <2>2, <2>3, <1>8 DEF IInv, OwnersUnlock
<1>9. ASSUME NEW g \in Goroutines, Operate(g) PROVE IInv'
  <2>1. Current(g).lock \in Mutexes
    BY <1>9, CurrentOp DEF Operate, Lock, RLock, Unlock, RUnlock, At, Ops
  <2>2. CASE Lock(g)
    BY <2>1, <2>2, <1>4, <1>5 DEF Lock
  <2>3. CASE RLock(g)
    BY <2>1, <2>3, <1>4, <1>6 DEF RLock
  <2>4. CASE Unlock(g)
    BY <2>1, <2>4, <1>7 DEF Unlock
  <2>5. CASE RUnlock(g)
    BY <2>1, <2>5, <1>8 DEF RUnlock
  <2> QED
    BY <1>9, <2>2, <2>3, <2>4, <2>5 DEF Operate
<1>10. CASE UNCHANGED vars
  BY <1>10 DEF vars, IInv, TypeOK, OwnersUnlock, Owes, At, Current
<1> QED
  BY <1>3, <1>9, <1>10 DEF Next

LEMMA Invariance == ASSUME "GetStats" \notin Calls PROVE Spec => []IInv
<1>1. IInv /\ [Next]_vars => IInv'
  BY NextIInv
<1> QED
  BY InitIInv, <1>1, PTL DEF Spec

-----------------------------------------------------------------------------
(***************************************************************************)
(* No deadlock.                                                            *)
(***************************************************************************)
\* Of goroutines that wait, one that waits for a mutex of the highest rank, in Lock
\* if one of them is, waits for none of the others: who holds that mutex among
\* them would wait for one of a higher rank.
LEMMA IInvNoDeadlock == "GetStats" \notin Calls /\ IInv => NoDeadlock
<1> SUFFICES ASSUME "GetStats" \notin Calls, IInv, NEW S \in SUBSET waits, S # {}
             PROVE  \E g \in S : Blockers(g) \cap S = {}
  BY DEF NoDeadlock, IInv
<1>1. \A g \in S : /\ g \in Goroutines /\ in[g] # Idle /\ Acquires(Current(g))
                  /\ Current(g).lock \in Mutexes /\ Rank(Current(g).lock) \in 1 .. 3
  BY CurrentOp DEF IInv, TypeOK, At, Acquires, Ops, Rank
<1>2. ASSUME NEW h \in S, NEW l \in Mutexes, writer[l] = h \/ h \in readers[l]
      PROVE  Rank(l) < Rank(Current(h).lock)
  <2>1. Owes(h, "Unlock", l) \/ Owes(h, "RUnlock", l)
    BY <1>1, <1>2, LocksAssumption DEF IInv, OwnersUnlock
  <2>2. Held(Program(in[h]), pc[h], l)
    BY <2>1 DEF Owes, Held
  <2> QED
    BY <1>1, <2>2, CurrentOp DEF IInv, Ordered
<1>3. \E top \in S : \A h \in S : Rank(Current(h).lock) <= Rank(Current(top).lock)
  <2>1. CASE \E g \in S : Rank(Current(g).lock) = 3
    BY <1>1, <2>1
  <2>2. CASE ~(\E g \in S : Rank(Current(g).lock) = 3) /\ \E g \in S : Rank(Current(g).lock) = 2
    BY <1>1, <2>2
  <2>3. CASE ~\E g \in S : Rank(Current(g).lock) \in {2, 3}
    BY <1>1, <2>3
  <2> QED
    BY <2>1, <2>2, <2>3
<1>4. PICK top \in S : \A h \in S : Rank(Current(h).lock) <= Rank(Current(top).lock)
  BY <1>3
<1> DEFINE l == Current(top).lock
<1>5. l \in Mutexes /\ \A h \in S : writer[l] # h /\ h \notin readers[l]
  BY <1>1, <1>2, <1>4 DEF Rank
<1>6. CASE Waiting(l, "Lock") \cap S = {}
  <2>1. Blockers(top) \cap S = {}
    BY <1>5, <1>6 DEF Blockers
  <2> QED
    BY <2>1
<1>7. CASE Waiting(l, "Lock") \cap S # {}
  <2>1. PICK g \in S : At(g, "Lock") /\ Current(g).lock = l
    BY <1>7 DEF Waiting
  <2>2. Blockers(g) \cap S = {}
    BY <1>5, <2>1 DEF Blockers
  <2> QED
    BY <2>2
<1> QED
  BY <1>6, <1>7

\* Whatever calls but GetStats overlap, in any number of goroutines, none of them
\* wait for one another: handlers, the BLE client and the monitor always go on
\* (manager.go, album_art.go, websocket.go, ble_client_v2.go).
THEOREM NoneDeadlocked == ASSUME "GetStats" \notin Calls PROVE Spec => []NoDeadlock
<1>1. IInv => NoDeadlock
  BY IInvNoDeadlock
<1> QED
  BY Invariance, <1>1, PTL
=============================================================================
