----------------------- MODULE ClientSession_proofs -----------------------
(***************************************************************************)
(* Proofs about the task session: what is true of the requests on their    *)
(* way through the channels, and from it that a message starts at most one *)
(* turn, that a request is answered or cleared, and that a task taken for  *)
(* resumed is streamed here.                                               *)
(***************************************************************************)
EXTENDS ClientSession, SequenceTheorems, FiniteSetTheorems, TLAPS

---------------------------------------------------------------------------
(* The channels.                                                           *)

\* r is in the i-th command; it is somewhere in the channel q; nothing is
\* there twice; a is in an earlier command than b.
At(q, r, i)    == i \in DOMAIN q /\ q[i].op = "send" /\ r \in q[i].reqs
In(q)          == UNION {q[i].reqs : i \in {j \in DOMAIN q : q[j].op = "send"}}
Once(q)        == \A r \in In(q) : \A i, j \in DOMAIN q : At(q, r, i) /\ At(q, r, j) => i = j
Ahead(q, a, b) == \E i, j \in DOMAIN q : i < j /\ At(q, a, i) /\ At(q, b, j)

Among(w)         == {w[i] : i \in DOMAIN w}
Distinct(w)      == \A i, j \in DOMAIN w : w[i] = w[j] => i = j
Earlier(w, a, b) == \E i, j \in DOMAIN w : i < j /\ w[i] = a /\ w[j] = b

LEMMA InAt ==
    ASSUME NEW q, NEW r
    PROVE  r \in In(q) <=> \E i \in DOMAIN q : At(q, r, i)
BY DEF In, At

\* A stream t is the stream s with e behind it.
Joins(R, t, s, e) == s \in Seq(R) /\ e \in Seq(R) /\ t = s \o e

LEMMA Joined ==
    ASSUME NEW R, NEW t, NEW s, NEW e, Joins(R, t, s, e)
    PROVE  /\ t \in Seq(R) /\ Len(s) \in Nat /\ DOMAIN s = 1..Len(s)
           /\ \A i \in DOMAIN s : i \in Nat /\ i <= Len(s) /\ i \in DOMAIN t /\ t[i] = s[i]
           /\ \A j \in DOMAIN e : j \in Nat /\ j >= 1 /\ Len(s) + j \in DOMAIN t /\ t[Len(s) + j] = e[j]
           /\ \A i \in DOMAIN t : i \in DOMAIN s \/ \E j \in DOMAIN e : i = Len(s) + j
<1>0. s \in Seq(R) /\ e \in Seq(R) /\ t = s \o e BY DEF Joins
<1>1. /\ Len(s) \in Nat /\ DOMAIN s = 1..Len(s) /\ Len(e) \in Nat /\ DOMAIN e = 1..Len(e)
  BY <1>0, LenProperties
<1>3. /\ t \in Seq(R) /\ Len(t) = Len(s) + Len(e)
      /\ \A i \in 1..Len(s) + Len(e) : t[i] = IF i <= Len(s) THEN s[i] ELSE e[i - Len(s)]
  BY <1>0, ConcatProperties
<1>4. DOMAIN t = 1..Len(s) + Len(e) BY <1>3, LenProperties
<1>5. ASSUME NEW j \in DOMAIN e
      PROVE  j \in Nat /\ j >= 1 /\ Len(s) + j \in DOMAIN t /\ t[Len(s) + j] = e[j]
  <2>1. j \in Nat /\ j >= 1 /\ j <= Len(e) BY <1>1
  <2>2. Len(s) + j \in 1..Len(s) + Len(e) /\ ~(Len(s) + j <= Len(s)) /\ (Len(s) + j) - Len(s) = j
    BY <1>1, <2>1
  <2> QED BY <1>3, <1>4, <2>1, <2>2
<1>6. ASSUME NEW i \in DOMAIN t PROVE i \in DOMAIN s \/ \E j \in DOMAIN e : i = Len(s) + j
  <2>1. i \in 1..Len(s) + Len(e) BY <1>4
  <2>2. CASE i > Len(s)
    <3>1. i - Len(s) \in 1..Len(e) /\ i = Len(s) + (i - Len(s)) BY <1>1, <2>1, <2>2
    <3> QED BY <1>1, <3>1
  <2>3. CASE i <= Len(s)
    <3>1. i \in 1..Len(s) BY <1>1, <2>1, <2>3
    <3> QED BY <1>1, <3>1
  <2> QED BY <1>1, <2>1, <2>2, <2>3
<1>7. ASSUME NEW i \in DOMAIN s PROVE i \in Nat /\ i <= Len(s) /\ i \in DOMAIN t /\ t[i] = s[i]
  <2>1. i \in Nat /\ i >= 1 /\ i <= Len(s) BY <1>1
  <2>2. i \in 1..Len(s) + Len(e) BY <1>1, <2>1
  <2> QED BY <1>3, <1>4, <2>1, <2>2
<1> QED BY <1>1, <1>3, <1>5, <1>6, <1>7

\* Its parts, for where only one of them is wanted.
LEMMA JoinedType ==
    ASSUME NEW R, NEW t, NEW s, NEW e, Joins(R, t, s, e)
    PROVE  t \in Seq(R) /\ Len(s) \in Nat /\ DOMAIN s = 1..Len(s)
BY Joined

LEMMA JoinedBefore ==
    ASSUME NEW R, NEW t, NEW s, NEW e, Joins(R, t, s, e)
    PROVE  \A i \in DOMAIN s : i \in Nat /\ i <= Len(s) /\ i \in DOMAIN t /\ t[i] = s[i]
BY Joined

LEMMA JoinedAfter ==
    ASSUME NEW R, NEW t, NEW s, NEW e, Joins(R, t, s, e)
    PROVE  \A j \in DOMAIN e : j \in Nat /\ j >= 1 /\ Len(s) + j \in DOMAIN t /\ t[Len(s) + j] = e[j]
BY Joined

LEMMA JoinedOnly ==
    ASSUME NEW R, NEW t, NEW s, NEW e, Joins(R, t, s, e)
    PROVE  \A i \in DOMAIN t : i \in DOMAIN s \/ \E j \in DOMAIN e : i = Len(s) + j
BY Joined

\* What is first on a stream is taken off it.
LEMMA Taken ==
    ASSUME NEW R, NEW s \in Seq(R), s # <<>>
    PROVE  /\ Head(s) \in R /\ Head(s) = s[1] /\ 1 \in DOMAIN s /\ Tail(s) \in Seq(R)
           /\ \A i \in DOMAIN Tail(s) : i \in Nat /\ i >= 1 /\ i + 1 \in DOMAIN s /\ Tail(s)[i] = s[i + 1]
           /\ \A i \in DOMAIN s : i \in Nat /\ i >= 1 /\ (i = 1 \/ i - 1 \in DOMAIN Tail(s))
<1>1. /\ Head(s) \in R /\ Tail(s) \in Seq(R) /\ Len(Tail(s)) = Len(s) - 1
      /\ \A i \in 1..Len(Tail(s)) : Tail(s)[i] = s[i + 1]
  BY HeadTailProperties
<1>2. Len(s) \in Nat /\ Len(s) # 0 /\ DOMAIN s = 1..Len(s) BY LenProperties, EmptySeq
<1>3. DOMAIN Tail(s) = 1..Len(Tail(s)) BY <1>1, LenProperties
<1>4. Head(s) = s[1] OBVIOUS
<1> QED BY <1>1, <1>2, <1>3, <1>4

\* What a handler issues comes after what it found in the channel.
LEMMA Posted ==
    ASSUME NEW q \in Seq(Batch), NEW o \in Seq(Batch), Once(q), Once(o), In(q) \cap In(o) = {}
    PROVE  /\ q \o o \in Seq(Batch) /\ Once(q \o o) /\ In(q \o o) = In(q) \cup In(o)
           /\ \A a, b \in In(q) : Ahead(q, a, b) => Ahead(q \o o, a, b)
           /\ \A a \in In(q), b \in In(o) : Ahead(q \o o, a, b)
<1>1. PICK t : t = q \o o OBVIOUS
<1>2. PICK n : n = Len(q) OBVIOUS
<1>3. /\ t \in Seq(Batch) /\ n \in Nat /\ DOMAIN q = 1..n
      /\ \A i \in DOMAIN q : i \in Nat /\ i <= n /\ i \in DOMAIN t /\ t[i] = q[i]
      /\ \A j \in DOMAIN o : j \in Nat /\ j >= 1 /\ n + j \in DOMAIN t /\ t[n + j] = o[j]
      /\ \A i \in DOMAIN t : i \in DOMAIN q \/ \E j \in DOMAIN o : i = n + j
  <2>0. Joins(Batch, t, q, o) BY <1>1 DEF Joins
  <2>1. t \in Seq(Batch) /\ n \in Nat /\ DOMAIN q = 1..n BY <2>0, <1>2, JoinedType
  <2>2. \A i \in DOMAIN q : i \in Nat /\ i <= n /\ i \in DOMAIN t /\ t[i] = q[i] BY <2>0, <1>2, JoinedBefore
  <2>3. \A j \in DOMAIN o : j \in Nat /\ j >= 1 /\ n + j \in DOMAIN t /\ t[n + j] = o[j] BY <2>0, <1>2, JoinedAfter
  <2>4. \A i \in DOMAIN t : i \in DOMAIN q \/ \E j \in DOMAIN o : i = n + j BY <2>0, <1>2, JoinedOnly
  <2> QED BY <2>1, <2>2, <2>3, <2>4
<1>4. \A r : \A i \in DOMAIN q : At(q, r, i) <=> At(t, r, i) BY <1>3 DEF At
<1>5. \A r : \A j \in DOMAIN o : At(o, r, j) <=> At(t, r, n + j) BY <1>3 DEF At
<1>6. In(t) = In(q) \cup In(o)
  <2>1. \A r : r \in In(t) => r \in In(q) \cup In(o) BY <1>3, <1>4, <1>5, InAt
  <2>2. \A r : r \in In(q) => r \in In(t) BY <1>3, <1>4, InAt
  <2>3. \A r : r \in In(o) => r \in In(t) BY <1>3, <1>5, InAt
  <2> QED BY <2>1, <2>2, <2>3
<1>7. Once(t)
  <2> SUFFICES ASSUME NEW r \in In(t), NEW i \in DOMAIN t, NEW j \in DOMAIN t, At(t, r, i), At(t, r, j)
               PROVE  i = j
    BY DEF Once
  <2>1. CASE r \in In(q)
    <3>1. r \notin In(o) BY <2>1
    <3>2. i \in DOMAIN q /\ j \in DOMAIN q BY <3>1, <1>3, <1>5, InAt
    <3> QED BY <3>2, <2>1, <1>4 DEF Once
  <2>2. CASE r \in In(o)
    <3>1. r \notin In(q) BY <2>2
    <3>2. PICK a \in DOMAIN o : i = n + a BY <3>1, <1>3, <1>4, InAt
    <3>3. PICK b \in DOMAIN o : j = n + b BY <3>1, <1>3, <1>4, InAt
    <3>4. a = b BY <3>2, <3>3, <2>2, <1>5 DEF Once
    <3> QED BY <3>2, <3>3, <3>4
  <2> QED BY <1>6, <2>1, <2>2
<1>8. \A a, b \in In(q) : Ahead(q, a, b) => Ahead(t, a, b) BY <1>3, <1>4 DEF Ahead
<1>9. ASSUME NEW a \in In(q), NEW b \in In(o) PROVE Ahead(t, a, b)
  <2>1. PICK i \in DOMAIN q : At(q, a, i) BY InAt
  <2>2. PICK j \in DOMAIN o : At(o, b, j) BY InAt
  <2>3. At(t, a, i) /\ At(t, b, n + j) /\ i \in DOMAIN t /\ n + j \in DOMAIN t BY <2>1, <2>2, <1>3, <1>4, <1>5
  <2>4. i < n + j BY <1>3
  <2> QED BY <2>3, <2>4 DEF Ahead
<1> QED BY <1>1, <1>3, <1>6, <1>7, <1>8, <1>9

\* One request of the first command leaves the channel; the others keep their
\* order.
Without(q, r) == IF Head(q).reqs = {r} THEN Tail(q) ELSE [q EXCEPT ![1].reqs = @ \ {r}]
LEMMA Dequeued ==
    ASSUME NEW q \in Seq(Batch), NEW r, NEW t, Once(q),
           q # <<>>, Head(q).op = "send", r \in Head(q).reqs, t = Without(q, r)
    PROVE  /\ t \in Seq(Batch) /\ Once(t) /\ In(t) = In(q) \ {r} /\ r \in In(q)
           /\ \A i \in DOMAIN t : t[i].op = "send" \/ \E j \in DOMAIN q : t[i] = q[j]
           /\ \A a \in In(q) : ~Ahead(q, a, r)
           /\ \A a, b \in In(t) : Ahead(q, a, b) => Ahead(t, a, b)
<1>1. /\ Head(q) = q[1] /\ 1 \in DOMAIN q /\ Tail(q) \in Seq(Batch) /\ DOMAIN q = 1..Len(q) /\ Len(q) \in Nat
      /\ \A i \in DOMAIN Tail(q) : i \in Nat /\ i >= 1 /\ i + 1 \in DOMAIN q /\ Tail(q)[i] = q[i + 1]
      /\ \A i \in DOMAIN q : i \in Nat /\ i >= 1 /\ (i = 1 \/ i - 1 \in DOMAIN Tail(q))
  BY Taken, LenProperties
<1>2. At(q, r, 1) /\ r \in In(q) BY <1>1, InAt DEF At
<1>3. \A i \in DOMAIN q : At(q, r, i) => i = 1 BY <1>1, <1>2 DEF Once
<1>4. \A a \in In(q) : ~Ahead(q, a, r)
  <2> SUFFICES ASSUME NEW i \in DOMAIN q, NEW j \in DOMAIN q, i < j, At(q, r, j) PROVE FALSE BY DEF Ahead
  <2> QED BY <1>1, <1>3
<1>5. CASE Head(q).reqs = {r}
  <2>1. t = Tail(q) BY <1>5 DEF Without
  <2>2. \A i \in DOMAIN t : \A x : At(t, x, i) <=> At(q, x, i + 1) BY <2>1, <1>1 DEF At
  <2>3. \A x : At(q, x, 1) => x = r BY <1>1, <1>5 DEF At
  <2>4. \A x : \A i \in DOMAIN q : At(q, x, i) /\ x # r => i - 1 \in DOMAIN t /\ At(t, x, i - 1)
    <3> SUFFICES ASSUME NEW x, NEW i \in DOMAIN q, At(q, x, i), x # r PROVE i - 1 \in DOMAIN t /\ At(t, x, i - 1)
      OBVIOUS
    <3>1. i # 1 BY <2>3
    <3>2. i \in Nat /\ i - 1 \in DOMAIN t BY <3>1, <2>1, <1>1
    <3>3. (i - 1) + 1 = i BY <3>2
    <3> QED BY <3>2, <3>3, <2>2
  <2>5. \A x : x \in In(t) => x \in In(q) /\ x # r
    <3> SUFFICES ASSUME NEW x, NEW i \in DOMAIN t, At(t, x, i) PROVE x \in In(q) /\ x # r BY InAt
    <3>1. i \in Nat /\ i >= 1 /\ i + 1 \in DOMAIN q BY <2>1, <1>1
    <3>2. At(q, x, i + 1) BY <2>2
    <3>3. i + 1 # 1 BY <3>1
    <3> QED BY <3>1, <3>2, <3>3, <1>3, InAt
  <2>6. \A x : x \in In(q) /\ x # r => x \in In(t) BY <2>4, InAt
  <2>7. Once(t)
    <3> SUFFICES ASSUME NEW x \in In(t), NEW i \in DOMAIN t, NEW j \in DOMAIN t, At(t, x, i), At(t, x, j)
                 PROVE  i = j
      BY DEF Once
    <3>1. /\ i + 1 \in DOMAIN q /\ At(q, x, i + 1) /\ j + 1 \in DOMAIN q /\ At(q, x, j + 1)
          /\ i \in Nat /\ j \in Nat
      BY <2>1, <2>2, <1>1
    <3>2. i + 1 = j + 1 BY <3>1, <2>5 DEF Once
    <3> QED BY <3>1, <3>2
  <2>8. \A a, b \in In(t) : Ahead(q, a, b) => Ahead(t, a, b)
    <3> SUFFICES ASSUME NEW a \in In(t), NEW b \in In(t), NEW i \in DOMAIN q, NEW j \in DOMAIN q,
                        i < j, At(q, a, i), At(q, b, j)
                 PROVE  Ahead(t, a, b)
      BY DEF Ahead
    <3>1. i - 1 \in DOMAIN t /\ At(t, a, i - 1) /\ j - 1 \in DOMAIN t /\ At(t, b, j - 1) BY <2>4, <2>5
    <3>2. i - 1 < j - 1 BY <1>1
    <3> QED BY <3>1, <3>2 DEF Ahead
  <2>9. ASSUME NEW i \in DOMAIN t PROVE \E j \in DOMAIN q : t[i] = q[j]
    <3>1. i + 1 \in DOMAIN q /\ t[i] = q[i + 1] BY <2>1, <1>1
    <3> QED BY <3>1
  <2> QED BY <1>2, <1>4, <2>1, <1>1, <2>5, <2>6, <2>7, <2>8, <2>9
<1>6. CASE Head(q).reqs # {r}
  <2>1. t = [q EXCEPT ![1] = [q[1] EXCEPT !.reqs = q[1].reqs \ {r}]] BY <1>6 DEF Without
  <2>2. PICK b1 : b1 = [q[1] EXCEPT !.reqs = q[1].reqs \ {r}] OBVIOUS
  <2>3. q[1] \in Batch /\ q[1].op = "send" BY <1>1, ElementOfSeq
  <2>4. b1 \in Batch /\ b1.op = "send" /\ b1.reqs = q[1].reqs \ {r} BY <2>2, <2>3 DEF Batch
  <2>5. t \in Seq(Batch) /\ DOMAIN t = DOMAIN q /\ t[1] = b1 /\ \A i \in DOMAIN q : i # 1 => t[i] = q[i]
    <3>1. t = [q EXCEPT ![1] = b1] /\ 1 \in 1..Len(q) BY <2>1, <2>2, <1>1
    <3>2. PICK t1 : t1 = [q EXCEPT ![1] = b1] OBVIOUS
    <3>3. /\ t1 \in Seq(Batch) /\ Len(t1) = Len(q)
          /\ \A j \in 1..Len(q) : t1[j] = IF j = 1 THEN b1 ELSE q[j]
      BY <3>1, <3>2, <2>4, ExceptSeq
    <3>4. DOMAIN t1 = 1..Len(q) BY <3>3, LenProperties
    <3> QED BY <3>1, <3>2, <3>3, <3>4, <1>1
  <2>6. \A x : \A i \in DOMAIN q : At(t, x, i) <=> At(q, x, i) /\ x # r
    <3> SUFFICES ASSUME NEW x, NEW i \in DOMAIN q PROVE At(t, x, i) <=> At(q, x, i) /\ x # r OBVIOUS
    <3>1. CASE i = 1 BY <3>1, <2>3, <2>4, <2>5 DEF At
    <3>2. CASE i # 1
      <4>1. At(t, x, i) <=> At(q, x, i) BY <3>2, <2>5 DEF At
      <4> QED BY <4>1, <3>2, <1>3
    <3> QED BY <3>1, <3>2
  <2>7. \A x : x \in In(t) <=> x \in In(q) /\ x # r BY <2>5, <2>6, InAt
  <2>8. Once(t) BY <2>5, <2>6, <2>7 DEF Once
  <2>9. \A a, b \in In(t) : Ahead(q, a, b) => Ahead(t, a, b) BY <2>5, <2>6, <2>7 DEF Ahead
  <2>10. \A i \in DOMAIN t : t[i].op = "send" \/ \E j \in DOMAIN q : t[i] = q[j] BY <2>4, <2>5
  <2>11. In(t) = In(q) \ {r} BY <2>7
  <2> QED BY <1>2, <1>4, <2>5, <2>11, <2>8, <2>9, <2>10
<1> QED BY <1>5, <1>6

\* A request is written after those written before it.
LEMMA Extended ==
    ASSUME NEW w \in Seq(Request), NEW r \in Request, r \notin Among(w), Distinct(w)
    PROVE  /\ Append(w, r) \in Seq(Request) /\ Distinct(Append(w, r)) /\ Among(Append(w, r)) = Among(w) \cup {r}
           /\ \A a, b : Earlier(w, a, b) => Earlier(Append(w, r), a, b)
           /\ \A a \in Among(w) : Earlier(Append(w, r), a, r)
<1>1. PICK t : t = Append(w, r) OBVIOUS
<1>2. PICK n : n = Len(w) OBVIOUS
<1>3. /\ n \in Nat /\ DOMAIN w = 1..n /\ t \in Seq(Request) /\ DOMAIN t = 1..n + 1
      /\ t[n + 1] = r /\ \A i \in DOMAIN w : t[i] = w[i]
  BY <1>1, <1>2, LenProperties
<1>4. Among(t) = Among(w) \cup {r}
  <2>1. \A x : x \in Among(t) => x \in Among(w) \cup {r} BY <1>3 DEF Among
  <2>2. \A x : x \in Among(w) => x \in Among(t) BY <1>3 DEF Among
  <2>3. r \in Among(t) BY <1>3 DEF Among
  <2> QED BY <2>1, <2>2, <2>3
<1>5. \A i \in DOMAIN w : w[i] # r BY DEF Among
<1>6. Distinct(t)
  <2> SUFFICES ASSUME NEW i \in DOMAIN t, NEW j \in DOMAIN t, t[i] = t[j] PROVE i = j BY DEF Distinct
  <2>1. CASE i \in DOMAIN w /\ j \in DOMAIN w BY <2>1, <1>3 DEF Distinct
  <2>2. CASE i = n + 1 /\ j = n + 1 BY <2>2
  <2>3. CASE i = n + 1 /\ j \in DOMAIN w BY <2>3, <1>3, <1>5
  <2>4. CASE j = n + 1 /\ i \in DOMAIN w BY <2>4, <1>3, <1>5
  <2> QED BY <1>3, <2>1, <2>2, <2>3, <2>4
<1>7. \A a, b : Earlier(w, a, b) => Earlier(t, a, b) BY <1>3 DEF Earlier
<1>8. \A a \in Among(w) : Earlier(t, a, r)
  <2> SUFFICES ASSUME NEW i \in DOMAIN w PROVE Earlier(t, w[i], r) BY DEF Among
  <2>1. i \in DOMAIN t /\ n + 1 \in DOMAIN t /\ i < n + 1 /\ t[i] = w[i] /\ t[n + 1] = r BY <1>3
  <2> QED BY <2>1 DEF Earlier
<1> QED BY <1>1, <1>3, <1>4, <1>6, <1>7, <1>8

\* One request leaves the wire; the others keep their order.
LEMMA Removed ==
    ASSUME NEW w \in Seq(Request), Distinct(w), NEW k \in DOMAIN w, NEW t,
           t = SubSeq(w, 1, k - 1) \o SubSeq(w, k + 1, Len(w))
    PROVE  /\ t \in Seq(Request) /\ Distinct(t) /\ Among(t) = Among(w) \ {w[k]}
           /\ \A a, b : a # w[k] /\ b # w[k] /\ Earlier(w, a, b) => Earlier(t, a, b)
<1>1. PICK n : n = Len(w) OBVIOUS
<1>2. n \in Nat /\ DOMAIN w = 1..n BY <1>1, LenProperties
<1>15. k \in Nat /\ k >= 1 /\ k <= n BY <1>2
<1>16. \A i \in 1..n : w[i] \in Request BY <1>1, ElementOfSeq
<1>3. PICK s : s = SubSeq(w, 1, k - 1) OBVIOUS
<1>4. PICK e : e = SubSeq(w, k + 1, n) OBVIOUS
<1>5. s \in Seq(Request) /\ Len(s) = k - 1 /\ DOMAIN s = 1..k - 1 /\ \A i \in 1..k - 1 : s[i] = w[i]
  <2>1. \A i \in 1..k - 1 : w[i] \in Request BY <1>2, <1>15, <1>16
  <2>2. 1 \in Int /\ k - 1 \in Int BY <1>2, <1>15, <1>16
  <2>3. /\ s \in Seq(Request) /\ Len(s) = IF 1 <= k - 1 THEN (k - 1) - 1 + 1 ELSE 0
        /\ \A i \in 1..(k - 1) - 1 + 1 : s[i] = w[1 + i - 1]
    BY <2>1, <2>2, <1>3, SubSeqProperties
  <2>4. Len(s) = k - 1
    <3>1. CASE 1 <= k - 1 BY <3>1, <2>3, <1>15
    <3>2. CASE ~(1 <= k - 1) BY <3>2, <2>3, <1>15
    <3> QED BY <3>1, <3>2
  <2>5. ASSUME NEW i \in 1..k - 1 PROVE s[i] = w[i]
    <3>1. i \in 1..(k - 1) - 1 + 1 /\ 1 + i - 1 = i BY <1>15
    <3> QED BY <2>3, <3>1
  <2>6. DOMAIN s = 1..k - 1 BY <2>3, <2>4, LenProperties
  <2> QED BY <2>3, <2>4, <2>5, <2>6
<1>6. e \in Seq(Request) /\ Len(e) = n - k /\ DOMAIN e = 1..n - k /\ \A i \in 1..n - k : e[i] = w[k + i]
  <2>1. \A i \in k + 1..n : w[i] \in Request BY <1>2, <1>15, <1>16
  <2>2. k + 1 \in Int /\ n \in Int BY <1>2, <1>15, <1>16
  <2>3. /\ e \in Seq(Request) /\ Len(e) = IF k + 1 <= n THEN n - (k + 1) + 1 ELSE 0
        /\ \A i \in 1..n - (k + 1) + 1 : e[i] = w[(k + 1) + i - 1]
    <3>1. PICK a : a = k + 1 OBVIOUS
    <3>2. a \in Int /\ (\A i \in a..n : w[i] \in Request) /\ e = SubSeq(w, a, n) BY <2>1, <2>2, <1>4, <3>1
    <3>3. /\ e \in Seq(Request) /\ Len(e) = IF a <= n THEN n - a + 1 ELSE 0
          /\ \A i \in 1..n - a + 1 : e[i] = w[a + i - 1]
      BY <2>2, <3>2, SubSeqProperties
    <3> QED BY <3>1, <3>3
  <2>4. Len(e) = n - k /\ n - (k + 1) + 1 = n - k /\ \A i \in 1..n - k : (k + 1) + i - 1 = k + i
    <3>1. n - (k + 1) + 1 = n - k BY <1>2, <1>15
    <3>2. Len(e) = n - k
      <4>1. CASE k + 1 <= n BY <4>1, <3>1, <2>3
      <4>2. CASE ~(k + 1 <= n)
        <5>1. n - k = 0 BY <4>2, <1>2, <1>15
        <5> QED BY <4>2, <5>1, <2>3
      <4> QED BY <4>1, <4>2
    <3>3. ASSUME NEW i \in 1..n - k PROVE (k + 1) + i - 1 = k + i BY <1>15
    <3> QED BY <3>1, <3>2, <3>3
  <2>5. \A i \in 1..n - k : e[i] = w[k + i] BY <2>3, <2>4
  <2> QED BY <2>3, <2>4, <2>5, LenProperties
<1>7. t = s \o e BY <1>1, <1>3, <1>4
<1>8. /\ t \in Seq(Request) /\ DOMAIN t = 1..n - 1
      /\ \A i \in 1..n - 1 : t[i] = IF i <= k - 1 THEN w[i] ELSE w[i + 1]
  <2>1. t \in Seq(Request) /\ Len(t) = n - 1 /\ \A i \in 1..n - 1 : t[i] = IF i <= k - 1 THEN s[i] ELSE e[i - (k - 1)]
    <3>1. (k - 1) + (n - k) = n - 1 BY <1>2, <1>15
    <3>2. /\ t \in Seq(Request) /\ Len(t) = Len(s) + Len(e)
          /\ \A i \in 1..Len(s) + Len(e) : t[i] = IF i <= Len(s) THEN s[i] ELSE e[i - Len(s)]
      <4>1. s \in Seq(Request) /\ e \in Seq(Request) BY <1>5, <1>6
      <4>2. PICK se : se = s \o e OBVIOUS
      <4>3. /\ se \in Seq(Request) /\ Len(se) = Len(s) + Len(e)
            /\ \A i \in 1..Len(s) + Len(e) : se[i] = IF i <= Len(s) THEN s[i] ELSE e[i - Len(s)]
        BY <4>1, <4>2, ConcatProperties
      <4> QED BY <4>2, <4>3, <1>7
    <3>3. Len(s) = k - 1 /\ Len(s) + Len(e) = n - 1 BY <3>1, <1>5, <1>6
    <3> QED BY <3>2, <3>3
  <2>2. ASSUME NEW i \in 1..n - 1 PROVE t[i] = IF i <= k - 1 THEN w[i] ELSE w[i + 1]
    <3>1. CASE i <= k - 1 BY <3>1, <2>1, <1>5, <1>2, <1>15, <1>16
    <3>2. CASE ~(i <= k - 1)
      <4>4. i \in Nat /\ n \in Nat /\ k \in Nat /\ i <= n - 1 /\ k <= i BY <3>2, <1>2, <1>15
      <4>5. i - (k - 1) \in Nat /\ i - (k - 1) >= 1 /\ i - (k - 1) <= n - k BY <4>4
      <4>6. k + (i - (k - 1)) = i + 1 BY <4>4
      <4>1. i - (k - 1) \in 1..n - k /\ k + (i - (k - 1)) = i + 1 BY <4>4, <4>5, <4>6
      <4> QED BY <4>1, <3>2, <2>1, <1>6
    <3> QED BY <3>1, <3>2
  <2> QED BY <2>1, <2>2, LenProperties
<1>9. ASSUME NEW i \in DOMAIN w, i # k
      PROVE  \E j \in DOMAIN t : t[j] = w[i] /\ (i < k => j = i) /\ (i > k => j = i - 1)
  <2>0. i \in 1..n BY <1>2
  <2>1. CASE i < k
    <3>1. i \in 1..n - 1 /\ i <= k - 1
      <4>1. i \in Nat /\ i >= 1 BY <2>0, <1>2
      <4>2. i <= k - 1 BY <4>1, <2>1, <1>15
      <4>3. i <= n - 1 BY <4>1, <4>2, <1>2, <1>15
      <4> QED BY <4>1, <4>2, <4>3, <1>2
    <3>2. i \in DOMAIN t /\ t[i] = w[i] /\ ~(i > k) BY <3>1, <2>1, <1>8
    <3> QED BY <3>2
  <2>2. CASE i > k
    <3>0. i \in Nat /\ i <= n /\ k + 1 <= i BY <2>0, <2>2, <1>2, <1>15
    <3>1. i - 1 \in 1..n - 1 /\ ~(i - 1 <= k - 1) /\ (i - 1) + 1 = i /\ ~(i < k) BY <3>0, <1>2, <1>15
    <3>2. i - 1 \in DOMAIN t /\ t[i - 1] = w[i] BY <3>1, <1>8
    <3> QED BY <3>1, <3>2
  <2>3. i < k \/ i > k
    <3>1. i \in Int /\ k \in Int /\ i # k BY <2>0, <1>15, <1>9
    <3> QED BY <3>1
  <2> QED BY <2>1, <2>2, <2>3
<1>10. ASSUME NEW j \in DOMAIN t
       PROVE  \E i \in DOMAIN w : t[j] = w[i] /\ i # k /\ (i < k => j = i) /\ (i > k => j = i - 1)
  <2>0. j \in 1..n - 1 BY <1>8
  <2>1. CASE j <= k - 1
    <3>0. j \in Nat /\ j >= 1 BY <2>0, <1>2
    <3>1. j < k BY <3>0, <2>1, <1>15
    <3>2. j <= n BY <3>0, <3>1, <1>2, <1>15
    <3>3. j \in DOMAIN w BY <3>0, <3>2, <1>2
    <3>4. t[j] = w[j] BY <2>0, <2>1, <1>8
    <3>5. j # k /\ ~(j > k) BY <3>0, <3>1, <1>15
    <3> QED BY <3>1, <3>3, <3>4, <3>5
  <2>2. CASE ~(j <= k - 1)
    <3>0. j \in Nat /\ j + 1 <= n /\ j >= k
      <4>1. j \in Nat /\ j <= n - 1 BY <2>0, <1>2
      <4> QED BY <4>1, <2>2, <1>2, <1>15
    <3>1. j + 1 \in 1..n BY <3>0, <1>2
    <3>4. \A a, b \in Nat : a >= b => a + 1 > b /\ (a + 1) - 1 = a /\ ~(a + 1 < b) /\ a + 1 # b OBVIOUS
    <3>2. j + 1 > k /\ (j + 1) - 1 = j /\ ~(j + 1 < k) /\ j + 1 # k BY <3>0, <3>4, <1>15
    <3>3. j + 1 \in DOMAIN w /\ t[j] = w[j + 1] BY <3>1, <2>0, <2>2, <1>8, <1>2
    <3> QED BY <3>2, <3>3
  <2> QED BY <2>1, <2>2
<1>11. Among(t) = Among(w) \ {w[k]}
  <2>1. ASSUME NEW j \in DOMAIN t PROVE t[j] \in Among(w) /\ t[j] # w[k]
    <3>1. PICK i \in DOMAIN w : t[j] = w[i] /\ i # k BY <1>10
    <3> QED BY <3>1 DEF Among, Distinct
  <2>2. ASSUME NEW x \in Among(w), x # w[k] PROVE x \in Among(t)
    <3>1. PICK i \in DOMAIN w : w[i] = x /\ i # k BY <2>2 DEF Among
    <3>2. PICK j \in DOMAIN t : t[j] = w[i] BY <3>1, <1>9
    <3> QED BY <3>1, <3>2 DEF Among
  <2>3. \A x : x \in Among(t) => x \in Among(w) \ {w[k]} BY <2>1 DEF Among
  <2> QED BY <2>2, <2>3
<1>12. Distinct(t)
  <2> SUFFICES ASSUME NEW i \in DOMAIN t, NEW j \in DOMAIN t, t[i] = t[j] PROVE i = j BY DEF Distinct
  <2>1. PICK a \in DOMAIN w : t[i] = w[a] /\ a # k /\ (a < k => i = a) /\ (a > k => i = a - 1) BY <1>10
  <2>2. PICK b \in DOMAIN w : t[j] = w[b] /\ b # k /\ (b < k => j = b) /\ (b > k => j = b - 1) BY <1>10
  <2>3. a = b BY <2>1, <2>2 DEF Distinct
  <2>4. a < k \/ a > k
    <3>1. a \in Int /\ k \in Int /\ a # k BY <2>1, <1>2, <1>15
    <3> QED BY <3>1
  <2> QED BY <2>1, <2>2, <2>3, <2>4
<1>13. ASSUME NEW a, NEW b, a # w[k], b # w[k], NEW x \in DOMAIN w, NEW y \in DOMAIN w, x < y, w[x] = a, w[y] = b
       PROVE  Earlier(t, a, b)
  <2>1. x # k /\ y # k BY <1>13
  <2>2. PICK i \in DOMAIN t : t[i] = w[x] /\ (x < k => i = x) /\ (x > k => i = x - 1) BY <2>1, <1>9
  <2>3. PICK j \in DOMAIN t : t[j] = w[y] /\ (y < k => j = y) /\ (y > k => j = y - 1) BY <2>1, <1>9
  <2>4. x \in Nat /\ y \in Nat /\ k \in Nat BY <1>2, <1>15
  <2>5. /\ x < k => i = x 
        /\ x > k => i = x - 1
        /\ y < k => j = y 
        /\ y > k => j = y - 1
    BY <2>2, <2>3
  <2>6. x < y BY <1>13
  <2>7. i < j
    <3>1. CASE y < k
      <4>1. x < k BY <3>1, <2>4, <2>6
      <4> QED BY <3>1, <4>1, <2>5, <2>6
    <3>2. CASE k < x
      <4>1. y > k /\ x > k BY <3>2, <2>4, <2>6
      <4>2. i = x - 1 /\ j = y - 1 BY <4>1, <2>5
      <4> QED BY <4>2, <2>4, <2>6
    <3>3. CASE x < k /\ k < y
      <4>1. i = x /\ j = y - 1 BY <3>3, <2>4, <2>5
      <4> QED BY <4>1, <3>3, <2>4
    <3> QED BY <3>1, <3>2, <3>3, <2>1, <2>4
  <2> QED BY <2>2, <2>3, <2>7, <1>13 DEF Earlier
<1>14. ASSUME NEW a, NEW b, a # w[k], b # w[k], Earlier(w, a, b) PROVE Earlier(t, a, b)
  <2>1. PICK x \in DOMAIN w : \E y \in DOMAIN w : x < y /\ w[x] = a /\ w[y] = b BY <1>14 DEF Earlier
  <2>2. PICK y \in DOMAIN w : x < y /\ w[x] = a /\ w[y] = b BY <2>1
  <2> QED BY <1>13, <1>14, <2>2
<1> QED BY <1>8, <1>11, <1>12, <1>14

---------------------------------------------------------------------------
(* What is true whatever is lost, refused or resent.                       *)

Formed(r) == r.kind # "start" => r.thread \in existing

\* A request is in one place: queued, written, or answered.  What it is about
\* exists, and so does what it brings.
Placed ==
    /\ Once(cmds) /\ Distinct(wire)
    /\ Queued \cap Written = {} /\ Queued \cap Answered = {} /\ Written \cap Answered = {}
    /\ phase # "up" => wire = <<>>

About ==
    /\ \A r \in ui.pending \cup Queued \cup Written \cup Answered : Formed(r)
    /\ ui.active \in existing \cup {NoThread} /\ ui.resumed \subseteq existing /\ subs \subseteq existing
    /\ \A i \in DOMAIN evq : evq[i].kind = "ok" =>
         /\ evq[i].thread \in existing
         /\ evq[i].req.kind \in {"open", "resume"} => evq[i].thread = evq[i].req.thread

Base == TypeOK /\ Placed /\ About

Stamp == CHOOSE i \in Stamps : i \in Fresh \/ Fresh = {}
LEMMA StampIsOne == Stamp \in Stamps /\ (Fresh # {} => Stamp \in Fresh)
<1>1. CASE Fresh = {} BY <1>1, StampAssumption DEF Stamp
<1>2. CASE Fresh # {} BY <1>2 DEF Stamp, Fresh
<1> QED BY <1>1, <1>2

---------------------------------------------------------------------------
(* What a handler issues.                                                  *)

\* The controller states u and v differ in what is pending, and in whether a
\* handoff waits, only.
Like(u, v) ==
    /\ u.conn = v.conn /\ u.active = v.active /\ u.resumed = v.resumed /\ u.running = v.running
    /\ u.composer = v.composer /\ u.typed = v.typed /\ u.listed = v.listed

\* What the requests of a handler that works on u and carries the messages T
\* have in common.
Fit(r, u, T) ==
    /\ r.text \subseteq T /\ Formed(r)
    /\ r.kind = "unsub" => /\ r.thread \in u.resumed
                           /\ \A q \in u.pending : q.thread = r.thread => q.kind \notin {"open", "resume", "unsub"}
    /\ r.kind \in {"open", "resume"} => r.thread \notin u.resumed

Single(N) ==
    /\ \A r, q \in N : r.text # {} /\ q.text # {} => r = q
    /\ \A r, q \in N : r.kind = "unsub" /\ q.kind = "unsub" /\ r.thread = q.thread => r = q

\* The handler has come to s, with requests of the kinds K.
Going(s, u, T, K) ==
    /\ s = [u |-> s.u, o |-> s.o]
    /\ s.u \in Controller /\ s.o \in Seq(Batch) /\ Once(s.o)
    /\ Like(s.u, u) /\ s.u.pending = u.pending \cup In(s.o)
    /\ In(s.o) \subseteq Request
    /\ \A r \in In(s.o) : r.n = Stamp /\ r.kind \in K /\ Fit(r, u, T)
    /\ Single(In(s.o))

LEMMA NothingIn == In(<<>>) = {} /\ Once(<<>>) /\ \A R : <<>> \in Seq(R)
<1>1. DOMAIN <<>> = {} OBVIOUS
<1>2. In(<<>>) = {} BY <1>1 DEF In
<1> QED BY <1>2, EmptySeq DEF Once

LEMMA Starting ==
    ASSUME NEW u \in Controller
    PROVE  Going(Here(u), u, {}, {})
<1>1. PICK s : s = Here(u) OBVIOUS
<1>2. s = [u |-> s.u, o |-> s.o] /\ s.u = u /\ s.o = <<>> BY <1>1 DEF Here
<1>3. In(s.o) = {} /\ Once(s.o) /\ s.o \in Seq(Batch) BY <1>2, NothingIn
<1>4. Like(s.u, u) /\ s.u.pending = u.pending \cup In(s.o) BY <1>2, <1>3 DEF Like
<1>5. Going(s, u, {}, {}) BY <1>2, <1>3, <1>4 DEF Going, Single
<1> QED BY <1>1, <1>5

LEMMA OneBatch ==
    ASSUME NEW R \in SUBSET Request, NEW b, b = [op |-> "send", reqs |-> R]
    PROVE  /\ b \in Batch /\ <<b>> \in Seq(Batch) /\ In(<<b>>) = R /\ Once(<<b>>)
<1>1. b \in Batch /\ b.op = "send" /\ b.reqs = R BY DEF Batch
<1>2. PICK q : q = <<b>> OBVIOUS
<1>3. DOMAIN q = {1} /\ q[1] = b /\ q \in Seq(Batch) BY <1>1, <1>2
<1>4. \A r : At(q, r, 1) <=> r \in R BY <1>1, <1>3 DEF At
<1>7. \A r : r \in In(q) <=> r \in R BY <1>3, <1>4, InAt
<1>5. In(q) = R BY <1>7
<1>6. Once(q) BY <1>3 DEF Once
<1> QED BY <1>1, <1>2, <1>3, <1>5, <1>6

\* Asking for Q, requests of one kind not asked for yet.
LEMMA Asking ==
    ASSUME NEW s, NEW u, NEW T, NEW K, NEW Q, NEW k \in Kinds \ K, Going(s, u, T, K),
           \A q \in Q : q = <<k, q[2], q[3]>> /\ q[2] \in Threads \cup {NoThread} /\ q[3] \in SUBSET Prompts,
           \A q \in Q : Fit([n |-> Stamp, kind |-> k, thread |-> q[2], text |-> q[3]], u, T),
           \A q \in Q, r \in In(s.o) : r.text = {} \/ q[3] = {},
           \A q, p \in Q : q[3] # {} /\ p[3] # {} => q = p,
           k = "unsub" => \A q \in Q : q[3] = {}
    PROVE  Going(Ask(s, Q), u, T, K \cup {k})
<1>1. CASE Q = {}
  <2>1. Ask(s, Q) = s BY <1>1 DEF Ask
  <2> QED BY <2>1 DEF Going
<1>2. CASE Q # {}
  <2>1. PICK R : R = {[n |-> Stamp, kind |-> q[1], thread |-> q[2], text |-> q[3]] : q \in Q} OBVIOUS
  <2>2. PICK b : b = [op |-> "send", reqs |-> R] OBVIOUS
  <2>3. PICK a : a = Ask(s, Q) OBVIOUS
  <2>4. a = [u |-> [s.u EXCEPT !.pending = @ \cup R], o |-> Append(s.o, b)]
    BY <1>2, <2>1, <2>2, <2>3 DEF Ask, Stamp
  <2>5. \A r \in R : \E q \in Q : r = [n |-> Stamp, kind |-> k, thread |-> q[2], text |-> q[3]] BY <2>1
  <2>6. R \subseteq Request
    <3>1. \A q \in Q : [n |-> Stamp, kind |-> k, thread |-> q[2], text |-> q[3]] \in Request
      BY StampIsOne DEF Request
    <3> QED BY <2>5, <3>1
  <2>7. \A r \in R : r.n = Stamp /\ r.kind = k /\ Fit(r, u, T) BY <2>5
  <2>8. Single(R)
    <3>1. ASSUME NEW r \in R, NEW q \in R, r.text # {}, q.text # {} PROVE r = q
      <4>1. PICK x \in Q : r = [n |-> Stamp, kind |-> k, thread |-> x[2], text |-> x[3]] BY <2>5
      <4>2. PICK y \in Q : q = [n |-> Stamp, kind |-> k, thread |-> y[2], text |-> y[3]] BY <2>5
      <4>3. x[3] # {} /\ y[3] # {} BY <3>1, <4>1, <4>2
      <4> QED BY <4>1, <4>2, <4>3
    <3>2. ASSUME NEW r \in R, NEW q \in R, r.kind = "unsub", q.kind = "unsub", r.thread = q.thread PROVE r = q
      <4>1. PICK x \in Q : r = [n |-> Stamp, kind |-> k, thread |-> x[2], text |-> x[3]] BY <2>5
      <4>2. PICK y \in Q : q = [n |-> Stamp, kind |-> k, thread |-> y[2], text |-> y[3]] BY <2>5
      <4>3. x[3] = {} /\ y[3] = {} /\ x[2] = y[2] BY <3>2, <4>1, <4>2
      <4> QED BY <4>1, <4>2, <4>3
    <3> QED BY <3>1, <3>2 DEF Single
  <2>9. b \in Batch /\ <<b>> \in Seq(Batch) /\ In(<<b>>) = R /\ Once(<<b>>) BY <2>2, <2>6, OneBatch
  <2>10. PICK o : o = Append(s.o, b) OBVIOUS
  <2>11. s.o \in Seq(Batch) /\ Once(s.o) /\ s.u \in Controller BY DEF Going
  <2>12. o = s.o \o <<b>> BY <2>9, <2>10, <2>11, AppendIsConcat
  <2>13. In(s.o) \cap R = {} BY <2>7 DEF Going
  <2>14. o \in Seq(Batch) /\ Once(o) /\ In(o) = In(s.o) \cup R BY <2>9, <2>11, <2>12, <2>13, Posted
  <2>15. PICK v : v = [s.u EXCEPT !.pending = @ \cup R] OBVIOUS
  <2>16. /\ v \in Controller /\ v.pending = s.u.pending \cup R /\ v.conn = s.u.conn
         /\ v.active = s.u.active /\ v.resumed = s.u.resumed /\ v.running = s.u.running
         /\ v.composer = s.u.composer /\ v.typed = s.u.typed /\ v.listed = s.u.listed
    BY <2>6, <2>11, <2>15 DEF Controller
  <2>17. a = [u |-> v, o |-> o] /\ a.u = v /\ a.o = o BY <2>4, <2>10, <2>15
  <2>18. Like(v, u) /\ v.pending = u.pending \cup In(o) BY <2>14, <2>16 DEF Like, Going
  <2>19. In(o) \subseteq Request /\ \A r \in In(o) : r.n = Stamp /\ r.kind \in K \cup {k} /\ Fit(r, u, T)
    BY <2>6, <2>7, <2>14 DEF Going
  <2>20. Single(In(o))
    <3>1. \A r \in In(s.o), q \in R : r.text = {} \/ q.text = {} BY <2>5
    <3>2. \A r \in In(s.o), q \in R : r.kind # q.kind BY <2>7 DEF Going
    <3>3. Single(In(s.o)) BY DEF Going
    <3> QED BY <2>8, <2>14, <3>1, <3>2, <3>3 DEF Single
  <2>21. Going(a, u, T, K \cup {k}) BY <2>14, <2>16, <2>17, <2>18, <2>19, <2>20 DEF Going
  <2> QED BY <2>3, <2>21
<1> QED BY <1>1, <1>2

LEMMA Carrying ==
    ASSUME NEW s, NEW u, NEW T, NEW K, Going(s, u, {}, K)
    PROVE  Going(s, u, T, K) /\ \A r \in In(s.o) : r.text = {}
BY DEF Going, Fit

\* unsubscribe_idle_threads.
LEMMA Releasing ==
    ASSUME NEW s, NEW u, NEW T, NEW K, Going(s, u, T, K), "unsub" \notin K,
           u.resumed \subseteq existing, existing \subseteq Threads
    PROVE  Going(UnsubscribeIdle(s), u, T, K \cup {"unsub"})
<1>1. PICK Q : Q = {<<"unsub", t, {}>> : t \in {x \in IdleResumed(s.u) : s.u.conn = "Ready"}} OBVIOUS
<1>2. UnsubscribeIdle(s) = Ask(s, Q) BY <1>1 DEF UnsubscribeIdle
<1>3. \A q \in Q : q = <<"unsub", q[2], q[3]>> /\ q[2] \in IdleResumed(s.u) /\ q[3] = {} BY <1>1
<1>4. s.u.resumed = u.resumed /\ u.pending \subseteq s.u.pending BY DEF Going, Like
<1>5. \A t \in IdleResumed(s.u) : /\ t \in u.resumed
                                  /\ \A q \in u.pending : q.thread = t => q.kind \notin {"open", "resume", "unsub"}
  BY <1>4 DEF IdleResumed, Targets
<1>6. \A t \in IdleResumed(s.u) : Fit([n |-> Stamp, kind |-> "unsub", thread |-> t, text |-> {}], u, T)
  BY <1>5 DEF Fit, Formed
<1>7. \A q \in Q : /\ q = <<"unsub", q[2], q[3]>> /\ q[2] \in Threads \cup {NoThread} /\ q[3] \in SUBSET Prompts
                   /\ q[3] = {}
                   /\ Fit([n |-> Stamp, kind |-> "unsub", thread |-> q[2], text |-> q[3]], u, T)
  BY <1>3, <1>5, <1>6
<1>8. "unsub" \in Kinds \ K BY DEF Kinds
<1>9. Going(Ask(s, Q), u, T, K \cup {"unsub"}) BY <1>7, <1>8, Asking
<1> QED BY <1>2, <1>9

\* open_thread_live.
LEMMA Opening ==
    ASSUME NEW s, NEW u, NEW T, NEW K, NEW t \in existing, Going(s, u, T, K), "open" \notin K,
           existing \subseteq Threads
    PROVE  Going(OpenLive(s, t), u, T, K \cup {"open"})
<1>1. PICK Q : Q = {q \in {<<"open", t, {}>>} : /\ t \notin s.u.resumed
                                                /\ \A r \in s.u.pending : ~(r.kind = "open" /\ r.thread = t)}
  OBVIOUS
<1>2. OpenLive(s, t) = Ask(s, Q) BY <1>1 DEF OpenLive
<1>3. \A q \in Q : q = <<"open", t, {}>> /\ t \notin s.u.resumed BY <1>1
<1>4. s.u.resumed = u.resumed BY DEF Going, Like
<1>5. t \notin u.resumed => Fit([n |-> Stamp, kind |-> "open", thread |-> t, text |-> {}], u, T) BY DEF Fit, Formed
<1>6. \A q \in Q : /\ q = <<"open", q[2], q[3]>> /\ q[2] \in Threads \cup {NoThread} /\ q[3] \in SUBSET Prompts
                   /\ q[3] = {}
                   /\ Fit([n |-> Stamp, kind |-> "open", thread |-> q[2], text |-> q[3]], u, T)
  BY <1>3, <1>4, <1>5
<1>7. "open" \in Kinds \ K BY DEF Kinds
<1>8. Going(Ask(s, Q), u, T, K \cup {"open"}) BY <1>6, <1>7, Asking
<1> QED BY <1>2, <1>8

\* One request with the message T, or a fork.
LEMMA Messaging ==
    ASSUME NEW s, NEW u, NEW T \in SUBSET Prompts, NEW K, NEW k \in {"start", "resume", "send", "fork"} \ K,
           NEW t \in Threads \cup {NoThread}, Going(s, u, {}, K),
           k # "start" => t \in existing, k = "resume" => t \notin u.resumed
    PROVE  Going(Ask(s, {<<k, t, T>>}), u, T, K \cup {k})
<1>1. PICK Q : Q = {<<k, t, T>>} OBVIOUS
<1>2. Going(s, u, T, K) /\ \A r \in In(s.o) : r.text = {} BY Carrying
<1>3. Fit([n |-> Stamp, kind |-> k, thread |-> t, text |-> T], u, T) BY DEF Fit, Formed
<1>4. \A q \in Q : /\ q = <<k, q[2], q[3]>> /\ q[2] \in Threads \cup {NoThread} /\ q[3] \in SUBSET Prompts
                   /\ Fit([n |-> Stamp, kind |-> k, thread |-> q[2], text |-> q[3]], u, T)
  BY <1>1, <1>3
<1>5. \A q, p \in Q : q = p BY <1>1
<1>6. k \in Kinds \ K /\ k # "unsub" BY DEF Kinds
<1>7. Going(Ask(s, Q), u, T, K \cup {k}) BY <1>2, <1>4, <1>5, <1>6, Asking
<1> QED BY <1>1, <1>7

\* maybe_handoff_to_managed_transport.
LEMMA Handing ==
    ASSUME NEW s, NEW u, NEW T, NEW K, Going(s, u, T, K)
    PROVE  Going(Handoff(s), u, T, K)
<1>1. s = [u |-> s.u, o |-> s.o] /\ s.u \in Controller /\ s.o \in Seq(Batch) /\ Once(s.o) BY DEF Going
<1>2. PICK c : c = Handoff(s) OBVIOUS
<1>3. ASSUME NEW h \in BOOLEAN, NEW v, v = [s.u EXCEPT !.handoff = h]
      PROVE  /\ v \in Controller /\ v.pending = s.u.pending
             /\ v.conn = s.u.conn /\ v.active = s.u.active /\ v.resumed = s.u.resumed
             /\ v.running = s.u.running /\ v.composer = s.u.composer /\ v.typed = s.u.typed
             /\ v.listed = s.u.listed
  BY <1>1, <1>3 DEF Controller
<1>4. ASSUME NEW h \in BOOLEAN, c = [s EXCEPT !.u.handoff = h] PROVE Going(c, u, T, K)
  <2>1. PICK v : v = [s.u EXCEPT !.handoff = h] OBVIOUS
  <2>2. c = [u |-> v, o |-> s.o] BY <1>1, <1>4, <2>1
  <2>3. c.u = v /\ c.o = s.o /\ c = [u |-> c.u, o |-> c.o] BY <2>2
  <2>4. Like(v, u) /\ v.pending = u.pending \cup In(s.o) /\ v \in Controller BY <1>3, <2>1 DEF Going, Like
  <2> QED BY <2>3, <2>4 DEF Going
<1>5. ASSUME c = [u |-> [s.u EXCEPT !.handoff = FALSE], o |-> Append(s.o, ReconnectCommand)]
      PROVE  Going(c, u, T, K)
  <2>1. PICK v : v = [s.u EXCEPT !.handoff = FALSE] OBVIOUS
  <2>2. PICK r : r = ReconnectCommand OBVIOUS
  <2>3. r \in Batch /\ r.op # "send" BY <2>2 DEF ReconnectCommand, Batch
  <2>4. PICK q : q = <<r>> OBVIOUS
  <2>5. q \in Seq(Batch) /\ DOMAIN q = {1} /\ q[1] = r BY <2>3, <2>4
  <2>6. In(q) = {} /\ Once(q) BY <2>3, <2>5 DEF In, Once
  <2>7. PICK o : o = s.o \o q OBVIOUS
  <2>8. Append(s.o, r) = o BY <1>1, <2>3, <2>4, <2>7, AppendIsConcat
  <2>9. o \in Seq(Batch) /\ Once(o) /\ In(o) = In(s.o)
    <3>1. o \in Seq(Batch) /\ Once(o) /\ In(o) = In(s.o) \cup In(q) BY <1>1, <2>5, <2>6, <2>7, Posted
    <3> QED BY <3>1, <2>6
  <2>10. c.u = v /\ c.o = o /\ c = [u |-> c.u, o |-> c.o] BY <1>5, <2>1, <2>2, <2>8
  <2>11. Like(v, u) /\ v.pending = u.pending \cup In(s.o) /\ v \in Controller BY <1>3, <2>1 DEF Going, Like
  <2> QED BY <2>9, <2>10, <2>11 DEF Going
<1>6. Going(c, u, T, K) BY <1>2, <1>4, <1>5 DEF Handoff
<1> QED BY <1>2, <1>6

\* A handler that works on u has issued requests nobody has seen before, after
\* everything it found in the channel.
Sends(q) == \A i \in DOMAIN q : q[i].op = "send"

Issued(N, u, T) ==
    /\ N \in SUBSET Request
    /\ N \cap (ui.pending \cup Queued \cup Written \cup Answered) = {}
    /\ \A r \in N : Fit(r, u, T)
    /\ Single(N)
    /\ ui' \in Controller /\ Like(ui', u) /\ ui'.pending = u.pending \cup N
    /\ cmds' \in Seq(Batch) /\ Once(cmds') /\ Queued' = Queued \cup N
    /\ \A a, b \in Queued : Ahead(cmds, a, b) => Ahead(cmds, a, b)'
    /\ \A a \in Queued, b \in N : Ahead(cmds, a, b)'
    /\ MaxReconnects = 0 /\ Sends(cmds) => Sends(cmds')
    /\ reconnects' \in Nat
    /\ UNCHANGED <<hubVars, serverVars>>

LEMMA QueuedIs == Queued = In(cmds) /\ Written = Among(wire)
BY DEF Queued, In, Written, Among

LEMMA Reconnecting ==
    ASSUME NEW o \in Seq(Batch)
    PROVE  Reconnects(o) \in Nat /\ (Reconnects(o) = 0 => Sends(o))
<1>1. PICK S : S = {i \in DOMAIN o : o[i] = ReconnectCommand} OBVIOUS
<1>2. DOMAIN o = 1..Len(o) /\ Len(o) \in Nat BY LenProperties
<1>3. IsFiniteSet(1..Len(o)) BY <1>2, FS_Interval
<1>4. IsFiniteSet(S) BY <1>1, <1>2, <1>3, FS_Subset
<1>5. Reconnects(o) = Cardinality(S) BY <1>1 DEF Reconnects
<1>6. Cardinality(S) \in Nat BY <1>4, FS_CardinalityType
<1>7. ASSUME Cardinality(S) = 0 PROVE Sends(o)
  <2>1. S = {} BY <1>4, <1>7, FS_EmptySet
  <2>2. \A i \in DOMAIN o : o[i] \in Batch BY <1>2, ElementOfSeq
  <2>3. \A i \in DOMAIN o : o[i] = ReconnectCommand \/ o[i].op = "send"
    BY <2>2 DEF Batch, ReconnectCommand
  <2> QED BY <1>1, <2>1, <2>3 DEF Sends
<1> QED BY <1>5, <1>6, <1>7

LEMMA Ended ==
    ASSUME Base, NEW s, NEW u, NEW T, NEW K, Going(s, u, T, K), Ends(s)
    PROVE  \E N : Issued(N, u, T)
<1>1. PICK N : N = In(s.o) OBVIOUS
<1>2. s.o \in Seq(Batch) /\ Once(s.o) /\ Like(s.u, u) /\ s.u.pending = u.pending \cup N /\ N \subseteq Request
      /\ s.u \in Controller /\ Single(N) /\ \A r \in N : r.n = Stamp /\ r.kind \in K /\ Fit(r, u, T)
  BY <1>1 DEF Going
<1>3. N # {} => Asks(s.o) BY <1>1 DEF In, Asks
<1>4. N # {} => Stamp \in Fresh BY <1>3, StampIsOne DEF Ends
<1>5. N \cap (ui.pending \cup Queued \cup Written \cup Answered) = {}
  <2> SUFFICES ASSUME NEW r \in N, r \in ui.pending \cup Queued \cup Written \cup Answered PROVE FALSE OBVIOUS
  <2>1. r.n \in Fresh BY <1>2, <1>4
  <2> QED BY <2>1 DEF Fresh
<1>6. Queued = In(cmds) /\ cmds \in Seq(Batch) /\ Once(cmds) BY QueuedIs DEF Base, TypeOK, Placed
<1>7. PICK q : q = cmds \o s.o OBVIOUS
<1>8. /\ q \in Seq(Batch) /\ Once(q) /\ In(q) = In(cmds) \cup In(s.o)
      /\ \A a, b \in In(cmds) : Ahead(cmds, a, b) => Ahead(q, a, b)
      /\ \A a \in In(cmds), b \in In(s.o) : Ahead(q, a, b)
  <2>1. In(cmds) \cap In(s.o) = {} BY <1>1, <1>5, <1>6
  <2>2. PICK c : c = cmds OBVIOUS
  <2>3. c \in Seq(Batch) /\ Once(c) /\ In(c) \cap In(s.o) = {} BY <2>1, <2>2, <1>6
  <2> QED BY <2>2, <2>3, <1>2, <1>7, Posted
<1>9. cmds' = q BY <1>7 DEF Ends
<1>10. Queued' = Queued \cup N
  <2>1. Queued' = In(cmds') BY DEF Queued, In
  <2> QED BY <2>1, <1>1, <1>6, <1>8, <1>9
<1>11. Reconnects(s.o) \in Nat /\ reconnects' \in Nat /\ (MaxReconnects = 0 => Reconnects(s.o) = 0)
  <2>1. Reconnects(s.o) \in Nat BY <1>2, Reconnecting
  <2>2. reconnects \in Nat /\ MaxReconnects \in Nat BY BoundAssumption DEF Base, TypeOK
  <2> QED BY <2>1, <2>2 DEF Ends
<1>12. MaxReconnects = 0 /\ Sends(cmds) => Sends(cmds')
  <2> SUFFICES ASSUME MaxReconnects = 0, Sends(cmds) PROVE Sends(q) BY <1>9 DEF Sends
  <2>1. Sends(s.o) BY <1>2, <1>11, Reconnecting
  <2>2. PICK c : c = cmds OBVIOUS
  <2>3. c \in Seq(Batch) /\ Sends(c) BY <2>2, <1>6
  <2>4. PICK o : o = s.o OBVIOUS
  <2>5. o \in Seq(Batch) /\ q = c \o o /\ Sends(o) BY <2>1, <2>2, <2>4, <1>2, <1>7
  <2>9. Joins(Batch, q, c, o) BY <2>3, <2>5 DEF Joins
  <2>6. \A i \in DOMAIN c : q[i] = c[i] BY <2>9, JoinedBefore
  <2>7. \A j \in DOMAIN o : q[Len(c) + j] = o[j] BY <2>9, JoinedAfter
  <2>8. \A i \in DOMAIN q : i \in DOMAIN c \/ \E j \in DOMAIN o : i = Len(c) + j BY <2>9, JoinedOnly
  <2> QED BY <2>3, <2>5, <2>6, <2>7, <2>8 DEF Sends
<1>13. /\ ui' = s.u /\ UNCHANGED <<hubVars, serverVars>> BY DEF Ends
<1>14. (\A a, b \in Queued : Ahead(cmds, a, b) => Ahead(cmds, a, b)') /\ (\A a \in Queued, b \in N : Ahead(cmds, a, b)')
  <2>1. \A a, b : Ahead(cmds, a, b)' <=> Ahead(q, a, b) BY <1>9 DEF Ahead, At
  <2> QED BY <2>1, <1>1, <1>6, <1>8
<1>15. Once(cmds') BY <1>8, <1>9
<1>16. Issued(N, u, T) BY <1>2, <1>5, <1>8, <1>9, <1>10, <1>11, <1>12, <1>13, <1>14, <1>15 DEF Issued
<1> QED BY <1>16

---------------------------------------------------------------------------
(* Every step of the controller, as the controller state u it works on,    *)
(* the messages T it carries and the requests it issues.                   *)

\* Requests whose answer moves their message on: to another request, or back
\* to the composer.
Returning == {evq[i].req : i \in {j \in DOMAIN evq : /\ evq[j].kind \in AnswerKinds
                                                     /\ evq[j].kind = "ok" => evq[j].req.kind # "send"}}

Follows(u) ==
    /\ u \in Controller /\ u.pending \subseteq ui.pending
    /\ u.active \in existing \cup {NoThread} /\ u.resumed \subseteq existing

\* Where the messages in the composer and those carried come from.
Moved(u, T) ==
    /\ u.composer \cap T = {} /\ ui.typed \subseteq u.typed
    /\ \A p \in u.composer \cup T :
         \/ p \in ui.composer
         \/ p \notin ui.typed /\ p \in u.typed
         \/ \E r \in (ui.pending \cap Returning) \ u.pending : p \in r.text

\* What the event at the head of the stream does to what is pending and to
\* what is taken for resumed.
Same(u) == u.pending = ui.pending /\ u.resumed = ui.resumed
Answers(u, e) ==
    /\ e.req \in ui.pending /\ u.pending = ui.pending \ {e.req}
    /\ \/ e.req.kind # "unsub" /\ u.resumed = ui.resumed
       \/ /\ e.kind = "ok" /\ e.req.kind \in {"open", "resume", "start", "fork"}
          /\ u.resumed = ui.resumed \cup {e.thread}
       \/ e.req.kind = "unsub" /\ u.resumed = ui.resumed \ {e.req.thread}
Handled(u, e) ==
    \/ e.kind \notin AnswerKinds \cup {"disconnected"} /\ Same(u)
    \/ e.kind = "disconnected" /\ u.pending = {} /\ u.resumed = {}
    \/ e.kind \in AnswerKinds /\ e.req \notin ui.pending /\ Same(u)
    \/ e.kind \in AnswerKinds /\ Answers(u, e)

\* e is the end of a turn of t; it answers a message to t.  What e does to the
\* tasks shown as running.
Finishes(e, t) == e.kind = "completed" /\ e.thread = t
Accepts(e, t)  == e.kind = "ok" /\ e.req.kind = "send" /\ e.req.thread = t
Shows(u, e) == \A t \in Threads :
    /\ t \in ui.running /\ ~Finishes(e, t) => t \in u.running
    /\ Accepts(e, t) /\ e.req \in ui.pending => t \in u.running

UserDone ==
    /\ evq' = evq
    /\ \E u, T, N : Issued(N, u, T) /\ Follows(u) /\ Moved(u, T) /\ Same(u) /\ u.running = ui.running
HandleDone ==
    /\ evq # <<>> /\ evq' = Tail(evq)
    /\ \E u, T, N : /\ Issued(N, u, T) /\ Follows(u) /\ Moved(u, T) /\ Handled(u, Head(evq))
                    /\ Shows(u, Head(evq))

LEMMA EventShape ==
    ASSUME NEW e \in Event
    PROVE  /\ e.kind \in AnswerKinds => e.req \in Request /\ e.thread \in Threads \cup {NoThread}
           /\ e.kind \in {"started", "completed"} => e.thread \in Threads
BY DEF Event, AnswerKinds

LEMMA Heading ==
    ASSUME Base, evq # <<>>, NEW e, e = Head(evq)
    PROVE  /\ e \in Event /\ e = evq[1] /\ 1 \in DOMAIN evq
           /\ e.kind \in AnswerKinds =>
                /\ e.req \in Request /\ e.req \in Answered /\ Formed(e.req)
                /\ e.kind = "ok" => /\ e.thread \in existing
                                    /\ e.req.kind \in {"open", "resume"} => e.thread = e.req.thread
                /\ (e.kind = "ok" => e.req.kind # "send") => e.req \in Returning
           /\ e.kind \in {"started", "completed"} => e.thread \in Threads
<1>1. evq \in Seq(Event) BY DEF Base, TypeOK
<1>2. e \in Event /\ e = evq[1] /\ 1 \in DOMAIN evq BY <1>1, Taken
<1>3. ASSUME e.kind \in AnswerKinds
      PROVE  e.req \in Answered /\ ((e.kind = "ok" => e.req.kind # "send") => e.req \in Returning)
  BY <1>2, <1>3 DEF Answered, Returning
<1> QED BY <1>2, <1>3, EventShape DEF Base, About

LEMMA Plain ==
    ASSUME Base
    PROVE  /\ ui \in Controller /\ Follows(ui) /\ existing \subseteq Threads
           /\ Moved(ui, {}) /\ ui.resumed \subseteq existing
BY DEF Base, TypeOK, About, Follows, Moved

LEMMA TypeDone == ASSUME Base, NEW p \in Prompts, Type(p) PROVE UserDone
<1>1. PICK u : u = [ui EXCEPT !.composer = @ \cup {p}, !.typed = @ \cup {p}] OBVIOUS
<1>2. /\ u \in Controller /\ u.pending = ui.pending /\ u.resumed = ui.resumed /\ u.active = ui.active
      /\ u.composer = ui.composer \cup {p} /\ u.typed = ui.typed \cup {p} /\ u.running = ui.running
  BY <1>1, Plain DEF Controller
<1>3. PICK s : s = Here(u) OBVIOUS
<1>4. Ends(s) /\ evq' = evq /\ p \notin ui.typed BY <1>1, <1>3 DEF Type, UserStep
<1>5. Going(s, u, {}, {}) BY <1>2, <1>3, Starting
<1>6. PICK N : Issued(N, u, {}) BY <1>4, <1>5, Ended
<1>7. Follows(u) /\ Same(u) /\ Moved(u, {}) BY <1>2, <1>4, Plain DEF Follows, Same, Moved
<1> QED BY <1>2, <1>4, <1>6, <1>7 DEF UserDone

LEMMA OpenTaskDone == ASSUME Base, NEW t \in Threads, OpenTask(t) PROVE UserDone
<1>1. PICK u : u = [ui EXCEPT !.active = t] OBVIOUS
<1>2. /\ u \in Controller /\ u.pending = ui.pending /\ u.resumed = ui.resumed /\ u.active = t
      /\ u.composer = ui.composer /\ u.typed = ui.typed /\ u.running = ui.running
  BY <1>1, Plain DEF Controller
<1>3. PICK s : s = Here(u) OBVIOUS
<1>4. PICK s1 : s1 = UnsubscribeIdle(s) OBVIOUS
<1>5. PICK s2 : s2 = OpenLive(s1, t) OBVIOUS
<1>6. Ends(s2) /\ evq' = evq /\ t \in existing BY <1>1, <1>3, <1>4, <1>5 DEF OpenTask, UserStep
<1>7. Going(s, u, {}, {}) BY <1>2, <1>3, Starting
<1>8. Going(s1, u, {}, {"unsub"})
  <2>1. Going(s1, u, {}, {} \cup {"unsub"}) BY <1>2, <1>4, <1>7, Plain, Releasing
  <2> QED BY <2>1 DEF Going
<1>9. Going(s2, u, {}, {"unsub"} \cup {"open"}) BY <1>5, <1>6, <1>8, Plain, Opening
<1>10. PICK N : Issued(N, u, {}) BY <1>6, <1>9, Ended
<1>11. Follows(u) /\ Same(u) /\ Moved(u, {}) BY <1>2, <1>6, Plain DEF Follows, Same, Moved
<1> QED BY <1>2, <1>6, <1>10, <1>11 DEF UserDone

LEMMA NewTaskDone == ASSUME Base, NewTask PROVE UserDone
<1>1. PICK u : u = [ui EXCEPT !.active = NoThread, !.composer = {}] OBVIOUS
<1>2. /\ u \in Controller /\ u.pending = ui.pending /\ u.resumed = ui.resumed /\ u.active = NoThread
      /\ u.composer = {} /\ u.typed = ui.typed /\ u.running = ui.running
  BY <1>1, Plain DEF Controller
<1>3. PICK s : s = Here(u) OBVIOUS
<1>4. PICK s1 : s1 = UnsubscribeIdle(s) OBVIOUS
<1>5. Ends(s1) /\ evq' = evq BY <1>1, <1>3, <1>4 DEF NewTask, UserStep
<1>6. Going(s, u, {}, {}) BY <1>2, <1>3, Starting
<1>7. Going(s1, u, {}, {} \cup {"unsub"}) BY <1>2, <1>4, <1>6, Plain, Releasing
<1>8. PICK N : Issued(N, u, {}) BY <1>5, <1>7, Ended
<1>9. Follows(u) /\ Same(u) /\ Moved(u, {}) BY <1>2, Plain DEF Follows, Same, Moved
<1> QED BY <1>2, <1>5, <1>8, <1>9 DEF UserDone

LEMMA SendComposerDone == ASSUME Base, SendComposer PROVE UserDone
<1>1. PICK u : u = [ui EXCEPT !.composer = {}] OBVIOUS
<1>2. /\ u \in Controller /\ u.pending = ui.pending /\ u.resumed = ui.resumed /\ u.active = ui.active
      /\ u.composer = {} /\ u.typed = ui.typed /\ u.running = ui.running
  BY <1>1, Plain DEF Controller
<1>3. PICK s : s = Here(u) OBVIOUS
<1>4. PICK T : T = ui.composer OBVIOUS
<1>5. PICK t : t = ui.active OBVIOUS
<1>6. T \in SUBSET Prompts /\ t \in existing \cup {NoThread} /\ t \in Threads \cup {NoThread}
  BY <1>4, <1>5, Plain DEF Controller, Base, About
<1>7. PICK k \in {"start", "send", "resume"} :
        /\ Ends(Ask(s, {<<k, t, T>>})) /\ evq' = evq
        /\ k # "start" => t # NoThread
        /\ k = "resume" => t \notin ui.resumed
  <2>1. CASE t = NoThread
    <3>2. NoThread \notin ui.resumed BY Plain, ThreadAssumption DEF Controller
    <3>1. Ends(Ask(s, {<<"start", t, T>>})) /\ evq' = evq
      BY <3>2, <2>1, <1>1, <1>3, <1>4, <1>5 DEF SendComposer, UserStep
    <3> QED BY <3>1
  <2>2. CASE t # NoThread /\ t \in ui.resumed
    <3>1. Ends(Ask(s, {<<"send", t, T>>})) /\ evq' = evq
      BY <2>2, <1>1, <1>3, <1>4, <1>5 DEF SendComposer, UserStep, StartTurn
    <3> QED BY <3>1, <2>2
  <2>3. CASE t # NoThread /\ t \notin ui.resumed
    <3>1. Ends(Ask(s, {<<"resume", t, T>>})) /\ evq' = evq
      BY <2>3, <1>1, <1>3, <1>4, <1>5 DEF SendComposer, UserStep
    <3> QED BY <3>1, <2>3
  <2> QED BY <2>1, <2>2, <2>3
<1>8. Going(s, u, {}, {}) BY <1>2, <1>3, Starting
<1>12. PICK s1 : s1 = Ask(s, {<<k, t, T>>}) OBVIOUS
<1>9. Going(s1, u, T, {} \cup {k})
  <2>1. (k # "start" => t \in existing) /\ (k = "resume" => t \notin u.resumed) BY <1>2, <1>6, <1>7
  <2> QED BY <2>1, <1>6, <1>8, <1>12, Messaging
<1>10. PICK N : Issued(N, u, T) BY <1>7, <1>9, <1>12, Ended
<1>11. Follows(u) /\ Same(u) /\ Moved(u, T) BY <1>2, <1>4, Plain DEF Follows, Same, Moved
<1> QED BY <1>2, <1>7, <1>10, <1>11 DEF UserDone

LEMMA ForkThreadDone == ASSUME Base, ForkThread PROVE UserDone
<1>1. PICK u : u = ui OBVIOUS
<1>2. u \in Controller /\ Follows(u) /\ Same(u) /\ Moved(u, {}) /\ u.running = ui.running BY <1>1, Plain DEF Same
<1>3. PICK s : s = Here(u) OBVIOUS
<1>4. PICK t : t = ui.active OBVIOUS
<1>5. PICK s1 : s1 = Ask(s, {<<"fork", t, {}>>}) OBVIOUS
<1>6. Ends(s1) /\ evq' = evq /\ t # NoThread BY <1>1, <1>3, <1>4, <1>5 DEF ForkThread, UserStep
<1>7. t \in existing /\ t \in Threads BY <1>4, <1>6, Plain DEF Base, About
<1>8. Going(s, u, {}, {}) BY <1>2, <1>3, Starting
<1>9. Going(s1, u, {}, {} \cup {"fork"}) BY <1>5, <1>7, <1>8, Messaging
<1>10. PICK N : Issued(N, u, {}) BY <1>6, <1>9, Ended
<1> QED BY <1>2, <1>6, <1>10 DEF UserDone

LEMMA RemoteActiveDone == ASSUME Base, RemoteActive PROVE UserDone
<1>1. PICK u : u = ui OBVIOUS
<1>2. u \in Controller /\ Follows(u) /\ Same(u) /\ Moved(u, {}) /\ u.running = ui.running BY <1>1, Plain DEF Same
<1>3. PICK s : s = Here(u) OBVIOUS
<1>4. PICK s1 : s1 = Handoff(s) OBVIOUS
<1>5. Ends(s1) /\ evq' = evq BY <1>1, <1>3, <1>4 DEF RemoteActive, UserStep
<1>6. Going(s, u, {}, {}) BY <1>2, <1>3, Starting
<1>7. Going(s1, u, {}, {}) BY <1>4, <1>6, Handing
<1>8. PICK N : Issued(N, u, {}) BY <1>5, <1>7, Ended
<1> QED BY <1>2, <1>5, <1>8 DEF UserDone

LEMMA RemoteRestartedDone == ASSUME Base, RemoteRestarted PROVE UserDone
<1>1. PICK u : u = ui OBVIOUS
<1>2. u \in Controller /\ Follows(u) /\ Same(u) /\ Moved(u, {}) /\ u.running = ui.running BY <1>1, Plain DEF Same
<1>3. PICK s : s = [u |-> u, o |-> <<ReconnectCommand>>] OBVIOUS
<1>4. Ends(s) /\ evq' = evq BY <1>1, <1>3 DEF RemoteRestarted, UserStep
<1>5. PICK r : r = ReconnectCommand OBVIOUS
<1>6. r \in Batch /\ r.op # "send" BY <1>5 DEF ReconnectCommand, Batch
<1>7. PICK q : q = <<r>> OBVIOUS
<1>8. q \in Seq(Batch) /\ DOMAIN q = {1} /\ q[1] = r BY <1>6, <1>7
<1>9. In(q) = {} /\ Once(q) BY <1>6, <1>8 DEF In, Once
<1>10. s = [u |-> s.u, o |-> s.o] /\ s.u = u /\ s.o = q BY <1>3, <1>5, <1>7
<1>11. Going(s, u, {}, {}) BY <1>2, <1>8, <1>9, <1>10 DEF Going, Single, Like
<1>12. PICK N : Issued(N, u, {}) BY <1>4, <1>11, Ended
<1> QED BY <1>2, <1>4, <1>12 DEF UserDone

LEMMA UserIsDone == Base /\ User => UserDone
BY TypeDone, OpenTaskDone, NewTaskDone, SendComposerDone, ForkThreadDone, RemoteActiveDone,
   RemoteRestartedDone DEF User

\* The requests that may still start a turn with the message p, or bring it
\* back to the composer.
Carriers(p) == {r \in Queued \cup Written \cup (Returning \cap ui.pending) : p \in r.text}

\* A message is in the composer, or has one carrier, or its turn has started,
\* or it was given up: no two of these.
Messages == \A p \in Prompts :
    /\ \A r, q \in Carriers(p) : r = q
    /\ p \in ui.composer \/ Carriers(p) # {} => delivered[p] = 0 /\ p \in ui.typed
    /\ p \in ui.composer => Carriers(p) = {}
    /\ delivered[p] <= 1
    /\ p \notin ui.typed => delivered[p] = 0

\* What an answer will move is not in the composer too.
LEMMA Apart ==
    ASSUME Base, Messages, NEW r \in Returning \cap ui.pending
    PROVE  r.text \cap ui.composer = {}
<1> SUFFICES ASSUME NEW p \in r.text, p \in ui.composer PROVE FALSE OBVIOUS
<1>1. p \in Prompts BY Plain DEF Controller
<1>2. r \in Carriers(p) BY DEF Carriers
<1> QED BY <1>1, <1>2 DEF Messages

\* An answer somebody waits for.
LEMMA Waited ==
    ASSUME Base, NEW kinds, NEW answer \in AnswerKinds, Answering(kinds, answer)
    PROVE  \E e : /\ e = Head(evq) /\ evq # <<>> /\ evq' = Tail(evq) /\ e.kind = answer
                  /\ e.req \in ui.pending /\ e.req.kind \in kinds
                  /\ e.req \in Request /\ Formed(e.req) /\ e.thread \in Threads \cup {NoThread}
                  /\ answer = "ok" => /\ e.thread \in existing
                                      /\ e.req.kind \in {"open", "resume"} => e.thread = e.req.thread
                  /\ (answer = "ok" => e.req.kind # "send") => e.req \in Returning
<1>1. PICK e : e = Head(evq) OBVIOUS
<1>2. /\ evq # <<>> /\ evq' = Tail(evq) /\ e.kind = answer /\ e.req \in ui.pending /\ e.req.kind \in kinds
      /\ e.kind \in AnswerKinds
  BY <1>1 DEF Answering
<1>3. e \in Event BY <1>1, <1>2, Heading
<1>4. e.req \in Request /\ e.thread \in Threads \cup {NoThread} BY <1>2, <1>3, EventShape
<1> QED BY <1>1, <1>2, <1>4, Heading

\* Events that are no answers.
LEMMA ConnectingDone == ASSUME Base, OnConnecting PROVE HandleDone
<1>1. PICK u : u = [ui EXCEPT !.conn = "Connecting"] OBVIOUS
<1>2. /\ u \in Controller /\ u.pending = ui.pending /\ u.resumed = ui.resumed /\ u.active = ui.active
      /\ u.composer = ui.composer /\ u.typed = ui.typed /\ u.running = ui.running
  BY <1>1, Plain DEF Controller
<1>3. PICK s : s = Here(u) OBVIOUS
<1>4. Ends(s) /\ evq # <<>> /\ evq' = Tail(evq) /\ Head(evq).kind = "connecting"
  BY <1>1, <1>3 DEF OnConnecting, Receive
<1>5. Going(s, u, {}, {}) BY <1>2, <1>3, Starting
<1>6. PICK N : Issued(N, u, {}) BY <1>4, <1>5, Ended
<1>7. Follows(u) /\ Handled(u, Head(evq)) /\ Shows(u, Head(evq)) /\ Moved(u, {})
  BY <1>2, <1>4, Plain DEF Shows, Finishes, Accepts, Follows, Same, Moved, Handled, AnswerKinds
<1> QED BY <1>4, <1>6, <1>7 DEF HandleDone

LEMMA ReadyDone == ASSUME Base, OnReady PROVE HandleDone
<1>1. PICK u : u = [ui EXCEPT !.conn = "Ready", !.listed = TRUE, !.handoff = @ /\ mode # "managed"] OBVIOUS
<1>2. /\ u \in Controller /\ u.pending = ui.pending /\ u.resumed = ui.resumed /\ u.active = ui.active
      /\ u.composer = ui.composer /\ u.typed = ui.typed /\ u.running = ui.running
  BY <1>1, Plain DEF Controller
<1>3. PICK s : s = Here(u) OBVIOUS
<1>4. PICK s1 : s1 = IF ui.active = NoThread THEN s ELSE OpenLive(s, ui.active) OBVIOUS
<1>5. Ends(s1) /\ evq # <<>> /\ evq' = Tail(evq) /\ Head(evq).kind = "ready"
  BY <1>1, <1>3, <1>4 DEF OnReady, Receive
<1>6. Going(s, u, {}, {}) BY <1>2, <1>3, Starting
<1>7. \E K : Going(s1, u, {}, K)
  <2>1. CASE ui.active = NoThread BY <2>1, <1>4, <1>6
  <2>2. CASE ui.active # NoThread
    <3>1. PICK t : t = ui.active OBVIOUS
    <3>2. t \in existing /\ s1 = OpenLive(s, t) BY <3>1, <2>2, <1>4 DEF Base, About
    <3>3. Going(s1, u, {}, {} \cup {"open"}) BY <3>2, <1>6, Plain, Opening
    <3> QED BY <3>3
  <2> QED BY <2>1, <2>2
<1>8. PICK N : Issued(N, u, {}) BY <1>5, <1>7, Ended
<1>9. Follows(u) /\ Handled(u, Head(evq)) /\ Shows(u, Head(evq)) /\ Moved(u, {})
  BY <1>2, <1>5, Plain DEF Shows, Finishes, Accepts, Follows, Same, Moved, Handled, AnswerKinds
<1> QED BY <1>5, <1>8, <1>9 DEF HandleDone

LEMMA DisconnectedDone == ASSUME Base, OnDisconnected PROVE HandleDone
<1>1. PICK u : u = [ui EXCEPT !.conn = "Disconnected", !.pending = {}, !.resumed = {}] OBVIOUS
<1>2. /\ u \in Controller /\ u.pending = {} /\ u.resumed = {} /\ u.active = ui.active
      /\ u.composer = ui.composer /\ u.typed = ui.typed /\ u.running = ui.running
  BY <1>1, Plain DEF Controller
<1>3. PICK s : s = Here(u) OBVIOUS
<1>4. Ends(s) /\ evq # <<>> /\ evq' = Tail(evq) /\ Head(evq).kind = "disconnected"
  BY <1>1, <1>3 DEF OnDisconnected, Receive
<1>5. Going(s, u, {}, {}) BY <1>2, <1>3, Starting
<1>6. PICK N : Issued(N, u, {}) BY <1>4, <1>5, Ended
<1>7. Follows(u) /\ Handled(u, Head(evq)) /\ Shows(u, Head(evq)) /\ Moved(u, {})
  BY <1>2, <1>4, Plain DEF Shows, Finishes, Accepts, Follows, Moved, Handled
<1> QED BY <1>4, <1>6, <1>7 DEF HandleDone

LEMMA OversizedDone == ASSUME Base, OnOversized PROVE HandleDone
<1>1. PICK u : u = ui OBVIOUS
<1>2. u \in Controller /\ Follows(u) /\ Same(u) /\ Moved(u, {}) /\ u.running = ui.running BY <1>1, Plain DEF Same
<1>3. PICK s : s = Here(u) OBVIOUS
<1>4. Ends(s) /\ evq # <<>> /\ evq' = Tail(evq) /\ Head(evq).kind = "oversized"
  BY <1>1, <1>3 DEF OnOversized, Receive
<1>5. Going(s, u, {}, {}) BY <1>2, <1>3, Starting
<1>6. PICK N : Issued(N, u, {}) BY <1>4, <1>5, Ended
<1>7. Handled(u, Head(evq)) /\ Shows(u, Head(evq)) BY <1>2, <1>4 DEF Shows, Finishes, Accepts, Handled, AnswerKinds
<1> QED BY <1>2, <1>4, <1>6, <1>7 DEF HandleDone

LEMMA StartedDone == ASSUME Base, OnStarted PROVE HandleDone
<1>1. PICK e : e = Head(evq) OBVIOUS
<1>2. evq # <<>> /\ evq' = Tail(evq) /\ e.kind = "started" BY <1>1 DEF OnStarted, Receive
<1>3. e.thread \in Threads BY <1>1, <1>2, Heading
<1>4. PICK u : u = [ui EXCEPT !.running = @ \cup {e.thread}] OBVIOUS
<1>5. /\ u \in Controller /\ u.pending = ui.pending /\ u.resumed = ui.resumed /\ u.active = ui.active
      /\ u.composer = ui.composer /\ u.typed = ui.typed /\ u.running = ui.running \cup {e.thread}
  BY <1>3, <1>4, Plain DEF Controller
<1>6. PICK s : s = Here(u) OBVIOUS
<1>7. Ends(s) BY <1>1, <1>4, <1>6 DEF OnStarted
<1>8. Going(s, u, {}, {}) BY <1>5, <1>6, Starting
<1>9. PICK N : Issued(N, u, {}) BY <1>7, <1>8, Ended
<1>10. Follows(u) /\ Handled(u, e) /\ Shows(u, e) /\ Moved(u, {})
  BY <1>2, <1>5, Plain DEF Shows, Finishes, Accepts, Follows, Same, Moved, Handled, AnswerKinds
<1> QED BY <1>1, <1>2, <1>9, <1>10 DEF HandleDone

LEMMA CompletedDone == ASSUME Base, OnCompleted PROVE HandleDone
<1>1. PICK e : e = Head(evq) OBVIOUS
<1>2. evq # <<>> /\ evq' = Tail(evq) /\ e.kind = "completed" BY <1>1 DEF OnCompleted, Receive
<1>3. PICK u : u = [ui EXCEPT !.running = @ \ {e.thread}] OBVIOUS
<1>4. /\ u \in Controller /\ u.pending = ui.pending /\ u.resumed = ui.resumed /\ u.active = ui.active
      /\ u.composer = ui.composer /\ u.typed = ui.typed /\ u.running = ui.running \ {e.thread}
  BY <1>3, Plain DEF Controller
<1>5. PICK s : s = Here(u) OBVIOUS
<1>6. PICK s1 : s1 = IF ui.handoff THEN Handoff(s) ELSE s OBVIOUS
<1>7. PICK s2 : s2 = IF ui.active = e.thread THEN s1 ELSE UnsubscribeIdle(s1) OBVIOUS
<1>8. Ends(s2) BY <1>1, <1>3, <1>5, <1>6, <1>7 DEF OnCompleted
<1>9. Going(s, u, {}, {}) BY <1>4, <1>5, Starting
<1>10. Going(s1, u, {}, {}) BY <1>6, <1>9, Handing
<1>11. Going(s2, u, {}, {"unsub"})
  <2>1. Going(UnsubscribeIdle(s1), u, {}, {} \cup {"unsub"}) BY <1>4, <1>10, Plain, Releasing
  <2> QED BY <2>1, <1>7, <1>10 DEF Going
<1>12. PICK N : Issued(N, u, {}) BY <1>8, <1>11, Ended
<1>13. Follows(u) /\ Handled(u, e) /\ Shows(u, e) /\ Moved(u, {})
  BY <1>2, <1>4, Plain DEF Shows, Finishes, Accepts, Follows, Same, Moved, Handled, AnswerKinds
<1> QED BY <1>1, <1>2, <1>12, <1>13 DEF HandleDone

LEMMA UnknownDone == ASSUME Base, OnUnknown PROVE HandleDone
<1>1. PICK u : u = ui OBVIOUS
<1>2. u \in Controller /\ Follows(u) /\ Same(u) /\ Moved(u, {}) /\ u.running = ui.running BY <1>1, Plain DEF Same
<1>3. PICK s : s = Here(u) OBVIOUS
<1>4. /\ Ends(s) /\ evq # <<>> /\ evq' = Tail(evq) /\ Head(evq).kind \in AnswerKinds
      /\ Head(evq).req \notin ui.pending
  BY <1>1, <1>3 DEF OnUnknown
<1>5. Going(s, u, {}, {}) BY <1>2, <1>3, Starting
<1>6. PICK N : Issued(N, u, {}) BY <1>4, <1>5, Ended
<1>7. Handled(u, Head(evq)) /\ Shows(u, Head(evq)) BY <1>2, <1>4 DEF Shows, Finishes, Accepts, Handled
<1> QED BY <1>2, <1>4, <1>6, <1>7 DEF HandleDone

\* Answers.
LEMMA Settled ==
    ASSUME Base, NEW r
    PROVE  /\ Settle(r) \in Controller /\ Settle(r).pending = ui.pending \ {r}
           /\ Settle(r).resumed = ui.resumed /\ Settle(r).active = ui.active
           /\ Settle(r).composer = ui.composer /\ Settle(r).typed = ui.typed
           /\ Settle(r).running = ui.running
BY Plain DEF Controller, Settle

LEMMA OpenedDone == ASSUME Base, OnOpened PROVE HandleDone
<1>1. PICK e : /\ e = Head(evq) /\ evq # <<>> /\ evq' = Tail(evq) /\ e.kind = "ok"
               /\ e.req \in ui.pending /\ e.req.kind = "open" /\ e.req \in Request /\ Formed(e.req)
               /\ e.thread \in existing /\ e.thread = e.req.thread
  <2>1. Answering({"open"}, "ok") BY DEF OnOpened
  <2> QED BY <2>1, Waited DEF AnswerKinds
<1>2. PICK u : u = [Settle(e.req) EXCEPT !.resumed = @ \cup {e.req.thread}] OBVIOUS
<1>3. /\ u \in Controller /\ u.pending = ui.pending \ {e.req} /\ u.resumed = ui.resumed \cup {e.thread}
      /\ u.active = ui.active /\ u.composer = ui.composer /\ u.typed = ui.typed /\ u.running = ui.running
  <2>1. PICK v : v = Settle(e.req) OBVIOUS
  <2>2. /\ v \in Controller /\ v.pending = ui.pending \ {e.req} /\ v.resumed = ui.resumed
        /\ v.active = ui.active /\ v.composer = ui.composer /\ v.typed = ui.typed /\ v.running = ui.running
    BY <2>1, Settled
  <2>3. e.req.thread \in Threads BY <1>1, Plain DEF Base
  <2>4. u = [v EXCEPT !.resumed = @ \cup {e.req.thread}] BY <1>2, <2>1
  <2> QED BY <1>1, <2>2, <2>3, <2>4 DEF Controller
<1>4. PICK s : s = Here(u) OBVIOUS
<1>5. PICK s1 : s1 = IF ui.active = e.req.thread THEN s ELSE UnsubscribeIdle(s) OBVIOUS
<1>6. Ends(s1) BY <1>1, <1>2, <1>4, <1>5 DEF OnOpened
<1>7. Going(s, u, {}, {}) BY <1>3, <1>4, Starting
<1>8. Going(s1, u, {}, {"unsub"})
  <2>1. u.resumed \subseteq existing BY <1>1, <1>3, Plain
  <2>2. Going(UnsubscribeIdle(s), u, {}, {} \cup {"unsub"}) BY <2>1, <1>7, Plain, Releasing
  <2> QED BY <2>2, <1>5, <1>7 DEF Going
<1>9. PICK N : Issued(N, u, {}) BY <1>6, <1>8, Ended
<1>10. Follows(u) /\ Handled(u, e) /\ Shows(u, e) /\ Moved(u, {})
  BY <1>1, <1>3, Plain DEF Shows, Finishes, Accepts, Follows, Moved, Handled, Answers, AnswerKinds
<1> QED BY <1>1, <1>9, <1>10 DEF HandleDone

LEMMA ResumedDone == ASSUME Base, Messages, OnResumed PROVE HandleDone
<1>1. PICK e : /\ e = Head(evq) /\ evq # <<>> /\ evq' = Tail(evq) /\ e.kind = "ok"
               /\ e.req \in ui.pending /\ e.req.kind = "resume" /\ e.req \in Request /\ Formed(e.req)
               /\ e.thread \in existing /\ e.thread = e.req.thread /\ e.req \in Returning
  <2>1. Answering({"resume"}, "ok") BY DEF OnResumed
  <2> QED BY <2>1, Waited DEF AnswerKinds
<1>2. PICK u : u = [Settle(e.req) EXCEPT !.resumed = @ \cup {e.req.thread}] OBVIOUS
<1>3. /\ u \in Controller /\ u.pending = ui.pending \ {e.req} /\ u.resumed = ui.resumed \cup {e.thread}
      /\ u.active = ui.active /\ u.composer = ui.composer /\ u.typed = ui.typed /\ u.running = ui.running
  <2>1. PICK v : v = Settle(e.req) OBVIOUS
  <2>2. /\ v \in Controller /\ v.pending = ui.pending \ {e.req} /\ v.resumed = ui.resumed
        /\ v.active = ui.active /\ v.composer = ui.composer /\ v.typed = ui.typed /\ v.running = ui.running
    BY <2>1, Settled
  <2>3. e.req.thread \in Threads BY <1>1, Plain DEF Base
  <2>4. u = [v EXCEPT !.resumed = @ \cup {e.req.thread}] BY <1>2, <2>1
  <2> QED BY <1>1, <2>2, <2>3, <2>4 DEF Controller
<1>4. PICK s : s = Here(u) OBVIOUS
<1>5. PICK t : t = e.req.thread OBVIOUS
<1>6. PICK T : T = e.req.text OBVIOUS
<1>7. PICK s1 : s1 = Ask(s, {<<"send", t, T>>}) OBVIOUS
<1>8. Ends(s1) BY <1>1, <1>2, <1>4, <1>5, <1>6, <1>7 DEF OnResumed, StartTurn
<1>9. Going(s, u, {}, {}) BY <1>3, <1>4, Starting
<1>10. t \in existing /\ t \in Threads /\ T \in SUBSET Prompts BY <1>1, <1>5, <1>6, Plain DEF Request
<1>11. Going(s1, u, T, {} \cup {"send"}) BY <1>7, <1>9, <1>10, Messaging
<1>12. PICK N : Issued(N, u, T) BY <1>8, <1>11, Ended
<1>13. Moved(u, T)
  <2>1. T \cap ui.composer = {} BY <1>1, <1>6, Apart
  <2> QED BY <2>1, <1>1, <1>3, <1>6 DEF Moved
<1>14. Follows(u) /\ Handled(u, e) /\ Shows(u, e) BY <1>1, <1>3, Plain DEF Shows, Finishes, Accepts, Follows, Handled, Answers, AnswerKinds
<1> QED BY <1>1, <1>12, <1>13, <1>14 DEF HandleDone

LEMMA TaskStartedDone == ASSUME Base, Messages, OnTaskStarted PROVE HandleDone
<1>1. PICK e : /\ e = Head(evq) /\ evq # <<>> /\ evq' = Tail(evq) /\ e.kind = "ok"
               /\ e.req \in ui.pending /\ e.req.kind = "start" /\ e.req \in Request
               /\ e.thread \in existing /\ e.req \in Returning
  <2>1. Answering({"start"}, "ok") BY DEF OnTaskStarted
  <2> QED BY <2>1, Waited DEF AnswerKinds
<1>2. PICK u : u = [Settle(e.req) EXCEPT !.active = e.thread, !.resumed = @ \cup {e.thread}] OBVIOUS
<1>3. /\ u \in Controller /\ u.pending = ui.pending \ {e.req} /\ u.resumed = ui.resumed \cup {e.thread}
      /\ u.active = e.thread /\ u.composer = ui.composer /\ u.typed = ui.typed /\ u.running = ui.running
  <2>1. PICK v : v = Settle(e.req) OBVIOUS
  <2>2. /\ v \in Controller /\ v.pending = ui.pending \ {e.req} /\ v.resumed = ui.resumed
        /\ v.active = ui.active /\ v.composer = ui.composer /\ v.typed = ui.typed /\ v.running = ui.running
    BY <2>1, Settled
  <2>3. e.thread \in Threads BY <1>1, Plain DEF Base
  <2>4. u = [v EXCEPT !.active = e.thread, !.resumed = @ \cup {e.thread}] BY <1>2, <2>1
  <2> QED BY <1>1, <2>2, <2>3, <2>4 DEF Controller
<1>4. PICK s : s = Here(u) OBVIOUS
<1>5. PICK t : t = e.thread OBVIOUS
<1>6. PICK T : T = e.req.text OBVIOUS
<1>7. PICK s1 : s1 = UnsubscribeIdle(s) OBVIOUS
<1>8. PICK s2 : s2 = Ask(s1, {<<"send", t, T>>}) OBVIOUS
<1>9. Ends(s2) BY <1>1, <1>2, <1>4, <1>5, <1>6, <1>7, <1>8 DEF OnTaskStarted, StartTurn
<1>10. Going(s, u, {}, {}) BY <1>3, <1>4, Starting
<1>11. t \in existing /\ t \in Threads /\ T \in SUBSET Prompts /\ u.resumed \subseteq existing
  BY <1>1, <1>3, <1>5, <1>6, Plain DEF Request
<1>12. Going(s1, u, {}, {} \cup {"unsub"}) BY <1>7, <1>10, <1>11, Plain, Releasing
<1>13. PICK K : K = {} \cup {"unsub"} OBVIOUS
<1>14. Going(s2, u, T, K \cup {"send"}) BY <1>8, <1>11, <1>12, <1>13, Messaging
<1>15. PICK N : Issued(N, u, T) BY <1>9, <1>14, Ended
<1>16. Moved(u, T)
  <2>1. T \cap ui.composer = {} BY <1>1, <1>6, Apart
  <2> QED BY <2>1, <1>1, <1>3, <1>6 DEF Moved
<1>17. Follows(u) /\ Handled(u, e) /\ Shows(u, e) BY <1>1, <1>3, Plain DEF Shows, Finishes, Accepts, Follows, Handled, Answers, AnswerKinds
<1> QED BY <1>1, <1>15, <1>16, <1>17 DEF HandleDone

LEMMA ForkedDone == ASSUME Base, OnForked PROVE HandleDone
<1>1. PICK e : /\ e = Head(evq) /\ evq # <<>> /\ evq' = Tail(evq) /\ e.kind = "ok"
               /\ e.req \in ui.pending /\ e.req.kind = "fork" /\ e.req \in Request
               /\ e.thread \in existing
  <2>1. Answering({"fork"}, "ok") BY DEF OnForked
  <2> QED BY <2>1, Waited DEF AnswerKinds
<1>2. PICK u : u = [Settle(e.req) EXCEPT !.active = e.thread, !.resumed = @ \cup {e.thread}] OBVIOUS
<1>3. /\ u \in Controller /\ u.pending = ui.pending \ {e.req} /\ u.resumed = ui.resumed \cup {e.thread}
      /\ u.active = e.thread /\ u.composer = ui.composer /\ u.typed = ui.typed /\ u.running = ui.running
  <2>1. PICK v : v = Settle(e.req) OBVIOUS
  <2>2. /\ v \in Controller /\ v.pending = ui.pending \ {e.req} /\ v.resumed = ui.resumed
        /\ v.active = ui.active /\ v.composer = ui.composer /\ v.typed = ui.typed /\ v.running = ui.running
    BY <2>1, Settled
  <2>3. e.thread \in Threads BY <1>1, Plain DEF Base
  <2>4. u = [v EXCEPT !.active = e.thread, !.resumed = @ \cup {e.thread}] BY <1>2, <2>1
  <2> QED BY <1>1, <2>2, <2>3, <2>4 DEF Controller
<1>4. PICK s : s = Here(u) OBVIOUS
<1>5. Ends(s) BY <1>1, <1>2, <1>4 DEF OnForked
<1>6. Going(s, u, {}, {}) BY <1>3, <1>4, Starting
<1>7. PICK N : Issued(N, u, {}) BY <1>5, <1>6, Ended
<1>8. Follows(u) /\ Handled(u, e) /\ Shows(u, e) /\ Moved(u, {})
  BY <1>1, <1>3, Plain DEF Shows, Finishes, Accepts, Follows, Moved, Handled, Answers, AnswerKinds
<1> QED BY <1>1, <1>7, <1>8 DEF HandleDone

LEMMA SentDone == ASSUME Base, OnSent PROVE HandleDone
<1>1. PICK e : /\ e = Head(evq) /\ evq # <<>> /\ evq' = Tail(evq) /\ e.kind = "ok"
               /\ e.req \in ui.pending /\ e.req.kind = "send" /\ e.req \in Request /\ Formed(e.req)
  <2>1. Answering({"send"}, "ok") BY DEF OnSent
  <2> QED BY <2>1, Waited DEF AnswerKinds
<1>2. e.req.thread \in Threads BY <1>1, Plain DEF Formed
<1>3. PICK u : u = [Settle(e.req) EXCEPT !.running = @ \cup {e.req.thread}] OBVIOUS
<1>4. /\ u \in Controller /\ u.pending = ui.pending \ {e.req} /\ u.resumed = ui.resumed
      /\ u.active = ui.active /\ u.composer = ui.composer /\ u.typed = ui.typed /\ u.running = ui.running \cup {e.req.thread}
  BY <1>1, <1>2, <1>3, Plain DEF Controller, Settle
<1>5. PICK s : s = Here(u) OBVIOUS
<1>6. Ends(s) BY <1>1, <1>3, <1>5 DEF OnSent
<1>7. Going(s, u, {}, {}) BY <1>4, <1>5, Starting
<1>8. PICK N : Issued(N, u, {}) BY <1>6, <1>7, Ended
<1>9. Follows(u) /\ Handled(u, e) /\ Shows(u, e) /\ Moved(u, {})
  BY <1>1, <1>4, Plain DEF Shows, Finishes, Accepts, Follows, Moved, Handled, Answers, AnswerKinds
<1> QED BY <1>1, <1>8, <1>9 DEF HandleDone

LEMMA UnsubscribedDone == ASSUME Base, OnUnsubscribed PROVE HandleDone
<1>1. PICK e : /\ e = Head(evq) /\ evq # <<>> /\ evq' = Tail(evq) /\ e.kind \in AnswerKinds
               /\ e.req \in ui.pending /\ e.req.kind = "unsub" /\ e.req \in Request /\ Formed(e.req)
  <2>1. \E answer \in AnswerKinds : Answering({"unsub"}, answer) BY DEF OnUnsubscribed, AnswerKinds
  <2> QED BY <2>1, Waited DEF AnswerKinds
<1>2. PICK t : t = e.req.thread OBVIOUS
<1>3. t \in existing BY <1>1, <1>2 DEF Formed
<1>4. PICK u : u = [Settle(e.req) EXCEPT !.resumed = @ \ {t}] OBVIOUS
<1>5. /\ u \in Controller /\ u.pending = ui.pending \ {e.req} /\ u.resumed = ui.resumed \ {t}
      /\ u.active = ui.active /\ u.composer = ui.composer /\ u.typed = ui.typed /\ u.running = ui.running
  BY <1>1, <1>4, Plain DEF Controller, Settle
<1>6. PICK s : s = Here(u) OBVIOUS
<1>7. PICK s1 : s1 = IF ui.active = t THEN OpenLive(s, t) ELSE s OBVIOUS
<1>8. Ends(s1) BY <1>1, <1>2, <1>4, <1>6, <1>7 DEF OnUnsubscribed
<1>9. Going(s, u, {}, {}) BY <1>5, <1>6, Starting
<1>10. Going(s1, u, {}, {"open"})
  <2>1. Going(OpenLive(s, t), u, {}, {} \cup {"open"}) BY <1>3, <1>9, Plain, Opening
  <2> QED BY <2>1, <1>7, <1>9 DEF Going
<1>11. PICK N : Issued(N, u, {}) BY <1>8, <1>10, Ended
<1>12. Follows(u) /\ Handled(u, e) /\ Shows(u, e) /\ Moved(u, {})
  BY <1>1, <1>2, <1>5, Plain DEF Shows, Finishes, Accepts, Follows, Moved, Handled, Answers
<1> QED BY <1>1, <1>11, <1>12 DEF HandleDone

LEMMA RestoredDone == ASSUME Base, OnRestored PROVE HandleDone
<1>1. PICK e : /\ e = Head(evq) /\ evq # <<>> /\ evq' = Tail(evq) /\ e.kind \in {"error", "malformed"}
               /\ e.req \in ui.pending /\ e.req.kind \in {"resume", "start", "send"} /\ e.req \in Request
               /\ e.req \in Returning
  <2>1. \E answer \in {"error", "malformed"}, kinds \in SUBSET {"resume", "start", "send"} : Answering(kinds, answer)
    BY DEF OnRestored
  <2>2. PICK answer \in {"error", "malformed"} : \E kinds \in SUBSET {"resume", "start", "send"} : Answering(kinds, answer)
    BY <2>1
  <2>3. PICK kinds \in SUBSET {"resume", "start", "send"} : Answering(kinds, answer) BY <2>2
  <2>4. answer \in AnswerKinds /\ answer # "ok" BY DEF AnswerKinds
  <2>5. PICK e : /\ e = Head(evq) /\ evq # <<>> /\ evq' = Tail(evq) /\ e.kind = answer
                 /\ e.req \in ui.pending /\ e.req.kind \in kinds /\ e.req \in Request
                 /\ (answer = "ok" => e.req.kind # "send") => e.req \in Returning
    BY <2>3, <2>4, Waited
  <2> QED BY <2>2, <2>3, <2>4, <2>5
<1>2. PICK u : u = [Settle(e.req) EXCEPT !.composer = @ \cup e.req.text] OBVIOUS
<1>3. /\ u \in Controller /\ u.pending = ui.pending \ {e.req} /\ u.resumed = ui.resumed
      /\ u.active = ui.active /\ u.composer = ui.composer \cup e.req.text /\ u.typed = ui.typed /\ u.running = ui.running
  <2>1. PICK v : v = Settle(e.req) OBVIOUS
  <2>2. /\ v \in Controller /\ v.pending = ui.pending \ {e.req} /\ v.resumed = ui.resumed
        /\ v.active = ui.active /\ v.composer = ui.composer /\ v.typed = ui.typed /\ v.running = ui.running
    BY <2>1, Settled
  <2>3. e.req.text \subseteq Prompts BY <1>1 DEF Request
  <2>4. u = [v EXCEPT !.composer = @ \cup e.req.text] BY <1>2, <2>1
  <2> QED BY <2>2, <2>3, <2>4 DEF Controller
<1>4. PICK s : s = Here(u) OBVIOUS
<1>5. Ends(s) BY <1>1, <1>2, <1>4 DEF OnRestored
<1>6. Going(s, u, {}, {}) BY <1>3, <1>4, Starting
<1>7. PICK N : Issued(N, u, {}) BY <1>5, <1>6, Ended
<1>8. Moved(u, {}) BY <1>1, <1>3 DEF Moved
<1>9. Follows(u) /\ Handled(u, e) /\ Shows(u, e) BY <1>1, <1>3, Plain DEF Shows, Finishes, Accepts, Follows, Handled, Answers, AnswerKinds
<1> QED BY <1>1, <1>7, <1>8, <1>9 DEF HandleDone

LEMMA GivenUpDone == ASSUME Base, OnGivenUp PROVE HandleDone
<1>1. PICK e : /\ e = Head(evq) /\ evq # <<>> /\ evq' = Tail(evq) /\ e.kind \in AnswerKinds
               /\ e.req \in ui.pending /\ e.req.kind \in {"open", "fork", "start"} /\ e.req \in Request
  <2>1. \E answer \in {"error", "malformed"} :
           Answering({"open", "fork"}, answer) \/ Answering({"open", "fork", "start"}, answer)
    BY DEF OnGivenUp
  <2>2. PICK answer \in AnswerKinds :
           Answering({"open", "fork"}, answer) \/ Answering({"open", "fork", "start"}, answer)
    BY <2>1 DEF AnswerKinds
  <2>3. CASE Answering({"open", "fork"}, answer) BY <2>3, Waited
  <2>4. CASE Answering({"open", "fork", "start"}, answer) BY <2>4, Waited
  <2> QED BY <2>2, <2>3, <2>4
<1>2. PICK u : u = Settle(e.req) OBVIOUS
<1>3. /\ u \in Controller /\ u.pending = ui.pending \ {e.req} /\ u.resumed = ui.resumed
      /\ u.active = ui.active /\ u.composer = ui.composer /\ u.typed = ui.typed /\ u.running = ui.running
  BY <1>2, Settled
<1>4. PICK s : s = Here(u) OBVIOUS
<1>5. Ends(s) BY <1>1, <1>2, <1>4 DEF OnGivenUp
<1>6. Going(s, u, {}, {}) BY <1>3, <1>4, Starting
<1>7. PICK N : Issued(N, u, {}) BY <1>5, <1>6, Ended
<1>8. Follows(u) /\ Handled(u, e) /\ Shows(u, e) /\ Moved(u, {})
  BY <1>1, <1>3, Plain DEF Shows, Finishes, Accepts, Follows, Moved, Handled, Answers
<1> QED BY <1>1, <1>7, <1>8 DEF HandleDone

LEMMA HandleIsDone == Base /\ Messages /\ Handle => HandleDone
BY ConnectingDone, ReadyDone, DisconnectedDone, OversizedDone, StartedDone, CompletedDone, UnknownDone,
   OpenedDone, ResumedDone, TaskStartedDone, ForkedDone, SentDone, UnsubscribedDone, RestoredDone,
   GivenUpDone
   DEF Handle

---------------------------------------------------------------------------
(* The controller leaves requests in one place, and messages with one      *)
(* carrier.                                                                *)

\* Nothing is put on the event stream.
Shorter == evq' \in Seq(Event) /\ \A i \in DOMAIN evq' : \E j \in DOMAIN evq : evq'[i] = evq[j]

LEMMA Shortened == Base /\ (evq' = evq \/ (evq # <<>> /\ evq' = Tail(evq))) => Shorter
<1> SUFFICES ASSUME Base, evq' = evq \/ (evq # <<>> /\ evq' = Tail(evq)) PROVE Shorter OBVIOUS
<1>1. evq \in Seq(Event) BY DEF Base, TypeOK
<1>2. CASE evq' = evq BY <1>1, <1>2 DEF Shorter
<1>3. CASE evq # <<>> /\ evq' = Tail(evq)
  <2>1. PICK q : q = evq OBVIOUS
  <2>2. PICK t : t = Tail(q) OBVIOUS
  <2>3. t \in Seq(Event) /\ \A i \in DOMAIN t : i + 1 \in DOMAIN q /\ t[i] = q[i + 1]
    BY <1>1, <1>3, <2>1, <2>2, Taken
  <2>4. \A i \in DOMAIN t : \E j \in DOMAIN q : t[i] = q[j] BY <2>3
  <2> QED BY <1>3, <2>1, <2>2, <2>3, <2>4 DEF Shorter
<1> QED BY <1>2, <1>3

LEMMA FewerAnswers == Shorter => Answered' \subseteq Answered /\ Returning' \subseteq Returning
<1> SUFFICES ASSUME Shorter PROVE Answered' \subseteq Answered /\ Returning' \subseteq Returning OBVIOUS
<1>1. ASSUME NEW r \in Answered' PROVE r \in Answered
  <2>1. PICK i \in DOMAIN evq' : evq'[i].kind \in AnswerKinds /\ evq'[i].req = r BY <1>1 DEF Answered, AnswerKinds
  <2>2. PICK j \in DOMAIN evq : evq[j] = evq'[i] BY DEF Shorter
  <2> QED BY <2>1, <2>2 DEF Answered
<1>2. ASSUME NEW r \in Returning' PROVE r \in Returning
  <2>1. PICK i \in DOMAIN evq' : /\ evq'[i].kind \in AnswerKinds /\ evq'[i].req = r
                                 /\ evq'[i].kind = "ok" => evq'[i].req.kind # "send"
    BY <1>2 DEF Returning, AnswerKinds
  <2>2. PICK j \in DOMAIN evq : evq[j] = evq'[i] BY DEF Shorter
  <2> QED BY <2>1, <2>2 DEF Returning
<1> QED BY <1>1, <1>2

LEMMA ControllerBase ==
    ASSUME Base, Shorter, NEW N, NEW u, NEW T, Issued(N, u, T), Follows(u)
    PROVE  Base'
<1>1. /\ ui' \in Controller /\ cmds' \in Seq(Batch) /\ evq' \in Seq(Event) /\ reconnects' \in Nat
      /\ phase' = phase /\ mode' = mode /\ losses' = losses /\ wire' = wire /\ subs' = subs
      /\ existing' = existing /\ turns' = turns /\ delivered' = delivered
  BY DEF Issued, Shorter, hubVars, serverVars
<1>2. TypeOK' BY <1>1 DEF Base, TypeOK
<1>3. Written' = Written /\ Answered' \subseteq Answered /\ Queued' = Queued \cup N
  BY <1>1, FewerAnswers DEF Written, Issued
<1>4. N \cap Written = {} /\ N \cap Answered = {} /\ N \cap Queued = {} BY DEF Issued
<1>5. Placed'
  <2>1. Once(cmds)' BY DEF Issued
  <2>2. Distinct(wire)' BY <1>1 DEF Base, Placed, Distinct
  <2> QED BY <1>1, <1>3, <1>4, <2>1, <2>2 DEF Base, Placed
<1>6. About'
  <2>1. ui'.pending \subseteq ui.pending \cup N /\ ui'.active = u.active /\ ui'.resumed = u.resumed
    BY DEF Issued, Follows, Like
  <2>2. \A r : Formed(r)' <=> Formed(r) BY <1>1 DEF Formed
  <2>3. \A r \in N : Formed(r) BY DEF Issued, Fit
  <2>4. \A r \in (ui.pending \cup Queued \cup Written \cup Answered)' : Formed(r)'
    BY <1>3, <2>1, <2>2, <2>3 DEF Base, About
  <2>5. ASSUME NEW i \in DOMAIN evq', evq'[i].kind = "ok"
        PROVE  /\ evq'[i].thread \in existing
               /\ evq'[i].req.kind \in {"open", "resume"} => evq'[i].thread = evq'[i].req.thread
    <3>1. PICK j \in DOMAIN evq : evq'[i] = evq[j] BY DEF Shorter
    <3> QED BY <3>1, <2>5 DEF Base, About
  <2> QED BY <1>1, <2>1, <2>4, <2>5 DEF About, Base, Follows
<1> QED BY <1>2, <1>5, <1>6 DEF Base

LEMMA ControllerMessages ==
    ASSUME Base, Messages, Shorter, NEW N, NEW u, NEW T, Issued(N, u, T), Follows(u), Moved(u, T)
    PROVE  Messages'
<1>1. /\ delivered' = delivered /\ ui'.composer = u.composer /\ ui'.typed = u.typed
      /\ ui'.pending = u.pending \cup N /\ Written' = Written /\ Queued' = Queued \cup N
      /\ Returning' \subseteq Returning /\ Returning \subseteq Answered /\ u.pending \subseteq ui.pending
  <2>1. Returning' \subseteq Returning BY FewerAnswers
  <2>2. Returning \subseteq Answered BY DEF Returning, Answered
  <2>3. Written' = Written BY DEF Issued, Like, serverVars, Written
  <2>4. /\ delivered' = delivered /\ ui'.composer = u.composer /\ ui'.typed = u.typed
        /\ ui'.pending = u.pending \cup N /\ Queued' = Queued \cup N /\ u.pending \subseteq ui.pending
    BY DEF Issued, Like, serverVars, Follows
  <2> QED BY <2>1, <2>2, <2>3, <2>4
<1>2. N \cap Answered = {} BY DEF Issued
<1> SUFFICES ASSUME NEW p \in Prompts
             PROVE  /\ \A r, q \in Carriers(p)' : r = q
                    /\ p \in ui'.composer \/ Carriers(p)' # {} => delivered[p] = 0 /\ p \in ui'.typed
                    /\ p \in ui'.composer => Carriers(p)' = {}
                    /\ delivered[p] <= 1
                    /\ p \notin ui'.typed => delivered[p] = 0
  BY <1>1 DEF Messages
<1>3. Carriers(p)' \subseteq {r \in Queued \cup Written \cup (Returning \cap u.pending) \cup N : p \in r.text}
  BY <1>1, <1>2 DEF Carriers
<1>4. \A r \in N : p \in r.text => p \in T BY DEF Issued, Fit
<1>5. \A r, q \in N : p \in r.text /\ p \in q.text => r = q
  <2> SUFFICES ASSUME NEW r \in N, NEW q \in N, p \in r.text, p \in q.text PROVE r = q OBVIOUS
  <2>1. r.text # {} /\ q.text # {} OBVIOUS
  <2> QED BY <2>1 DEF Issued, Single
<1>6. delivered[p] <= 1 /\ (p \notin ui.typed => delivered[p] = 0) /\ ui.typed \subseteq u.typed
  BY DEF Messages, Moved
<1>7. CASE p \in u.composer \cup T
  <2>1. {r \in Queued \cup Written \cup (Returning \cap u.pending) : p \in r.text} = {}
        /\ delivered[p] = 0 /\ p \in u.typed
    <3>1. CASE p \in ui.composer
      <4>1. Carriers(p) = {} /\ delivered[p] = 0 /\ p \in ui.typed BY <3>1 DEF Messages
      <4> QED BY <4>1, <1>1, <1>6 DEF Carriers
    <3>2. CASE p \notin ui.typed /\ p \in u.typed
      <4>1. Carriers(p) = {} /\ delivered[p] = 0 BY <3>2 DEF Messages
      <4> QED BY <4>1, <3>2, <1>1 DEF Carriers
    <3>3. ASSUME NEW r \in (ui.pending \cap Returning) \ u.pending, p \in r.text
          PROVE  /\ {q \in Queued \cup Written \cup (Returning \cap u.pending) : p \in q.text} = {}
                 /\ delivered[p] = 0 /\ p \in u.typed
      <4>1. r \in Carriers(p) BY <3>3 DEF Carriers
      <4>2. delivered[p] = 0 /\ p \in ui.typed /\ \A q \in Carriers(p) : q = r BY <4>1 DEF Messages
      <4>3. r \notin Queued \cup Written BY <1>1 DEF Base, Placed
      <4>4. ASSUME NEW q \in Queued \cup Written \cup (Returning \cap u.pending), p \in q.text PROVE FALSE
        <5>1. q \in Carriers(p) BY <4>4, <1>1 DEF Carriers
        <5> QED BY <5>1, <4>2, <4>3
      <4> QED BY <4>2, <4>4, <1>6
    <3> QED BY <1>7, <3>1, <3>2, <3>3 DEF Moved
  <2>2. \A r \in Carriers(p)' : r \in N /\ p \in r.text BY <2>1, <1>3
  <2>3. p \in ui'.composer => Carriers(p)' = {}
    <3>1. p \in u.composer => p \notin T BY DEF Moved
    <3> QED BY <3>1, <2>2, <1>4, <1>1
  <2> QED BY <2>1, <2>2, <2>3, <1>1, <1>5, <1>6
<1>8. CASE p \notin u.composer \cup T
  <2>1. Carriers(p)' \subseteq Carriers(p) BY <1>8, <1>1, <1>3, <1>4 DEF Carriers
  <2>2. /\ \A r, q \in Carriers(p) : r = q
        /\ Carriers(p) # {} => delivered[p] = 0 /\ p \in ui.typed
    BY DEF Messages
  <2> QED BY <2>1, <2>2, <1>1, <1>6, <1>8
<1> QED BY <1>7, <1>8

LEMMA ControllerStep == Base /\ Messages /\ (User \/ Handle) => Base' /\ Messages'
<1>1. ASSUME Base, Messages, User PROVE Base' /\ Messages'
  <2>1. UserDone BY <1>1, UserIsDone
  <2>2. Shorter BY <1>1, <2>1, Shortened DEF UserDone
  <2>3. PICK u, T, N : Issued(N, u, T) /\ Follows(u) /\ Moved(u, T) BY <2>1 DEF UserDone
  <2> QED BY <1>1, <2>2, <2>3, ControllerBase, ControllerMessages
<1>2. ASSUME Base, Messages, Handle PROVE Base' /\ Messages'
  <2>1. HandleDone BY <1>2, HandleIsDone
  <2>2. Shorter BY <1>2, <2>1, Shortened DEF HandleDone
  <2>3. PICK u, T, N : Issued(N, u, T) /\ Follows(u) /\ Moved(u, T) BY <2>1 DEF HandleDone
  <2> QED BY <1>2, <2>2, <2>3, ControllerBase, ControllerMessages
<1> QED BY <1>1, <1>2

---------------------------------------------------------------------------
(* So do the hub and the app-server.                                       *)

\* What is put on the event stream, and which answers that brings.
LEMMA Emitted ==
    ASSUME evq \in Seq(Event), NEW es \in Seq(Event), evq' = evq \o es
    PROVE  /\ evq' \in Seq(Event) /\ Len(evq) \in Nat
           /\ \A i \in DOMAIN evq : i \in Nat /\ i <= Len(evq) /\ i \in DOMAIN evq' /\ evq'[i] = evq[i]
           /\ \A j \in DOMAIN es : j \in Nat /\ j >= 1 /\ Len(evq) + j \in DOMAIN evq' /\ evq'[Len(evq) + j] = es[j]
           /\ \A i \in DOMAIN evq' : i \in DOMAIN evq \/ \E j \in DOMAIN es : i = Len(evq) + j
<1>1. PICK q : q = evq OBVIOUS
<1>2. q \in Seq(Event) BY <1>1
<1>3. PICK t : t = q \o es OBVIOUS
<1>9. Joins(Event, t, q, es) BY <1>2, <1>3 DEF Joins
<1>4. t \in Seq(Event) /\ Len(q) \in Nat BY <1>9, JoinedType
<1>5. \A i \in DOMAIN q : i \in Nat /\ i <= Len(q) /\ i \in DOMAIN t /\ t[i] = q[i] BY <1>9, JoinedBefore
<1>6. \A j \in DOMAIN es : j \in Nat /\ j >= 1 /\ Len(q) + j \in DOMAIN t /\ t[Len(q) + j] = es[j] BY <1>9, JoinedAfter
<1>7. \A i \in DOMAIN t : i \in DOMAIN q \/ \E j \in DOMAIN es : i = Len(q) + j BY <1>9, JoinedOnly
<1>8. evq' = t BY <1>1, <1>3
<1> QED BY <1>1, <1>4, <1>5, <1>6, <1>7, <1>8

\* r is answered by es, or nothing is.
Moves(e) == e.kind = "ok" => e.req.kind # "send"
LEMMA EmittedAnswers ==
    ASSUME evq \in Seq(Event), NEW es \in Seq(Event), evq' = evq \o es
    PROVE  /\ Answered' = Answered \cup {es[j].req : j \in {k \in DOMAIN es : es[k].kind \in AnswerKinds}}
           /\ Returning' = Returning \cup
                {es[j].req : j \in {k \in DOMAIN es : es[k].kind \in AnswerKinds /\ Moves(es[k])}}
<1>1. /\ \A i \in DOMAIN evq : i \in DOMAIN evq' /\ evq'[i] = evq[i]
      /\ \A j \in DOMAIN es : Len(evq) + j \in DOMAIN evq' /\ evq'[Len(evq) + j] = es[j]
      /\ \A i \in DOMAIN evq' : i \in DOMAIN evq \/ \E j \in DOMAIN es : i = Len(evq) + j
  BY Emitted
<1>2. PICK A : A = {es[j].req : j \in {k \in DOMAIN es : es[k].kind \in AnswerKinds}} OBVIOUS
<1>3. PICK B : B = {es[j].req : j \in {k \in DOMAIN es : es[k].kind \in AnswerKinds /\ Moves(es[k])}} OBVIOUS
<1>4. ASSUME NEW r \in Answered' PROVE r \in Answered \cup A
  <2>1. PICK i \in DOMAIN evq' : evq'[i].kind \in AnswerKinds /\ evq'[i].req = r BY <1>4 DEF Answered, AnswerKinds
  <2>2. CASE i \in DOMAIN evq BY <2>1, <2>2, <1>1 DEF Answered
  <2>3. ASSUME NEW j \in DOMAIN es, i = Len(evq) + j PROVE r \in A BY <2>1, <2>3, <1>1, <1>2
  <2> QED BY <2>2, <2>3, <1>1
<1>5. ASSUME NEW r \in Answered \cup A PROVE r \in Answered'
  <2>1. CASE r \in Answered
    <3>1. PICK i \in DOMAIN evq : evq[i].kind \in AnswerKinds /\ evq[i].req = r BY <2>1 DEF Answered
    <3>2. i \in DOMAIN evq' /\ evq'[i].kind \in AnswerKinds /\ evq'[i].req = r BY <3>1, <1>1
    <3> QED BY <3>2 DEF Answered, AnswerKinds
  <2>2. CASE r \in A
    <3>1. PICK j \in DOMAIN es : es[j].kind \in AnswerKinds /\ es[j].req = r BY <2>2, <1>2
    <3>2. PICK i \in DOMAIN evq' : evq'[i].kind \in AnswerKinds /\ evq'[i].req = r BY <3>1, <1>1
    <3> QED BY <3>2 DEF Answered, AnswerKinds
  <2> QED BY <2>1, <2>2
<1>6. ASSUME NEW r \in Returning' PROVE r \in Returning \cup B
  <2>1. PICK i \in DOMAIN evq' : evq'[i].kind \in AnswerKinds /\ evq'[i].req = r /\ Moves(evq'[i])
    BY <1>6 DEF Returning, AnswerKinds, Moves
  <2>2. CASE i \in DOMAIN evq BY <2>1, <2>2, <1>1 DEF Returning, Moves
  <2>3. ASSUME NEW j \in DOMAIN es, i = Len(evq) + j PROVE r \in B BY <2>1, <2>3, <1>1, <1>3
  <2> QED BY <2>2, <2>3, <1>1
<1>7. ASSUME NEW r \in Returning \cup B PROVE r \in Returning'
  <2>1. CASE r \in Returning
    <3>1. PICK i \in DOMAIN evq : evq[i].kind \in AnswerKinds /\ evq[i].req = r /\ Moves(evq[i])
      BY <2>1 DEF Returning, Moves
    <3>2. i \in DOMAIN evq' /\ evq'[i].kind \in AnswerKinds /\ evq'[i].req = r /\ Moves(evq'[i]) BY <3>1, <1>1
    <3> QED BY <3>2 DEF Returning, AnswerKinds, Moves
  <2>2. CASE r \in B
    <3>1. PICK j \in DOMAIN es : es[j].kind \in AnswerKinds /\ es[j].req = r /\ Moves(es[j]) BY <2>2, <1>3
    <3>2. PICK i \in DOMAIN evq' : evq'[i].kind \in AnswerKinds /\ evq'[i].req = r /\ Moves(evq'[i]) BY <3>1, <1>1
    <3> QED BY <3>2 DEF Returning, AnswerKinds, Moves
  <2> QED BY <2>1, <2>2
<1> QED BY <1>2, <1>3, <1>4, <1>5, <1>6, <1>7

\* One event that is no answer.
LEMMA EmittedOne ==
    ASSUME Base, NEW e \in Event, e.kind \notin AnswerKinds, evq' = evq \o <<e>>
    PROVE  /\ evq' \in Seq(Event) /\ Answered' = Answered /\ Returning' = Returning
           /\ \A i \in DOMAIN evq' : evq'[i].kind # "ok" \/ \E j \in DOMAIN evq : evq'[i] = evq[j]
<1>1. PICK es : es = <<e>> OBVIOUS
<1>2. es \in Seq(Event) /\ DOMAIN es = {1} /\ es[1] = e /\ evq \in Seq(Event) BY <1>1 DEF Base, TypeOK
<1>3. evq' = evq \o es BY <1>1
<1>4. Answered' = Answered /\ Returning' = Returning
  <2>1. {es[j].req : j \in {k \in DOMAIN es : es[k].kind \in AnswerKinds}} = {} BY <1>2
  <2>2. {es[j].req : j \in {k \in DOMAIN es : es[k].kind \in AnswerKinds /\ Moves(es[k])}} = {} BY <1>2
  <2>3. Answered' = Answered \cup {es[j].req : j \in {k \in DOMAIN es : es[k].kind \in AnswerKinds}}
    BY <1>2, <1>3, EmittedAnswers
  <2>4. Returning' = Returning \cup
          {es[j].req : j \in {k \in DOMAIN es : es[k].kind \in AnswerKinds /\ Moves(es[k])}}
    BY <1>2, <1>3, EmittedAnswers
  <2>5. Answered' = Answered BY <2>1, <2>3
  <2>6. Returning' = Returning BY <2>2, <2>4
  <2> QED BY <2>5, <2>6
<1>5. evq' \in Seq(Event) BY <1>2, <1>3, Emitted
<1>6. \A i \in DOMAIN evq' : evq'[i].kind # "ok" \/ \E j \in DOMAIN evq : evq'[i] = evq[j]
  <2>1. /\ \A i \in DOMAIN evq : evq'[i] = evq[i]
        /\ \A j \in DOMAIN es : evq'[Len(evq) + j] = es[j]
        /\ \A i \in DOMAIN evq' : i \in DOMAIN evq \/ \E j \in DOMAIN es : i = Len(evq) + j
    BY <1>2, <1>3, Emitted
  <2> QED BY <2>1, <1>2 DEF AnswerKinds
<1> QED BY <1>4, <1>5, <1>6

LEMMA AboutKept ==
    ASSUME Base, ui' = ui, existing \subseteq existing', subs' \subseteq existing',
           Queued' \cup Written' \cup Answered' \subseteq Queued \cup Written \cup Answered,
           \A i \in DOMAIN evq' :
             \/ evq'[i].kind # "ok" \/ \E j \in DOMAIN evq : evq'[i] = evq[j]
             \/ /\ evq'[i].thread \in existing'
                /\ evq'[i].req.kind \in {"open", "resume"} => evq'[i].thread = evq'[i].req.thread
    PROVE  About'
<1>1. \A r : Formed(r) => Formed(r)' BY DEF Formed
<1>2. \A r \in (ui.pending \cup Queued \cup Written \cup Answered)' : Formed(r)' BY <1>1 DEF Base, About
<1>3. ASSUME NEW i \in DOMAIN evq', evq'[i].kind = "ok"
      PROVE  /\ evq'[i].thread \in existing'
             /\ evq'[i].req.kind \in {"open", "resume"} => evq'[i].thread = evq'[i].req.thread
  <2>1. CASE \E j \in DOMAIN evq : evq'[i] = evq[j] BY <1>3, <2>1 DEF Base, About
  <2> QED BY <1>3, <2>1
<1>4. ui'.active \in existing' \cup {NoThread} /\ ui'.resumed \subseteq existing' BY DEF Base, About
<1> QED BY <1>2, <1>3, <1>4 DEF About

LEMMA MessagesKept ==
    ASSUME Messages, ui' = ui, delivered' = delivered, Queued' \cup Written' \subseteq Queued \cup Written,
           Returning' \subseteq Returning \cup Queued \cup Written
    PROVE  Messages'
<1>1. \A p \in Prompts : Carriers(p)' \subseteq Carriers(p) BY DEF Carriers
<1>2. ASSUME NEW p \in Prompts
      PROVE  /\ \A r, q \in Carriers(p)' : r = q
             /\ p \in ui'.composer \/ Carriers(p)' # {} => delivered'[p] = 0 /\ p \in ui'.typed
             /\ p \in ui'.composer => Carriers(p)' = {}
             /\ delivered'[p] <= 1
             /\ p \notin ui'.typed => delivered'[p] = 0
  <2>1. Carriers(p)' \subseteq Carriers(p) BY <1>1
  <2>2. /\ \A r, q \in Carriers(p) : r = q
        /\ p \in ui.composer \/ Carriers(p) # {} => delivered[p] = 0 /\ p \in ui.typed
        /\ p \in ui.composer => Carriers(p) = {}
        /\ delivered[p] <= 1
        /\ p \notin ui.typed => delivered[p] = 0
    BY DEF Messages
  <2> QED BY <2>1, <2>2
<1> QED BY <1>2 DEF Messages

LEMMA Lifecycle ==
    /\ [kind |-> "connecting"] \in Event /\ [kind |-> "ready"] \in Event
    /\ [kind |-> "disconnected"] \in Event /\ [kind |-> "oversized"] \in Event
    /\ \A k \in {"started", "completed"}, t \in Threads : [kind |-> k, thread |-> t] \in Event
    /\ \A k \in AnswerKinds, r \in Request, t \in Threads \cup {NoThread} : Answer(k, r, t) \in Event
BY DEF Event, AnswerKinds, Answer

LEMMA ConnectStep == ASSUME Base, Messages, Connect PROVE Base' /\ Messages'
<1>1. PICK e : e = [kind |-> "connecting"] OBVIOUS
<1>2. e \in Event /\ e.kind \notin AnswerKinds BY <1>1, Lifecycle DEF AnswerKinds
<1>3. evq' = evq \o <<e>> BY <1>1 DEF Connect, Emits
<1>4. /\ evq' \in Seq(Event) /\ Answered' = Answered /\ Returning' = Returning
      /\ \A i \in DOMAIN evq' : evq'[i].kind # "ok" \/ \E j \in DOMAIN evq : evq'[i] = evq[j]
  BY <1>2, <1>3, EmittedOne
<1>5. /\ ui' = ui /\ cmds' = cmds /\ losses' = losses /\ wire' = wire /\ subs' = subs
      /\ existing' = existing /\ delivered' = delivered /\ reconnects' = reconnects
      /\ phase' = "init" /\ mode' \in Modes /\ turns' \subseteq turns /\ wire = <<>>
  BY DEF Connect, Base, Placed
<1>6. Queued' = Queued /\ Written' = Written BY <1>5 DEF Queued, Written
<1>7. TypeOK' BY <1>4, <1>5, ModeAssumption DEF Base, TypeOK
<1>8. Placed' BY <1>4, <1>5, <1>6 DEF Base, Placed, Once, Distinct, In, At
<1>9. About' BY <1>4, <1>5, <1>6, AboutKept DEF Base, About
<1>10. Messages' BY <1>4, <1>5, <1>6, MessagesKept
<1> QED BY <1>7, <1>8, <1>9, <1>10 DEF Base

LEMMA InitOkStep == ASSUME Base, Messages, InitOk PROVE Base' /\ Messages'
<1>1. PICK e : e = [kind |-> "ready"] OBVIOUS
<1>2. e \in Event /\ e.kind \notin AnswerKinds BY <1>1, Lifecycle DEF AnswerKinds
<1>3. evq' = evq \o <<e>> BY <1>1 DEF InitOk, Emits
<1>4. /\ evq' \in Seq(Event) /\ Answered' = Answered /\ Returning' = Returning
      /\ \A i \in DOMAIN evq' : evq'[i].kind # "ok" \/ \E j \in DOMAIN evq : evq'[i] = evq[j]
  BY <1>2, <1>3, EmittedOne
<1>5. /\ ui' = ui /\ cmds' = cmds /\ losses' = losses /\ wire' = wire /\ subs' = subs
      /\ existing' = existing /\ delivered' = delivered /\ reconnects' = reconnects
      /\ phase' = "up" /\ mode' = mode /\ turns' = turns
  BY DEF InitOk, serverVars
<1>6. Queued' = Queued /\ Written' = Written BY <1>5 DEF Queued, Written
<1>7. TypeOK' BY <1>4, <1>5 DEF Base, TypeOK
<1>8. Placed' BY <1>4, <1>5, <1>6 DEF Base, Placed, Once, Distinct, In, At
<1>9. About' BY <1>4, <1>5, <1>6, AboutKept DEF Base, About
<1>10. Messages' BY <1>4, <1>5, <1>6, MessagesKept
<1> QED BY <1>7, <1>8, <1>9, <1>10 DEF Base

\* What a lost connection does to the messages.
LEMMA HungUp ==
    ASSUME Base, Messages, Hangup
    PROVE  /\ phase' = "idle" /\ wire' = <<>> /\ subs' = {} /\ turns' \in SUBSET Threads
           /\ ui' = ui /\ mode' = mode /\ existing' = existing /\ reconnects' = reconnects
           /\ delivered' \in [Prompts -> Nat]
           /\ \A p \in Prompts :
                \/ delivered'[p] = delivered[p]
                \/ \E r \in Written : p \in r.text /\ delivered'[p] = delivered[p] + 1
<1>1. /\ phase' = "idle" /\ wire' = <<>> /\ subs' = {} /\ ui' = ui /\ mode' = mode
      /\ existing' = existing /\ reconnects' = reconnects
  BY DEF Hangup
<1>2. CASE mode # "managed"
  <2>1. turns' = {} /\ delivered' = delivered BY <1>2 DEF Hangup
  <2> QED BY <1>1, <2>1 DEF Base, TypeOK
<1>3. CASE mode = "managed"
  <2>1. PICK S \in SUBSET {r \in Written : r.kind = "send"} :
           /\ turns' = turns \cup {r.thread : r \in S}
           /\ delivered' = [p \in Prompts |-> delivered[p] + Cardinality({r \in S : p \in r.text})]
    BY <1>3 DEF Hangup
  <2>2. \A r \in S : r.thread \in Threads BY Plain DEF Base, About, Formed
  <2>3. turns' \in SUBSET Threads BY <2>1, <2>2 DEF Base, TypeOK
  <2>4. ASSUME NEW p \in Prompts
        PROVE  /\ delivered'[p] \in Nat
               /\ \/ delivered'[p] = delivered[p]
                  \/ \E r \in Written : p \in r.text /\ delivered'[p] = delivered[p] + 1
    <3>1. PICK C : C = {r \in S : p \in r.text} OBVIOUS
    <3>2. delivered'[p] = delivered[p] + Cardinality(C) /\ delivered[p] \in Nat BY <2>1, <3>1 DEF Base, TypeOK
    <3>3. CASE C = {} 
      <4>1. Cardinality(C) = 0 BY <3>3, FS_EmptySet
      <4> QED BY <3>2, <4>1
    <3>4. ASSUME NEW r \in C
          PROVE  /\ delivered'[p] \in Nat
                 /\ \E q \in Written : p \in q.text /\ delivered'[p] = delivered[p] + 1
      <4>1. C \subseteq Carriers(p) /\ r \in Written /\ p \in r.text BY <3>1 DEF Carriers
      <4>2. C = {r} BY <4>1 DEF Messages
      <4>3. Cardinality(C) = 1 BY <4>2, FS_Singleton
      <4> QED BY <3>2, <4>1, <4>3
    <3> QED BY <3>3, <3>4
  <2>5. delivered' \in [Prompts -> Nat] BY <2>1, <2>4
  <2> QED BY <1>1, <2>3, <2>4, <2>5
<1> QED BY <1>2, <1>3

LEMMA HungUpMessages ==
    ASSUME Base, Messages, Hangup, Queued' \subseteq Queued, Returning' \subseteq Returning
    PROVE  Messages'
<1>1. ui' = ui /\ Written' = {} BY HungUp DEF Written
<1>2. Returning \subseteq Answered BY DEF Returning, Answered
<1> SUFFICES ASSUME NEW p \in Prompts
             PROVE  /\ \A r, q \in Carriers(p)' : r = q
                    /\ p \in ui.composer \/ Carriers(p)' # {} => delivered'[p] = 0 /\ p \in ui.typed
                    /\ p \in ui.composer => Carriers(p)' = {}
                    /\ delivered'[p] <= 1
                    /\ p \notin ui.typed => delivered'[p] = 0
  BY <1>1 DEF Messages
<1>3. Carriers(p)' \subseteq Carriers(p) /\ Carriers(p)' \cap Written = {}
  <2>1. Carriers(p)' \subseteq {r \in Queued \cup (Returning \cap ui.pending) : p \in r.text} BY <1>1 DEF Carriers
  <2> QED BY <2>1, <1>2 DEF Carriers, Base, Placed
<1>4. /\ \A r, q \in Carriers(p) : r = q
      /\ p \in ui.composer \/ Carriers(p) # {} => delivered[p] = 0 /\ p \in ui.typed
      /\ p \in ui.composer => Carriers(p) = {}
      /\ delivered[p] <= 1
      /\ p \notin ui.typed => delivered[p] = 0
  BY DEF Messages
<1>5. CASE delivered'[p] = delivered[p] BY <1>3, <1>4, <1>5
<1>6. ASSUME NEW r \in Written, p \in r.text, delivered'[p] = delivered[p] + 1
      PROVE  /\ Carriers(p)' = {} /\ delivered'[p] = 1 /\ p \in ui.typed /\ p \notin ui.composer
  <2>1. r \in Carriers(p) BY <1>6 DEF Carriers
  <2>2. delivered[p] = 0 /\ p \in ui.typed /\ p \notin ui.composer /\ \A q \in Carriers(p) : q = r BY <2>1, <1>4
  <2> QED BY <2>2, <1>3, <1>6
<1>7. \/ delivered'[p] = delivered[p]
      \/ \E r \in Written : p \in r.text /\ delivered'[p] = delivered[p] + 1
  BY HungUp
<1> QED BY <1>5, <1>6, <1>7

LEMMA LostStep == ASSUME Base, Messages, Lost PROVE Base' /\ Messages'
<1>1. PICK e : e = [kind |-> "disconnected"] OBVIOUS
<1>2. e \in Event /\ e.kind \notin AnswerKinds BY <1>1, Lifecycle DEF AnswerKinds
<1>3. evq' = evq \o <<e>> /\ Hangup /\ cmds' = cmds /\ losses' = losses + 1 BY <1>1 DEF Lost, Emits
<1>4. /\ evq' \in Seq(Event) /\ Answered' = Answered /\ Returning' = Returning
      /\ \A i \in DOMAIN evq' : evq'[i].kind # "ok" \/ \E j \in DOMAIN evq : evq'[i] = evq[j]
  BY <1>2, <1>3, EmittedOne
<1>5. /\ phase' = "idle" /\ wire' = <<>> /\ subs' = {} /\ turns' \in SUBSET Threads
      /\ ui' = ui /\ mode' = mode /\ existing' = existing /\ reconnects' = reconnects
      /\ delivered' \in [Prompts -> Nat]
  BY <1>3, HungUp
<1>6. Queued' = Queued /\ Written' = {} BY <1>3, <1>5 DEF Queued, Written
<1>7. TypeOK'
  <2>1. wire' \in Seq(Request) BY <1>5, EmptySeq
  <2> QED BY <2>1, <1>3, <1>4, <1>5 DEF Base, TypeOK
<1>8. Placed'
  <2>1. Once(cmds)'
    <3>1. cmds' = cmds /\ Once(cmds) BY <1>3 DEF Base, Placed
    <3> QED BY <3>1
  <2>2. Distinct(wire)' BY <1>5 DEF Distinct
  <2> QED BY <2>1, <2>2, <1>4, <1>5, <1>6 DEF Base, Placed
<1>9. About' BY <1>4, <1>5, <1>6, AboutKept DEF Base, About
<1>10. Messages' BY <1>3, <1>4, <1>6, HungUpMessages
<1> QED BY <1>7, <1>8, <1>9, <1>10 DEF Base

LEMMA ReconnectStep == ASSUME Base, Messages, Reconnect PROVE Base' /\ Messages'
<1>1. /\ evq' = evq /\ losses' = losses /\ Hangup /\ cmds # <<>> /\ cmds' = Tail(cmds)
      /\ Head(cmds) = ReconnectCommand
  BY DEF Reconnect
<1>2. cmds \in Seq(Batch) /\ Once(cmds) BY DEF Base, TypeOK, Placed
<1>3. PICK q : q = cmds OBVIOUS
<1>4. PICK t : t = Tail(q) OBVIOUS
<1>5. /\ t \in Seq(Batch) /\ q[1] = ReconnectCommand
      /\ \A i \in DOMAIN t : i \in Nat /\ i >= 1 /\ i + 1 \in DOMAIN q /\ t[i] = q[i + 1]
  BY <1>1, <1>2, <1>3, <1>4, Taken
<1>6. \A i \in DOMAIN t : \A r : At(t, r, i) => i + 1 \in DOMAIN q /\ At(q, r, i + 1) BY <1>5 DEF At
<1>7. In(t) \subseteq In(q)
  <2>1. ASSUME NEW r \in In(t) PROVE r \in In(q)
    <3>1. PICK i \in DOMAIN t : At(t, r, i) BY InAt
    <3> QED BY <3>1, <1>6, InAt
  <2> QED BY <2>1
<1>8. Once(t)
  <2> SUFFICES ASSUME NEW r \in In(t), NEW i \in DOMAIN t, NEW j \in DOMAIN t, At(t, r, i), At(t, r, j)
               PROVE  i = j
    BY DEF Once
  <2>1. i + 1 = j + 1 BY <1>2, <1>3, <1>6, <1>7 DEF Once
  <2> QED BY <2>1, <1>5
<1>9. Once(cmds)' /\ Queued' \subseteq Queued /\ cmds' \in Seq(Batch)
  <2>1. cmds' = t BY <1>1, <1>3, <1>4
  <2>2. Queued' = In(cmds') BY DEF Queued, In
  <2>3. Once(cmds') BY <2>1, <1>8
  <2> QED BY <2>1, <2>2, <2>3, <1>3, <1>5, <1>7, QueuedIs
<1>10. /\ phase' = "idle" /\ wire' = <<>> /\ subs' = {} /\ turns' \in SUBSET Threads
       /\ ui' = ui /\ mode' = mode /\ existing' = existing /\ reconnects' = reconnects
       /\ delivered' \in [Prompts -> Nat]
  BY <1>1, HungUp
<1>11. Written' = {} /\ Answered' = Answered /\ Returning' = Returning BY <1>1, <1>10 DEF Written, Answered, Returning
<1>12. TypeOK'
  <2>1. wire' \in Seq(Request) BY <1>10, EmptySeq
  <2> QED BY <2>1, <1>1, <1>9, <1>10 DEF Base, TypeOK
<1>13. Placed'
  <2>1. Distinct(wire)' BY <1>10 DEF Distinct
  <2> QED BY <2>1, <1>9, <1>10, <1>11 DEF Base, Placed
<1>14. About'
  <2>1. \A i \in DOMAIN evq' : \E j \in DOMAIN evq : evq'[i] = evq[j] BY <1>1
  <2> QED BY <2>1, <1>9, <1>10, <1>11, AboutKept DEF Base, About
<1>15. Messages' BY <1>1, <1>9, <1>11, HungUpMessages
<1> QED BY <1>12, <1>13, <1>14, <1>15 DEF Base

\* A request leaves the channel.
LEMMA Dequeuing ==
    ASSUME Base, NEW r, Dequeue(r)
    PROVE  /\ cmds' \in Seq(Batch) /\ Once(cmds)' /\ Queued' = Queued \ {r} /\ r \in Queued
           /\ \A a \in Queued : ~Ahead(cmds, a, r)
           /\ \A a, b \in Queued \ {r} : Ahead(cmds, a, b) => Ahead(cmds, a, b)'
           /\ Sends(cmds) => Sends(cmds)'
<1>1. PICK q : q = cmds OBVIOUS
<1>2. PICK t : t = Without(q, r) OBVIOUS
<1>3. q \in Seq(Batch) /\ Once(q) BY <1>1 DEF Base, TypeOK, Placed
<1>4. q # <<>> /\ Head(q).op = "send" /\ r \in Head(q).reqs /\ cmds' = t
  BY <1>1, <1>2 DEF Dequeue, Without
<1>5. /\ t \in Seq(Batch) /\ Once(t) /\ In(t) = In(q) \ {r} /\ r \in In(q)
      /\ \A i \in DOMAIN t : t[i].op = "send" \/ \E j \in DOMAIN q : t[i] = q[j]
      /\ \A a \in In(q) : ~Ahead(q, a, r)
      /\ \A a, b \in In(t) : Ahead(q, a, b) => Ahead(t, a, b)
  <2>1. q \in Seq(Batch) /\ Once(q) /\ q # <<>> /\ Head(q).op = "send" /\ r \in Head(q).reqs BY <1>3, <1>4
  <2>2. t \in Seq(Batch) /\ Once(t) BY <2>1, <1>2, Dequeued
  <2>3. In(t) = In(q) \ {r} /\ r \in In(q) BY <2>1, <1>2, Dequeued
  <2>4. \A i \in DOMAIN t : t[i].op = "send" \/ \E j \in DOMAIN q : t[i] = q[j] BY <2>1, <1>2, Dequeued
  <2>5. \A a \in In(q) : ~Ahead(q, a, r) BY <2>1, <1>2, Dequeued
  <2>6. \A a, b \in In(t) : Ahead(q, a, b) => Ahead(t, a, b) BY <2>1, <1>2, Dequeued
  <2> QED BY <2>2, <2>3, <2>4, <2>5, <2>6
<1>6. Queued = In(q) BY <1>1, QueuedIs
<1>7. Queued' = In(t)
  <2>1. Queued' = In(cmds') BY DEF Queued, In
  <2> QED BY <2>1, <1>4
<1>8. \A a, b : Ahead(cmds, a, b) <=> Ahead(q, a, b) BY <1>1
<1>9. \A a, b : Ahead(cmds, a, b)' <=> Ahead(t, a, b) BY <1>4 DEF Ahead, At
<1>10. Once(cmds)' BY <1>4, <1>5
<1>11. Sends(cmds) => Sends(cmds)' BY <1>1, <1>4, <1>5 DEF Sends
<1> QED BY <1>4, <1>5, <1>6, <1>7, <1>8, <1>9, <1>10, <1>11

LEMMA WriteRequestStep ==
    ASSUME Base, Messages, WriteRequest
    PROVE  Base' /\ Messages'
<1>1. PICK r \in Queued : Dequeue(r) /\ wire' = Append(wire, r) BY DEF WriteRequest
<1>2. /\ ui' = ui /\ evq' = evq /\ phase' = phase /\ phase = "up" /\ mode' = mode /\ losses' = losses
      /\ subs' = subs /\ existing' = existing /\ turns' = turns /\ delivered' = delivered
      /\ reconnects' = reconnects
  BY DEF WriteRequest, hubVars
<1>3. cmds' \in Seq(Batch) /\ Once(cmds)' /\ Queued' = Queued \ {r} BY <1>1, Dequeuing
<1>4. r \in Request /\ r \notin Written /\ r \notin Answered
  <2>1. r \in In(cmds) /\ cmds \in Seq(Batch) BY QueuedIs DEF Base, TypeOK
  <2>2. PICK i \in DOMAIN cmds : At(cmds, r, i) BY <2>1, InAt
  <2>3. cmds[i] \in Batch BY <2>1
  <2>4. r \in Request BY <2>2, <2>3 DEF At, Batch
  <2> QED BY <2>4 DEF Base, Placed
<1>5. PICK w : w = wire OBVIOUS
<1>6. PICK t : t = Append(w, r) OBVIOUS
<1>7. w \in Seq(Request) /\ Distinct(w) /\ r \notin Among(w) BY <1>4, <1>5, QueuedIs DEF Base, TypeOK, Placed
<1>8. t \in Seq(Request) /\ Distinct(t) /\ Among(t) = Among(w) \cup {r} BY <1>4, <1>6, <1>7, Extended
<1>9. wire' = t BY <1>1, <1>5, <1>6
<1>10. Written' = Written \cup {r}
  <2>1. Written' = Among(wire') BY DEF Written, Among
  <2> QED BY <2>1, <1>5, <1>8, <1>9, QueuedIs
<1>11. Answered' = Answered /\ Returning' = Returning BY <1>2 DEF Answered, Returning
<1>12. TypeOK' BY <1>2, <1>3, <1>8, <1>9 DEF Base, TypeOK
<1>13. Placed'
  <2>1. Distinct(wire)' BY <1>8, <1>9
  <2> QED BY <2>1, <1>2, <1>3, <1>4, <1>10, <1>11 DEF Base, Placed
<1>14. About'
  <2>1. \A i \in DOMAIN evq' : \E j \in DOMAIN evq : evq'[i] = evq[j] BY <1>2
  <2>2. Queued' \cup Written' \cup Answered' \subseteq Queued \cup Written \cup Answered BY <1>3, <1>10, <1>11
  <2> QED BY <2>1, <2>2, <1>2, AboutKept DEF Base, About
<1>15. Messages'
  <2>1. Queued' \cup Written' \subseteq Queued \cup Written BY <1>3, <1>10
  <2> QED BY <2>1, <1>2, <1>11, MessagesKept
<1> QED BY <1>12, <1>13, <1>14, <1>15 DEF Base

LEMMA DropRequestStep ==
    ASSUME Base, Messages, DropRequest
    PROVE  Base' /\ Messages'
<1>1. PICK r \in Queued : Dequeue(r) BY DEF DropRequest
<1>2. /\ ui' = ui /\ evq' = evq /\ phase' = phase /\ mode' = mode /\ losses' = losses /\ wire' = wire
      /\ subs' = subs /\ existing' = existing /\ turns' = turns /\ delivered' = delivered
      /\ reconnects' = reconnects
  BY DEF DropRequest, hubVars, serverVars
<1>3. cmds' \in Seq(Batch) /\ Once(cmds)' /\ Queued' = Queued \ {r} BY <1>1, Dequeuing
<1>4. Written' = Written /\ Answered' = Answered /\ Returning' = Returning BY <1>2 DEF Written, Answered, Returning
<1>5. TypeOK' BY <1>2, <1>3 DEF Base, TypeOK
<1>6. Placed'
  <2>1. Distinct(wire)'
    <3>1. wire' = wire /\ Distinct(wire) BY <1>2 DEF Base, Placed
    <3> QED BY <3>1
  <2> QED BY <2>1, <1>2, <1>3, <1>4 DEF Base, Placed
<1>7. About'
  <2>1. \A i \in DOMAIN evq' : \E j \in DOMAIN evq : evq'[i] = evq[j] BY <1>2
  <2>2. Queued' \cup Written' \cup Answered' \subseteq Queued \cup Written \cup Answered BY <1>3, <1>4
  <2> QED BY <2>1, <2>2, <1>2, AboutKept DEF Base, About
<1>8. Messages'
  <2>1. Queued' \cup Written' \subseteq Queued \cup Written BY <1>3, <1>4
  <2> QED BY <2>1, <1>2, <1>4, MessagesKept
<1> QED BY <1>5, <1>6, <1>7, <1>8 DEF Base

\* A request leaves the wire, answered with es.
LEMMA Served ==
    ASSUME Base, NEW r, NEW es, Serve(r, es, TRUE)
    PROVE  /\ phase = "up" /\ r \in Written /\ r \in Request
           /\ wire' \in Seq(Request) /\ Distinct(wire)' /\ Written' = Written \ {r}
           /\ \A a, b : a # r /\ b # r /\ Earlier(wire, a, b) => Earlier(wire, a, b)'
           /\ \A a : Earlier(wire, a, r) => a.thread # r.thread
           /\ evq' = evq \o es
           /\ ui' = ui /\ cmds' = cmds /\ phase' = phase /\ mode' = mode /\ losses' = losses
           /\ reconnects' = reconnects
<1>1. PICK k \in DOMAIN wire :
         /\ wire[k] = r
         /\ \A j \in 1..(k - 1) : wire[j].thread # r.thread
         /\ wire' = SubSeq(wire, 1, k - 1) \o SubSeq(wire, k + 1, Len(wire))
  BY DEF Serve
<1>2. PICK w : w = wire OBVIOUS
<1>3. PICK t : t = SubSeq(w, 1, k - 1) \o SubSeq(w, k + 1, Len(w)) OBVIOUS
<1>4. w \in Seq(Request) /\ Distinct(w) /\ k \in DOMAIN w /\ w[k] = r BY <1>1, <1>2 DEF Base, TypeOK, Placed
<1>5. /\ t \in Seq(Request) /\ Distinct(t) /\ Among(t) = Among(w) \ {r}
      /\ \A a, b : a # r /\ b # r /\ Earlier(w, a, b) => Earlier(t, a, b)
  <2>1. /\ t \in Seq(Request) /\ Distinct(t) /\ Among(t) = Among(w) \ {w[k]}
        /\ \A a, b : a # w[k] /\ b # w[k] /\ Earlier(w, a, b) => Earlier(t, a, b)
    BY <1>3, <1>4, Removed
  <2> QED BY <2>1, <1>4
<1>6. wire' = t BY <1>1, <1>2, <1>3
<1>7. Written = Among(w) BY <1>2, QueuedIs
<1>8. Written' = Among(t)
  <2>1. Written' = Among(wire') BY DEF Written, Among
  <2> QED BY <2>1, <1>6
<1>9. r \in Written /\ r \in Request
  <2>1. DOMAIN w = 1..Len(w) BY <1>4, LenProperties
  <2> QED BY <2>1, <1>4, <1>7, ElementOfSeq DEF Among
<1>10. ASSUME NEW a, Earlier(w, a, r) PROVE a.thread # r.thread
  <2>1. PICK i \in DOMAIN w, j \in DOMAIN w : i < j /\ w[i] = a /\ w[j] = r BY <1>10 DEF Earlier
  <2>2. j = k BY <2>1, <1>4 DEF Distinct
  <2>3. i \in 1..(k - 1)
    <3>1. DOMAIN w = 1..Len(w) /\ Len(w) \in Nat BY <1>4, LenProperties
    <3>2. i \in Nat /\ k \in Nat /\ i >= 1 BY <3>1, <1>4
    <3> QED BY <3>2, <2>1, <2>2
  <2> QED BY <2>1, <2>3, <1>1, <1>2
<1>11. /\ phase = "up" /\ evq' = evq \o es /\ ui' = ui /\ cmds' = cmds /\ phase' = phase /\ mode' = mode
       /\ losses' = losses /\ reconnects' = reconnects
  BY DEF Serve, Emits, hubVars
<1>12. \A a, b : a # r /\ b # r /\ Earlier(wire, a, b) => Earlier(wire, a, b)'
  <2>1. \A a, b : Earlier(wire, a, b)' <=> Earlier(t, a, b) BY <1>6 DEF Earlier
  <2>2. \A a, b : Earlier(wire, a, b) <=> Earlier(w, a, b) BY <1>2
  <2> QED BY <2>1, <2>2, <1>5
<1>13. \A a : Earlier(wire, a, r) => a.thread # r.thread BY <1>2, <1>10
<1>14. wire' \in Seq(Request) /\ Distinct(wire)' BY <1>5, <1>6
<1> QED BY <1>5, <1>7, <1>8, <1>9, <1>11, <1>12, <1>13, <1>14

\* An answer, and notices after it.
Replying(es, k, r, t) ==
    /\ es \in Seq(Event) /\ evq' = evq \o es /\ k \in AnswerKinds
    /\ 1 \in DOMAIN es /\ es[1] = Answer(k, r, t)
    /\ \A j \in DOMAIN es : j = 1 \/ es[j].kind \notin AnswerKinds

LEMMA EmittedAnswer ==
    ASSUME Base, NEW es, NEW k, NEW r, NEW t, Replying(es, k, r, t)
    PROVE  /\ evq' \in Seq(Event) /\ Answered' = Answered \cup {r}
           /\ Returning' \subseteq Returning \cup {r} /\ (k = "ok" /\ r.kind = "send" => Returning' = Returning)
           /\ \A i \in DOMAIN evq' : \/ evq'[i].kind # "ok" \/ \E j \in DOMAIN evq : evq'[i] = evq[j]
                                     \/ evq'[i] = Answer(k, r, t)
<1>0. /\ es \in Seq(Event) /\ evq' = evq \o es /\ k \in AnswerKinds
      /\ 1 \in DOMAIN es /\ es[1] = Answer(k, r, t)
      /\ \A j \in DOMAIN es : j = 1 \/ es[j].kind \notin AnswerKinds
  BY DEF Replying
<1>1. evq \in Seq(Event) BY DEF Base, TypeOK
<1>2. es[1].kind = k /\ es[1].req = r BY <1>0 DEF Answer
<1>3. {es[j].req : j \in {i \in DOMAIN es : es[i].kind \in AnswerKinds}} = {r} BY <1>0, <1>2
<1>4. {es[j].req : j \in {i \in DOMAIN es : es[i].kind \in AnswerKinds /\ Moves(es[i])}} \subseteq {r} BY <1>0, <1>2
<1>5. k = "ok" /\ r.kind = "send" =>
        {es[j].req : j \in {i \in DOMAIN es : es[i].kind \in AnswerKinds /\ Moves(es[i])}} = {}
  BY <1>0, <1>2 DEF Moves
<1>6. Answered' = Answered \cup {es[j].req : j \in {i \in DOMAIN es : es[i].kind \in AnswerKinds}}
  BY <1>0, <1>1, EmittedAnswers
<1>7. Returning' = Returning \cup
        {es[j].req : j \in {i \in DOMAIN es : es[i].kind \in AnswerKinds /\ Moves(es[i])}}
  BY <1>0, <1>1, EmittedAnswers
<1>8. Answered' = Answered \cup {r} BY <1>3, <1>6
<1>9. Returning' \subseteq Returning \cup {r} BY <1>4, <1>7
<1>10. k = "ok" /\ r.kind = "send" => Returning' = Returning BY <1>5, <1>7
<1>11. evq' \in Seq(Event) BY <1>0, <1>1, Emitted
<1>12. \A i \in DOMAIN evq' : \/ evq'[i].kind # "ok" \/ \E j \in DOMAIN evq : evq'[i] = evq[j]
                              \/ evq'[i] = Answer(k, r, t)
  <2>1. /\ \A i \in DOMAIN evq : evq'[i] = evq[i]
        /\ \A j \in DOMAIN es : evq'[Len(evq) + j] = es[j]
        /\ \A i \in DOMAIN evq' : i \in DOMAIN evq \/ \E j \in DOMAIN es : i = Len(evq) + j
    BY <1>0, <1>1, Emitted
  <2>2. \A j \in DOMAIN es : es[j] = Answer(k, r, t) \/ es[j].kind # "ok" BY <1>0 DEF AnswerKinds
  <2> QED BY <2>1, <2>2
<1> QED BY <1>8, <1>9, <1>10, <1>11, <1>12

LEMMA ServedBase ==
    ASSUME Base, NEW r, NEW es, Serve(r, es, TRUE), evq' \in Seq(Event),
           Answered' \subseteq Answered \cup {r},
           existing \subseteq existing', existing' \subseteq Threads, subs' \subseteq existing',
           turns' \subseteq Threads, delivered' \in [Prompts -> Nat],
           \A i \in DOMAIN evq' :
             \/ evq'[i].kind # "ok" \/ \E j \in DOMAIN evq : evq'[i] = evq[j]
             \/ /\ evq'[i].thread \in existing'
                /\ evq'[i].req.kind \in {"open", "resume"} => evq'[i].thread = evq'[i].req.thread
    PROVE  Base'
<1>1. /\ phase = "up" /\ r \in Written /\ r \in Request
      /\ wire' \in Seq(Request) /\ Distinct(wire)' /\ Written' = Written \ {r}
      /\ ui' = ui /\ cmds' = cmds /\ phase' = phase /\ mode' = mode /\ losses' = losses
      /\ reconnects' = reconnects
  BY Served
<1>2. TypeOK' BY <1>1, Plain DEF Base, TypeOK
<1>3. Queued' = Queued BY <1>1 DEF Queued
<1>4. Once(cmds)'
  <2>1. cmds' = cmds /\ Once(cmds) BY <1>1 DEF Base, Placed
  <2> QED BY <2>1
<1>5. Placed' BY <1>1, <1>3, <1>4 DEF Base, Placed
<1>6. About'
  <2>1. Queued' \cup Written' \cup Answered' \subseteq Queued \cup Written \cup Answered BY <1>1, <1>3
  <2> QED BY <2>1, <1>1, AboutKept
<1> QED BY <1>2, <1>5, <1>6 DEF Base

LEMMA ServedMessages ==
    ASSUME Base, Messages, NEW r, NEW es, Serve(r, es, TRUE), Returning' \subseteq Returning \cup {r},
           delivered' = delivered
    PROVE  Messages'
<1>1. ui' = ui /\ cmds' = cmds /\ r \in Written /\ Written' = Written \ {r} BY Served
<1>2. Queued' = Queued BY <1>1 DEF Queued
<1> QED BY <1>1, <1>2, MessagesKept

\* The only one of its kind, with its answer.
LEMMA OneAnswer ==
    ASSUME NEW k \in AnswerKinds, NEW r \in Request, NEW t \in Threads \cup {NoThread}, NEW es,
           es = <<Answer(k, r, t)>>
    PROVE  /\ es \in Seq(Event) /\ 1 \in DOMAIN es /\ es[1] = Answer(k, r, t)
           /\ DOMAIN es = {1} /\ \A j \in DOMAIN es : j = 1 \/ es[j].kind \notin AnswerKinds
BY Lifecycle

LEMMA ServeTaskCases ==
    ASSUME Base, ServeTask
    PROVE  \E r \in Written, t \in Threads :
             /\ (r.kind \in {"open", "resume"} /\ t = r.thread) \/ (r.kind \in {"start", "fork"} /\ t \notin existing)
             /\ existing' = existing \cup {t} /\ subs' = subs \cup {t} /\ turns' = turns /\ delivered' = delivered
             /\ \E es : /\ Serve(r, es, TRUE)
                        /\ \/ es = <<Answer("ok", r, t)>>
                           \/ es = <<[kind |-> "oversized"]>> /\ "oversized frames" \in Troubles
BY DEF ServeTask, Serve, Subscribed

LEMMA ServeTaskStep == ASSUME Base, Messages, ServeTask PROVE Base' /\ Messages'
<1>1. PICK r \in Written, t \in Threads :
        /\ (r.kind \in {"open", "resume"} /\ t = r.thread) \/ (r.kind \in {"start", "fork"} /\ t \notin existing)
        /\ existing' = existing \cup {t} /\ subs' = subs \cup {t} /\ turns' = turns /\ delivered' = delivered
        /\ \E es : /\ Serve(r, es, TRUE)
                   /\ \/ es = <<Answer("ok", r, t)>>
                      \/ es = <<[kind |-> "oversized"]>> /\ "oversized frames" \in Troubles
  BY ServeTaskCases
<1>2. PICK es : /\ Serve(r, es, TRUE)
                /\ es = <<Answer("ok", r, t)>> \/ es = <<[kind |-> "oversized"]>>
  BY <1>1
<1>3. r \in Request /\ evq' = evq \o es BY <1>2, Served
<1>4. /\ existing \subseteq existing' /\ existing' \subseteq Threads /\ subs' \subseteq existing'
      /\ turns' \subseteq Threads /\ delivered' \in [Prompts -> Nat] /\ t \in existing'
  BY <1>1 DEF Base, TypeOK, About
<1>5. /\ evq' \in Seq(Event) /\ Answered' \subseteq Answered \cup {r} /\ Returning' \subseteq Returning \cup {r}
      /\ \A i \in DOMAIN evq' : \/ evq'[i].kind # "ok" \/ \E j \in DOMAIN evq : evq'[i] = evq[j]
                                \/ evq'[i] = Answer("ok", r, t)
  <2>1. CASE es = <<Answer("ok", r, t)>>
    <3>1. es \in Seq(Event) /\ 1 \in DOMAIN es /\ es[1] = Answer("ok", r, t)
          /\ \A j \in DOMAIN es : j = 1 \/ es[j].kind \notin AnswerKinds
      BY <2>1, <1>3, OneAnswer DEF AnswerKinds
    <3>2. PICK k \in AnswerKinds : k = "ok" BY DEF AnswerKinds
    <3>3. es[1] = Answer(k, r, t) BY <3>1, <3>2
    <3>4. /\ evq' \in Seq(Event) /\ Answered' = Answered \cup {r} /\ Returning' \subseteq Returning \cup {r}
          /\ \A i \in DOMAIN evq' : \/ evq'[i].kind # "ok" \/ \E j \in DOMAIN evq : evq'[i] = evq[j]
                                    \/ evq'[i] = Answer(k, r, t)
      <4>1. Replying(es, k, r, t) BY <3>1, <3>3, <1>3 DEF Replying
      <4> QED BY <4>1, EmittedAnswer
    <3> QED BY <3>2, <3>4
  <2>2. CASE es = <<[kind |-> "oversized"]>>
    <3>1. PICK e : e = [kind |-> "oversized"] OBVIOUS
    <3>2. e \in Event /\ e.kind \notin AnswerKinds /\ evq' = evq \o <<e>> BY <3>1, <2>2, <1>3, Lifecycle DEF AnswerKinds
    <3> QED BY <3>2, EmittedOne
  <2> QED BY <1>2, <2>1, <2>2
<1>6. \A i \in DOMAIN evq' :
         \/ evq'[i].kind # "ok" \/ \E j \in DOMAIN evq : evq'[i] = evq[j]
         \/ /\ evq'[i].thread \in existing'
            /\ evq'[i].req.kind \in {"open", "resume"} => evq'[i].thread = evq'[i].req.thread
  <2>1. PICK a : a = Answer("ok", r, t) OBVIOUS
  <2>2. a.thread = t /\ a.req = r /\ (a.req.kind \in {"open", "resume"} => a.thread = a.req.thread)
    BY <2>1, <1>1 DEF Answer
  <2> QED BY <2>1, <2>2, <1>4, <1>5
<1>7. Base' BY <1>2, <1>4, <1>5, <1>6, ServedBase
<1>8. Messages' BY <1>1, <1>2, <1>5, ServedMessages
<1> QED BY <1>7, <1>8

LEMMA ServeUnsubscribeCases ==
    ASSUME ServeUnsubscribe
    PROVE  \E r \in Written :
             /\ r.kind = "unsub" /\ Serve(r, <<Answer("ok", r, r.thread)>>, TRUE)
             /\ subs' = subs \ {r.thread} /\ existing' = existing /\ turns' = turns /\ delivered' = delivered
BY DEF ServeUnsubscribe, Serve

LEMMA RefuseCases ==
    ASSUME Refuse
    PROVE  \E r \in Written, answer \in {"error", "malformed"} :
             /\ Serve(r, <<Answer(answer, r, r.thread)>>, TRUE)
             /\ subs' = subs /\ existing' = existing /\ turns' = turns /\ delivered' = delivered
BY DEF Refuse, Serve

\* A release, or a refusal.
LEMMA PlainAnswer ==
    ASSUME Base, NEW r, NEW k \in AnswerKinds, Serve(r, <<Answer(k, r, r.thread)>>, TRUE)
    PROVE  /\ evq' \in Seq(Event) /\ Answered' = Answered \cup {r} /\ Returning' \subseteq Returning \cup {r}
           /\ (k = "ok" /\ r.kind = "send" => Returning' = Returning)
           /\ \A i \in DOMAIN evq' : \/ evq'[i].kind # "ok" \/ \E j \in DOMAIN evq : evq'[i] = evq[j]
                                     \/ evq'[i] = Answer(k, r, r.thread)
<1>1. PICK es : es = <<Answer(k, r, r.thread)>> OBVIOUS
<1>2. PICK t : t = r.thread OBVIOUS
<1>3. r \in Request /\ evq' = evq \o es BY <1>1, Served
<1>4. t \in Threads \cup {NoThread} /\ es = <<Answer(k, r, t)>> BY <1>1, <1>2, <1>3 DEF Request
<1>5. es \in Seq(Event) /\ 1 \in DOMAIN es /\ es[1] = Answer(k, r, t)
      /\ \A j \in DOMAIN es : j = 1 \/ es[j].kind \notin AnswerKinds
  BY <1>3, <1>4, OneAnswer
<1>6. Replying(es, k, r, t) BY <1>3, <1>5 DEF Replying
<1> QED BY <1>2, <1>6, EmittedAnswer

LEMMA ServeUnsubscribeStep == ASSUME Base, Messages, ServeUnsubscribe PROVE Base' /\ Messages'
<1>1. PICK r \in Written :
        /\ r.kind = "unsub" /\ Serve(r, <<Answer("ok", r, r.thread)>>, TRUE)
        /\ subs' = subs \ {r.thread} /\ existing' = existing /\ turns' = turns /\ delivered' = delivered
  BY ServeUnsubscribeCases
<1>2. PICK k \in AnswerKinds : k = "ok" BY DEF AnswerKinds
<1>3. PICK es : es = <<Answer(k, r, r.thread)>> OBVIOUS
<1>4. Serve(r, <<Answer(k, r, r.thread)>>, TRUE) BY <1>1, <1>2
<1>5. /\ evq' \in Seq(Event) /\ Answered' = Answered \cup {r} /\ Returning' \subseteq Returning \cup {r}
      /\ \A i \in DOMAIN evq' : \/ evq'[i].kind # "ok" \/ \E j \in DOMAIN evq : evq'[i] = evq[j]
                                \/ evq'[i] = Answer(k, r, r.thread)
  BY <1>4, PlainAnswer
<1>6. Formed(r) BY DEF Base, About
<1>7. PICK a : a = Answer(k, r, r.thread) OBVIOUS
<1>8. a.thread = r.thread /\ a.req = r /\ r.thread \in existing BY <1>7, <1>6, <1>1 DEF Answer, Formed
<1>9. \A i \in DOMAIN evq' :
         \/ evq'[i].kind # "ok" \/ \E j \in DOMAIN evq : evq'[i] = evq[j]
         \/ /\ evq'[i].thread \in existing'
            /\ evq'[i].req.kind \in {"open", "resume"} => evq'[i].thread = evq'[i].req.thread
  BY <1>5, <1>7, <1>8, <1>1
<1>10. /\ existing \subseteq existing' /\ existing' \subseteq Threads /\ subs' \subseteq existing'
       /\ turns' \subseteq Threads /\ delivered' \in [Prompts -> Nat] /\ Serve(r, es, TRUE)
  BY <1>1, <1>3, <1>4 DEF Base, TypeOK, About
<1>11. Base' BY <1>5, <1>9, <1>10, ServedBase
<1>12. Messages' BY <1>1, <1>5, <1>10, ServedMessages
<1> QED BY <1>11, <1>12

LEMMA RefuseStep == ASSUME Base, Messages, Refuse PROVE Base' /\ Messages'
<1>1. PICK r \in Written, k \in {"error", "malformed"} :
        /\ Serve(r, <<Answer(k, r, r.thread)>>, TRUE)
        /\ subs' = subs /\ existing' = existing /\ turns' = turns /\ delivered' = delivered
  BY RefuseCases
<1>2. k \in AnswerKinds /\ k # "ok" BY DEF AnswerKinds
<1>3. PICK es : es = <<Answer(k, r, r.thread)>> OBVIOUS
<1>4. /\ evq' \in Seq(Event) /\ Answered' = Answered \cup {r} /\ Returning' \subseteq Returning \cup {r}
      /\ \A i \in DOMAIN evq' : \/ evq'[i].kind # "ok" \/ \E j \in DOMAIN evq : evq'[i] = evq[j]
                                \/ evq'[i] = Answer(k, r, r.thread)
  BY <1>1, <1>2, PlainAnswer
<1>5. PICK a : a = Answer(k, r, r.thread) OBVIOUS
<1>6. a.kind # "ok" BY <1>2, <1>5 DEF Answer
<1>7. \A i \in DOMAIN evq' : evq'[i].kind # "ok" \/ \E j \in DOMAIN evq : evq'[i] = evq[j] BY <1>4, <1>5, <1>6
<1>8. /\ existing \subseteq existing' /\ existing' \subseteq Threads /\ subs' \subseteq existing'
      /\ turns' \subseteq Threads /\ delivered' \in [Prompts -> Nat] /\ Serve(r, es, TRUE)
  BY <1>1, <1>3 DEF Base, TypeOK, About
<1>9. Base' BY <1>4, <1>7, <1>8, ServedBase
<1>10. Messages' BY <1>1, <1>4, <1>8, ServedMessages
<1> QED BY <1>9, <1>10

LEMMA ServeSendCases ==
    ASSUME ServeSend
    PROVE  \E r \in Written :
             /\ r.kind = "send"
             /\ turns' = turns \cup {r.thread} /\ subs' = subs /\ existing' = existing
             /\ delivered' = [p \in Prompts |-> delivered[p] + IF p \in r.text THEN 1 ELSE 0]
             /\ Serve(r, <<Answer("ok", r, r.thread)>>
                           \o (IF r.thread \in subs THEN <<[kind |-> "started", thread |-> r.thread]>>
                               ELSE <<>>), TRUE)
BY DEF ServeSend, Serve

\* The answer to a message, and the notice that its turn has started.
LEMMA TwoAnswer ==
    ASSUME NEW r \in Request, NEW t \in Threads, NEW es,
           \/ es = <<Answer("ok", r, t)>> \o <<[kind |-> "started", thread |-> t]>>
           \/ es = <<Answer("ok", r, t)>> \o <<>>
    PROVE  /\ es \in Seq(Event) /\ 1 \in DOMAIN es /\ es[1] = Answer("ok", r, t)
           /\ \A j \in DOMAIN es : j = 1 \/ es[j].kind = "started"
<1>1. PICK a : a = Answer("ok", r, t) OBVIOUS
<1>2. PICK b : b = [kind |-> "started", thread |-> t] OBVIOUS
<1>3. a \in Event /\ b \in Event /\ b.kind = "started"
  <2>1. PICK k \in AnswerKinds : k = "ok" BY DEF AnswerKinds
  <2> QED BY <1>1, <1>2, <2>1, Lifecycle
<1>4. <<a>> \in Seq(Event) /\ <<b>> \in Seq(Event) /\ <<>> \in Seq(Event) BY <1>3
<1>5. CASE es = <<a>> \o <<b>>
  <2>1. PICK x : x = <<a>> OBVIOUS
  <2>2. PICK y : y = <<b>> OBVIOUS
  <2>3. x \in Seq(Event) /\ y \in Seq(Event) /\ DOMAIN x = {1} /\ DOMAIN y = {1} /\ x[1] = a /\ y[1] = b /\ Len(x) = 1
    BY <2>1, <2>2, <1>3
  <2>4. PICK z : z = x \o y OBVIOUS
  <2>10. Joins(Event, z, x, y) BY <2>3, <2>4 DEF Joins
  <2>5. z \in Seq(Event) /\ Len(x) \in Nat BY <2>10, JoinedType
  <2>6. \A i \in DOMAIN x : i \in DOMAIN z /\ z[i] = x[i] BY <2>10, JoinedBefore
  <2>7. \A j \in DOMAIN y : z[Len(x) + j] = y[j] BY <2>10, JoinedAfter
  <2>8. \A i \in DOMAIN z : i \in DOMAIN x \/ \E j \in DOMAIN y : i = Len(x) + j BY <2>10, JoinedOnly
  <2>9. es = z BY <1>5, <2>1, <2>2, <2>4
  <2> QED BY <2>3, <2>5, <2>6, <2>7, <2>8, <2>9, <1>1, <1>3
<1>6. CASE es = <<a>> \o <<>>
  <2>1. es = <<a>> BY <1>6
  <2> QED BY <2>1, <1>1, <1>3
<1> QED BY <1>1, <1>2, <1>5, <1>6

LEMMA ServeSendStep == ASSUME Base, Messages, ServeSend PROVE Base' /\ Messages'
<1>1. PICK r \in Written :
        /\ r.kind = "send"
        /\ turns' = turns \cup {r.thread} /\ subs' = subs /\ existing' = existing
        /\ delivered' = [p \in Prompts |-> delivered[p] + IF p \in r.text THEN 1 ELSE 0]
        /\ Serve(r, <<Answer("ok", r, r.thread)>>
                      \o (IF r.thread \in subs THEN <<[kind |-> "started", thread |-> r.thread]>> ELSE <<>>), TRUE)
  BY ServeSendCases
<1>2. PICK t : t = r.thread OBVIOUS
<1>3. PICK es : es = <<Answer("ok", r, t)>> \o (IF r.thread \in subs THEN <<[kind |-> "started", thread |-> t]>> ELSE <<>>)
  OBVIOUS
<1>4. Serve(r, es, TRUE) BY <1>1, <1>2, <1>3
<1>5. r \in Request /\ evq' = evq \o es /\ ui' = ui /\ cmds' = cmds /\ Written' = Written \ {r} BY <1>4, Served
<1>6. t \in existing /\ t \in Threads BY <1>1, <1>2, Plain DEF Base, About, Formed
<1>7. /\ es \in Seq(Event) /\ 1 \in DOMAIN es /\ es[1] = Answer("ok", r, t)
      /\ \A j \in DOMAIN es : j = 1 \/ es[j].kind = "started"
  <2>1. CASE r.thread \in subs BY <2>1, <1>3, <1>5, <1>6, TwoAnswer
  <2>2. CASE r.thread \notin subs BY <2>2, <1>3, <1>5, <1>6, TwoAnswer
  <2> QED BY <2>1, <2>2
<1>8. PICK k \in AnswerKinds : k = "ok" BY DEF AnswerKinds
<1>9. /\ evq' \in Seq(Event) /\ Answered' = Answered \cup {r} /\ Returning' = Returning
      /\ \A i \in DOMAIN evq' : \/ evq'[i].kind # "ok" \/ \E j \in DOMAIN evq : evq'[i] = evq[j]
                                \/ evq'[i] = Answer(k, r, t)
  <2>1. es[1] = Answer(k, r, t) BY <1>7, <1>8
  <2>2. \A j \in DOMAIN es : j = 1 \/ es[j].kind \notin AnswerKinds BY <1>7 DEF AnswerKinds
  <2>3. /\ evq' \in Seq(Event) /\ Answered' = Answered \cup {r} /\ (k = "ok" /\ r.kind = "send" => Returning' = Returning)
        /\ \A i \in DOMAIN evq' : \/ evq'[i].kind # "ok" \/ \E j \in DOMAIN evq : evq'[i] = evq[j]
                                  \/ evq'[i] = Answer(k, r, t)
    <3>1. es \in Seq(Event) /\ 1 \in DOMAIN es /\ evq' = evq \o es BY <1>5, <1>7
    <3>6. Replying(es, k, r, t) BY <3>1, <2>1, <2>2 DEF Replying
    <3>2. evq' \in Seq(Event) BY <3>6, EmittedAnswer
    <3>3. Answered' = Answered \cup {r} BY <3>6, EmittedAnswer
    <3>4. k = "ok" /\ r.kind = "send" => Returning' = Returning BY <3>6, EmittedAnswer
    <3>5. \A i \in DOMAIN evq' : \/ evq'[i].kind # "ok" \/ \E j \in DOMAIN evq : evq'[i] = evq[j]
                                \/ evq'[i] = Answer(k, r, t)
      <4>1. PICK s : s = evq OBVIOUS
      <4>2. PICK q : q = s \o es OBVIOUS
      <4>3. s \in Seq(Event) /\ es \in Seq(Event) /\ evq' = q BY <4>1, <4>2, <3>1 DEF Base, TypeOK
      <4>8. Joins(Event, q, s, es) BY <4>2, <4>3 DEF Joins
      <4>4. \A i \in DOMAIN s : q[i] = s[i] BY <4>8, JoinedBefore
      <4>5. \A j \in DOMAIN es : q[Len(s) + j] = es[j] BY <4>8, JoinedAfter
      <4>6. \A i \in DOMAIN q : i \in DOMAIN s \/ \E j \in DOMAIN es : i = Len(s) + j BY <4>8, JoinedOnly
      <4>7. \A j \in DOMAIN es : es[j] = Answer(k, r, t) \/ es[j].kind # "ok" BY <2>1, <2>2 DEF AnswerKinds
      <4> QED BY <4>1, <4>3, <4>4, <4>5, <4>6, <4>7
    <3> QED BY <3>2, <3>3, <3>4, <3>5
  <2> QED BY <2>3, <1>1, <1>8
<1>10. PICK a : a = Answer(k, r, t) OBVIOUS
<1>11. a.thread = t /\ a.req = r BY <1>10 DEF Answer
<1>12. \A i \in DOMAIN evq' :
         \/ evq'[i].kind # "ok" \/ \E j \in DOMAIN evq : evq'[i] = evq[j]
         \/ /\ evq'[i].thread \in existing'
            /\ evq'[i].req.kind \in {"open", "resume"} => evq'[i].thread = evq'[i].req.thread
  BY <1>1, <1>6, <1>9, <1>10, <1>11
<1>13. delivered' \in [Prompts -> Nat] BY <1>1 DEF Base, TypeOK
<1>14. /\ existing \subseteq existing' /\ existing' \subseteq Threads /\ subs' \subseteq existing'
       /\ turns' \subseteq Threads
  BY <1>1, <1>2, <1>6 DEF Base, TypeOK, About
<1>15. Base' BY <1>4, <1>9, <1>12, <1>13, <1>14, ServedBase
<1>16. Messages'
  <2>1. Queued' = Queued BY <1>5 DEF Queued
  <2>2. \A p \in Prompts : Carriers(p)' = Carriers(p) \ {r}
    <3>1. r \notin Queued /\ r \notin Returning
      <4>1. Returning \subseteq Answered BY DEF Returning, Answered
      <4> QED BY <4>1 DEF Base, Placed
    <3> QED BY <2>1, <3>1, <1>5, <1>9 DEF Carriers
  <2> SUFFICES ASSUME NEW p \in Prompts
               PROVE  /\ \A x, q \in Carriers(p)' : x = q
                      /\ p \in ui.composer \/ Carriers(p)' # {} => delivered'[p] = 0 /\ p \in ui.typed
                      /\ p \in ui.composer => Carriers(p)' = {}
                      /\ delivered'[p] <= 1
                      /\ p \notin ui.typed => delivered'[p] = 0
    BY <1>5 DEF Messages
  <2>3. /\ \A x, q \in Carriers(p) : x = q
        /\ p \in ui.composer \/ Carriers(p) # {} => delivered[p] = 0 /\ p \in ui.typed
        /\ p \in ui.composer => Carriers(p) = {}
        /\ delivered[p] <= 1
        /\ p \notin ui.typed => delivered[p] = 0
    BY DEF Messages
  <2>4. Carriers(p)' = Carriers(p) \ {r} BY <2>2
  <2>5. delivered[p] \in Nat /\ delivered'[p] = delivered[p] + IF p \in r.text THEN 1 ELSE 0
    BY <1>1 DEF Base, TypeOK
  <2>6. CASE p \in r.text
    <3>1. r \in Carriers(p) BY <2>6 DEF Carriers
    <3>2. Carriers(p)' = {} BY <3>1, <2>3, <2>4
    <3> QED BY <3>1, <3>2, <2>3, <2>5, <2>6
  <2>7. CASE p \notin r.text BY <2>3, <2>4, <2>5, <2>7
  <2> QED BY <2>6, <2>7
<1> QED BY <1>15, <1>16

\* Turns of other clients, and turns that end.
LEMMA NotifyStep ==
    ASSUME Base, Messages, NEW k \in {"started", "completed"}, NEW t \in Threads, Notify(k, t),
           turns' \subseteq Threads
    PROVE  Base' /\ Messages'
<1>1. PICK e : e = [kind |-> k, thread |-> t] OBVIOUS
<1>2. e \in Event /\ e.kind \notin AnswerKinds BY <1>1, Lifecycle DEF AnswerKinds
<1>3. evq' = evq \/ evq' = evq \o <<e>> BY <1>1 DEF Notify, Emits
<1>4. /\ evq' \in Seq(Event) /\ Answered' = Answered /\ Returning' = Returning
      /\ \A i \in DOMAIN evq' : evq'[i].kind # "ok" \/ \E j \in DOMAIN evq : evq'[i] = evq[j]
  <2>1. CASE evq' = evq BY <2>1 DEF Base, TypeOK, Answered, Returning
  <2>2. CASE evq' = evq \o <<e>> BY <2>2, <1>2, EmittedOne
  <2> QED BY <1>3, <2>1, <2>2
<1>5. /\ ui' = ui /\ cmds' = cmds /\ losses' = losses /\ wire' = wire /\ subs' = subs
      /\ existing' = existing /\ delivered' = delivered /\ reconnects' = reconnects
      /\ phase' = phase /\ mode' = mode
  BY DEF Notify, hubVars
<1>6. Queued' = Queued /\ Written' = Written BY <1>5 DEF Queued, Written
<1>7. TypeOK' BY <1>4, <1>5 DEF Base, TypeOK
<1>8. Placed'
  <2>1. Once(cmds)' /\ Distinct(wire)'
    <3>1. cmds' = cmds /\ Once(cmds) /\ wire' = wire /\ Distinct(wire) BY <1>5 DEF Base, Placed
    <3> QED BY <3>1
  <2> QED BY <2>1, <1>4, <1>5, <1>6 DEF Base, Placed
<1>9. About' BY <1>4, <1>5, <1>6, AboutKept DEF Base, About
<1>10. Messages' BY <1>4, <1>5, <1>6, MessagesKept
<1> QED BY <1>7, <1>8, <1>9, <1>10 DEF Base

LEMMA TurnsStep == ASSUME Base, Messages, RemoteTurn \/ EndTurn PROVE Base' /\ Messages'
<1>1. turns \subseteq Threads /\ existing \subseteq Threads BY Plain DEF Base, TypeOK
<1>2. ASSUME RemoteTurn PROVE Base' /\ Messages'
  <2>1. PICK t \in existing \ turns : turns' = turns \cup {t} /\ Notify("started", t) BY <1>2 DEF RemoteTurn
  <2>2. t \in Threads /\ turns' \subseteq Threads BY <1>1, <2>1
  <2> QED BY <2>1, <2>2, NotifyStep
<1>3. ASSUME EndTurn PROVE Base' /\ Messages'
  <2>1. PICK t \in turns : turns' = turns \ {t} /\ Notify("completed", t) BY <1>3 DEF EndTurn
  <2>2. t \in Threads /\ turns' \subseteq Threads BY <1>1, <2>1
  <2> QED BY <2>1, <2>2, NotifyStep
<1> QED BY <1>2, <1>3

---------------------------------------------------------------------------
(* A message starts at most one turn.                                      *)

LEMMA InitBase == Init => Base /\ Messages
<1> SUFFICES ASSUME Init PROVE Base /\ Messages OBVIOUS
<1>1. /\ cmds = <<>> /\ evq = <<>> /\ wire = <<>> /\ phase = "idle" /\ mode = "direct" /\ subs = {}
      /\ existing = Existing /\ turns = {} /\ delivered = [p \in Prompts |-> 0] /\ losses = 0 /\ reconnects = 0
      /\ ui.active = NoThread /\ ui.resumed = {} /\ ui.pending = {} /\ ui.composer = {} /\ ui.typed = {}
  BY DEF Init
<1>2. ui \in Controller BY DEF Init, Controller
<1>3. cmds \in Seq(Batch) /\ evq \in Seq(Event) /\ wire \in Seq(Request) BY <1>1, EmptySeq
<1>4. TypeOK BY <1>1, <1>2, <1>3, ThreadAssumption DEF TypeOK
<1>5. DOMAIN cmds = {} /\ DOMAIN evq = {} /\ DOMAIN wire = {} BY <1>1
<1>6. Queued = {} /\ Written = {} /\ Answered = {} /\ Returning = {} BY <1>5 DEF Queued, Written, Answered, Returning
<1>7. Placed BY <1>1, <1>5, <1>6 DEF Placed, Once, Distinct
<1>8. About BY <1>1, <1>5, <1>6 DEF About
<1>9. Messages BY <1>1, <1>6 DEF Messages, Carriers
<1> QED BY <1>4, <1>7, <1>8, <1>9 DEF Base

LEMMA SessionStep == Base /\ Messages /\ [Next]_vars => Base' /\ Messages'
<1> SUFFICES ASSUME Base, Messages, [Next]_vars PROVE Base' /\ Messages' OBVIOUS
<1>1. CASE User \/ Handle BY <1>1, ControllerStep
<1>2. CASE Hub
  BY <1>2, ConnectStep, InitOkStep, LostStep, WriteRequestStep, DropRequestStep, ReconnectStep DEF Hub
<1>3. CASE Server
  BY <1>3, ServeTaskStep, ServeSendStep, ServeUnsubscribeStep, RefuseStep, TurnsStep DEF Server
<1>4. CASE UNCHANGED vars
  <2>1. /\ ui' = ui /\ cmds' = cmds /\ evq' = evq /\ phase' = phase /\ mode' = mode /\ wire' = wire /\ subs' = subs
        /\ existing' = existing /\ turns' = turns /\ delivered' = delivered /\ losses' = losses
        /\ reconnects' = reconnects
    BY <1>4 DEF vars, hubVars, serverVars
  <2>2. /\ Queued' = Queued /\ Written' = Written /\ Answered' = Answered /\ Returning' = Returning
        /\ \A i \in DOMAIN evq' : \E j \in DOMAIN evq : evq'[i] = evq[j]
    BY <2>1 DEF Queued, Written, Answered, Returning
  <2>3. TypeOK' BY <2>1 DEF Base, TypeOK
  <2>4. Once(cmds)' /\ Distinct(wire)'
    <3>1. cmds' = cmds /\ Once(cmds) /\ wire' = wire /\ Distinct(wire) BY <2>1 DEF Base, Placed
    <3> QED BY <3>1
  <2>5. Placed' BY <2>1, <2>2, <2>4 DEF Base, Placed
  <2>6. About' BY <2>1, <2>2, AboutKept DEF Base, About
  <2>7. Messages' BY <2>1, <2>2, MessagesKept
  <2> QED BY <2>3, <2>5, <2>6, <2>7 DEF Base
<1> QED BY <1>1, <1>2, <1>3, <1>4 DEF Next

LEMMA SessionHolds == Spec => [](Base /\ Messages)
<1> QED BY InitBase, SessionStep, PTL DEF Spec

\* Whatever is lost, refused or resent, on either transport and across
\* commanded reconnects: a message starts at most one turn.
THEOREM SentOnce == Spec => []AtMostOnce
<1>1. Messages => AtMostOnce BY DEF Messages, AtMostOnce
<1> QED BY <1>1, SessionHolds, PTL

\* Every handler leaves every variable in its type.
THEOREM SessionTyped == Spec => []TypeOK
<1>1. Base => TypeOK BY DEF Base
<1> QED BY <1>1, SessionHolds, PTL

---------------------------------------------------------------------------
(* What is pending is on its way or answered, where a request is not       *)
(* dropped: a direct transport that starts reads and drops what is queued, *)
(* a commanded reconnect says nothing of what was written, and an answer   *)
(* too long to be read answers nothing.                                    *)

Delivering ==
    Modes = {"managed"} /\ MaxReconnects = 0 /\ "oversized frames" \notin Troubles

Reaching ==
    /\ Sends(cmds)
    /\ phase # "idle" => mode = "managed"
    /\ NoOrphanedPending

\* What is behind the head of the stream, and what it said.
LEMMA Consumed ==
    ASSUME Base, evq # <<>>, evq' = Tail(evq), NEW e, e = Head(evq)
    PROVE  /\ \A k : Undrained(k) /\ e.kind # k => Undrained(k)'
           /\ \A r \in Answered : r \in Answered' \/ (e.kind \in AnswerKinds /\ r = e.req)
<1>1. PICK s : s = evq OBVIOUS
<1>2. PICK t : t = Tail(s) OBVIOUS
<1>3. s \in Seq(Event) /\ s # <<>> /\ evq' = t BY <1>1, <1>2 DEF Base, TypeOK
<1>4. /\ e = s[1]
      /\ \A i \in DOMAIN t : i \in Nat /\ i >= 1 /\ i + 1 \in DOMAIN s /\ t[i] = s[i + 1]
      /\ \A i \in DOMAIN s : i \in Nat /\ i >= 1 /\ (i = 1 \/ i - 1 \in DOMAIN t)
  BY <1>1, <1>2, <1>3, Taken
<1>5. \A i \in DOMAIN s : s[i] = e \/ \E j \in DOMAIN t : t[j] = s[i]
  <2> SUFFICES ASSUME NEW i \in DOMAIN s, i # 1 PROVE \E j \in DOMAIN t : t[j] = s[i] BY <1>4
  <2>1. i - 1 \in DOMAIN t /\ (i - 1) + 1 = i BY <1>4
  <2> QED BY <2>1, <1>4
<1>6. ASSUME NEW k, Undrained(k), e.kind # k PROVE Undrained(k)'
  <2>1. PICK i \in DOMAIN s : s[i].kind = k BY <1>1, <1>6 DEF Undrained
  <2>2. PICK j \in DOMAIN t : t[j] = s[i] BY <2>1, <1>5, <1>6
  <2> QED BY <2>1, <2>2, <1>3 DEF Undrained
<1>7. ASSUME NEW r \in Answered PROVE r \in Answered' \/ (e.kind \in AnswerKinds /\ r = e.req)
  <2>1. PICK i \in DOMAIN s : s[i].kind \in AnswerKinds /\ s[i].req = r BY <1>1 DEF Answered
  <2>2. CASE s[i] = e BY <2>1, <2>2
  <2>3. CASE \E j \in DOMAIN t : t[j] = s[i] BY <2>1, <2>3, <1>3 DEF Answered, AnswerKinds
  <2> QED BY <2>2, <2>3, <1>5
<1> QED BY <1>6, <1>7

LEMMA FurtherOn ==
    ASSUME Base, NEW es \in Seq(Event), evq' = evq \o es
    PROVE  /\ \A k : Undrained(k) => Undrained(k)'
           /\ \A j \in DOMAIN es : Undrained(es[j].kind)' /\ (es[j].kind \in AnswerKinds => es[j].req \in Answered')
           /\ Answered \subseteq Answered'
<1>1. evq \in Seq(Event) BY DEF Base, TypeOK
<1>2. \A i \in DOMAIN evq : i \in DOMAIN evq' /\ evq'[i] = evq[i] BY <1>1, Emitted
<1>3. \A j \in DOMAIN es : \E i \in DOMAIN evq' : evq'[i] = es[j] BY <1>1, Emitted
<1>4. \A k : Undrained(k) => Undrained(k)' BY <1>2 DEF Undrained
<1>5. \A j \in DOMAIN es : Undrained(es[j].kind)' BY <1>3 DEF Undrained
<1>6. \A j \in DOMAIN es : es[j].kind \in AnswerKinds => es[j].req \in Answered' BY <1>3 DEF Answered, AnswerKinds
<1>7. Answered \subseteq Answered' BY <1>2 DEF Answered, AnswerKinds
<1> QED BY <1>4, <1>5, <1>6, <1>7

LEMMA ReachUser == ASSUME Base, Reaching, Delivering, User PROVE Reaching'
<1>1. PICK u, T, N : evq' = evq /\ Issued(N, u, T) /\ Same(u) BY UserIsDone DEF UserDone
<1>2. /\ ui'.pending = ui.pending \cup N /\ Queued' = Queued \cup N /\ Sends(cmds')
      /\ phase' = phase /\ mode' = mode /\ wire' = wire
  BY <1>1 DEF Issued, Same, Reaching, Delivering, hubVars, serverVars
<1>3. Written' = Written /\ Answered' = Answered /\ (Undrained("disconnected") => Undrained("disconnected")')
  BY <1>1, <1>2 DEF Written, Answered, Undrained
<1>4. Sends(cmds)' BY <1>2
<1> QED BY <1>2, <1>3, <1>4 DEF Reaching, NoOrphanedPending

LEMMA ReachHandle == ASSUME Base, Messages, Reaching, Delivering, Handle PROVE Reaching'
<1>1. PICK u, T, N : Issued(N, u, T) /\ Handled(u, Head(evq)) BY HandleIsDone DEF HandleDone
<1>2. evq # <<>> /\ evq' = Tail(evq) BY HandleIsDone DEF HandleDone
<1>3. PICK e : e = Head(evq) OBVIOUS
<1>4. /\ ui'.pending = u.pending \cup N /\ Queued' = Queued \cup N /\ Sends(cmds')
      /\ phase' = phase /\ mode' = mode /\ wire' = wire
  BY <1>1 DEF Issued, Reaching, Delivering, hubVars, serverVars
<1>5. Written' = Written BY <1>4 DEF Written
<1>6. e.kind # "disconnected" /\ Undrained("disconnected") => Undrained("disconnected")' BY <1>2, <1>3, Consumed
<1>7. \A r \in Answered : r \in Answered' \/ (e.kind \in AnswerKinds /\ r = e.req) BY <1>2, <1>3, Consumed
<1>8. NoOrphanedPending'
  <2>1. CASE e.kind = "disconnected"
    <3>1. u.pending = {} BY <2>1, <1>1, <1>3 DEF Handled, AnswerKinds
    <3> QED BY <3>1, <1>4 DEF NoOrphanedPending
  <2>2. CASE e.kind # "disconnected" /\ ~Undrained("disconnected")
    <3>1. ui.pending \subseteq Queued \cup Written \cup Answered BY <2>2 DEF Reaching, NoOrphanedPending
    <3>2. u.pending \subseteq ui.pending /\ (e.kind \in AnswerKinds => e.req \notin u.pending)
      BY <2>2, <1>1, <1>3 DEF Handled, Same, Answers
    <3>3. u.pending \subseteq Queued \cup Written \cup Answered' BY <3>1, <3>2, <1>7
    <3> QED BY <3>3, <1>4, <1>5 DEF NoOrphanedPending
  <2> QED BY <2>1, <2>2, <1>6 DEF NoOrphanedPending
<1>9. Sends(cmds)' BY <1>4
<1> QED BY <1>4, <1>8, <1>9 DEF Reaching

LEMMA ReachHub == ASSUME Base, Messages, Reaching, Delivering, Hub PROVE Reaching'
<1>1. ASSUME NEW e \in Event, evq' = evq \o <<e>>, ui' = ui, cmds' = cmds,
             wire' = wire \/ e.kind = "disconnected"
      PROVE  NoOrphanedPending' /\ Sends(cmds)'
  <2>1. PICK es : es = <<e>> OBVIOUS
  <2>2. es \in Seq(Event) /\ evq' = evq \o es /\ 1 \in DOMAIN es /\ es[1] = e BY <2>1, <1>1
  <2>3. (Undrained("disconnected") => Undrained("disconnected")') /\ Undrained(e.kind)' /\ Answered \subseteq Answered'
    <3>1. \A k : Undrained(k) => Undrained(k)' BY <2>2, FurtherOn
    <3>2. Undrained(e.kind)' BY <2>2, FurtherOn
    <3>3. Answered \subseteq Answered' BY <2>2, FurtherOn
    <3> QED BY <3>1, <3>2, <3>3
  <2>4. Queued' = Queued /\ (wire' = wire => Written' = Written) BY <1>1 DEF Queued, Written
  <2>5. NoOrphanedPending' BY <2>3, <2>4, <1>1 DEF Reaching, NoOrphanedPending
  <2>6. cmds' = cmds /\ Sends(cmds) BY <1>1 DEF Reaching
  <2> QED BY <2>5, <2>6
<1>2. ASSUME Connect PROVE Reaching'
  <2>1. PICK e : e = [kind |-> "connecting"] OBVIOUS
  <2>2. e \in Event /\ evq' = evq \o <<e>> /\ ui' = ui /\ cmds' = cmds /\ wire' = wire /\ mode' \in Modes
    BY <2>1, <1>2, Lifecycle DEF Connect, Emits
  <2> QED BY <2>2, <1>1 DEF Reaching, Delivering
<1>3. ASSUME InitOk PROVE Reaching'
  <2>1. PICK e : e = [kind |-> "ready"] OBVIOUS
  <2>2. e \in Event /\ evq' = evq \o <<e>> /\ ui' = ui /\ cmds' = cmds /\ wire' = wire /\ mode' = mode /\ phase = "init"
    BY <2>1, <1>3, Lifecycle DEF InitOk, Emits, serverVars
  <2> QED BY <2>2, <1>1 DEF Reaching
<1>4. ASSUME Lost PROVE Reaching'
  <2>1. PICK e : e = [kind |-> "disconnected"] OBVIOUS
  <2>2. e \in Event /\ evq' = evq \o <<e>> /\ ui' = ui /\ cmds' = cmds /\ phase' = "idle" /\ e.kind = "disconnected"
    BY <2>1, <1>4, Lifecycle DEF Lost, Hangup, Emits
  <2> QED BY <2>2, <1>1 DEF Reaching
<1>5. ASSUME WriteRequest PROVE Reaching'
  <2>1. PICK r \in Queued : Dequeue(r) /\ wire' = Append(wire, r) BY <1>5 DEF WriteRequest
  <2>2. Queued' = Queued \ {r} /\ Sends(cmds)' BY <2>1, Dequeuing DEF Reaching
  <2>3. ui' = ui /\ evq' = evq /\ phase' = phase /\ mode' = mode BY <1>5 DEF WriteRequest, hubVars
  <2>4. Written \cup {r} \subseteq Written'
    <3>1. PICK w : w = wire OBVIOUS
    <3>2. PICK t : t = Append(w, r) OBVIOUS
    <3>3. w \in Seq(Request) /\ wire' = t BY <2>1, <3>1, <3>2 DEF Base, TypeOK
    <3>4. Len(w) \in Nat /\ DOMAIN w = 1..Len(w) /\ DOMAIN t = 1..Len(w) + 1 /\ t[Len(w) + 1] = r
          /\ \A i \in DOMAIN w : t[i] = w[i]
      BY <3>2, <3>3, LenProperties
    <3>5. Among(w) \cup {r} \subseteq Among(t) BY <3>4 DEF Among
    <3>6. Written' = Among(wire') BY DEF Written, Among
    <3> QED BY <3>1, <3>3, <3>5, <3>6, QueuedIs
  <2>5. Answered' = Answered /\ Undrained("disconnected")' = Undrained("disconnected")
    BY <2>3 DEF Answered, Undrained
  <2> QED BY <2>2, <2>3, <2>4, <2>5 DEF Reaching, NoOrphanedPending
<1>6. ~DropRequest BY DEF DropRequest, Reaching
<1>7. ASSUME Reconnect PROVE FALSE
  <2>1. cmds # <<>> /\ Head(cmds) = ReconnectCommand /\ cmds \in Seq(Batch) BY <1>7 DEF Reconnect, Base, TypeOK
  <2>2. PICK q : q = cmds OBVIOUS
  <2>3. 1 \in DOMAIN q /\ Head(q) = q[1] BY <2>1, <2>2, Taken
  <2>4. Head(cmds).op = "send" BY <2>2, <2>3 DEF Reaching, Sends
  <2> QED BY <2>1, <2>4 DEF ReconnectCommand
<1> QED BY <1>2, <1>3, <1>4, <1>5, <1>6, <1>7 DEF Hub

LEMMA ReachServed ==
    ASSUME Base, Reaching, NEW r, NEW es \in Seq(Event), Serve(r, es, TRUE),
           1 \in DOMAIN es, es[1].kind \in AnswerKinds, es[1].req = r
    PROVE  Reaching'
<1>1. /\ Written' = Written \ {r} /\ evq' = evq \o es /\ ui' = ui /\ cmds' = cmds /\ phase' = phase /\ mode' = mode
  BY Served
<1>2. Queued' = Queued BY <1>1 DEF Queued
<1>3. Undrained("disconnected") => Undrained("disconnected")' BY <1>1, FurtherOn
<1>4. Answered \subseteq Answered' BY <1>1, FurtherOn
<1>5. r \in Answered' BY <1>1, FurtherOn
<1>6. cmds' = cmds /\ Sends(cmds) BY <1>1 DEF Reaching
<1>7. Sends(cmds)' BY <1>6
<1> QED BY <1>1, <1>2, <1>3, <1>4, <1>5, <1>7 DEF Reaching, NoOrphanedPending

LEMMA ReachServer == ASSUME Base, Reaching, Delivering, Server PROVE Reaching'
<1>1. ASSUME NEW r \in Written, NEW k \in AnswerKinds, NEW t \in Threads \cup {NoThread},
             Serve(r, <<Answer(k, r, t)>>, TRUE)
      PROVE  Reaching'
  <2>1. PICK es : es = <<Answer(k, r, t)>> OBVIOUS
  <2>2. Serve(r, es, TRUE) BY <2>1, <1>1
  <2>3. r \in Request BY <2>2, Served
  <2>4. es \in Seq(Event) /\ 1 \in DOMAIN es /\ es[1] = Answer(k, r, t) BY <2>1, <2>3, OneAnswer
  <2>5. es[1].kind \in AnswerKinds /\ es[1].req = r BY <2>4 DEF Answer
  <2> QED BY <2>2, <2>4, <2>5, ReachServed
<1>2. ASSUME NEW r \in Written PROVE r.thread \in Threads \cup {NoThread}
  <2>1. r \in Request BY DEF Base, TypeOK, Written
  <2> QED BY <2>1 DEF Request
<1>3. ASSUME ServeTask PROVE Reaching'
  <2>1. PICK r \in Written, t \in Threads :
          \E es : /\ Serve(r, es, TRUE)
                  /\ es = <<Answer("ok", r, t)>> \/ "oversized frames" \in Troubles
    BY <1>3, ServeTaskCases
  <2>2. PICK k \in AnswerKinds : k = "ok" BY DEF AnswerKinds
  <2>3. Serve(r, <<Answer(k, r, t)>>, TRUE) BY <2>1, <2>2 DEF Delivering
  <2> QED BY <2>3, <1>1
<1>4. ASSUME ServeUnsubscribe PROVE Reaching'
  <2>1. PICK k \in AnswerKinds : k = "ok" BY DEF AnswerKinds
  <2>2. PICK r \in Written : Serve(r, <<Answer(k, r, r.thread)>>, TRUE) BY <2>1, <1>4, ServeUnsubscribeCases
  <2> QED BY <2>2, <1>1, <1>2
<1>5. ASSUME Refuse PROVE Reaching'
  <2>1. PICK r \in Written, k \in {"error", "malformed"} : Serve(r, <<Answer(k, r, r.thread)>>, TRUE)
    BY <1>5, RefuseCases
  <2>2. k \in AnswerKinds BY DEF AnswerKinds
  <2> QED BY <2>1, <2>2, <1>1, <1>2
<1>6. ASSUME ServeSend PROVE Reaching'
  <2>1. PICK r \in Written :
          /\ r.kind = "send"
          /\ Serve(r, <<Answer("ok", r, r.thread)>>
                        \o (IF r.thread \in subs THEN <<[kind |-> "started", thread |-> r.thread]>>
                            ELSE <<>>), TRUE)
    BY <1>6, ServeSendCases
  <2>2. PICK t : t = r.thread OBVIOUS
  <2>3. PICK es : es = <<Answer("ok", r, t)>> \o (IF r.thread \in subs THEN <<[kind |-> "started", thread |-> t]>> ELSE <<>>)
    OBVIOUS
  <2>4. Serve(r, es, TRUE) BY <2>1, <2>2, <2>3
  <2>5. r \in Request BY <2>4, Served
  <2>6. t \in Threads BY <2>1, <2>2, Plain DEF Base, About, Formed, TypeOK
  <2>7. es \in Seq(Event) /\ 1 \in DOMAIN es /\ es[1] = Answer("ok", r, t)
    <3>1. CASE r.thread \in subs BY <3>1, <2>3, <2>5, <2>6, TwoAnswer
    <3>2. CASE r.thread \notin subs BY <3>2, <2>3, <2>5, <2>6, TwoAnswer
    <3> QED BY <3>1, <3>2
  <2>8. es[1].kind \in AnswerKinds /\ es[1].req = r BY <2>7 DEF Answer, AnswerKinds
  <2> QED BY <2>4, <2>7, <2>8, ReachServed
<1>7. ASSUME NEW k \in {"started", "completed"}, NEW t \in Threads, Notify(k, t) PROVE Reaching'
  <2>1. PICK e : e = [kind |-> k, thread |-> t] OBVIOUS
  <2>2. PICK es : es = <<e>> OBVIOUS
  <2>3. e \in Event /\ es \in Seq(Event) BY <2>1, <2>2, Lifecycle
  <2>4. /\ ui' = ui /\ cmds' = cmds /\ wire' = wire /\ phase' = phase /\ mode' = mode
        /\ evq' = evq \/ evq' = evq \o es
    BY <2>1, <2>2, <1>7 DEF Notify, hubVars, Emits
  <2>5. (Undrained("disconnected") => Undrained("disconnected")') /\ Answered \subseteq Answered'
    <3>1. CASE evq' = evq BY <3>1 DEF Undrained, Answered
    <3>2. CASE evq' = evq \o es
      <4>1. \A x : Undrained(x) => Undrained(x)' BY <3>2, <2>3, FurtherOn
      <4>2. Answered \subseteq Answered' BY <3>2, <2>3, FurtherOn
      <4> QED BY <4>1, <4>2
    <3> QED BY <2>4, <3>1, <3>2
  <2>6. Queued' = Queued /\ Written' = Written BY <2>4 DEF Queued, Written
  <2>7. cmds' = cmds /\ Sends(cmds) BY <2>4 DEF Reaching
  <2>8. Sends(cmds)' BY <2>7
  <2> QED BY <2>4, <2>5, <2>6, <2>8 DEF Reaching, NoOrphanedPending
<1>8. ASSUME RemoteTurn \/ EndTurn PROVE Reaching'
  <2>1. turns \subseteq Threads /\ existing \subseteq Threads BY DEF Base, TypeOK
  <2> QED BY <2>1, <1>7, <1>8 DEF RemoteTurn, EndTurn
<1> QED BY <1>3, <1>4, <1>5, <1>6, <1>8 DEF Server

LEMMA ReachStep == Base /\ Messages /\ Reaching /\ Delivering /\ [Next]_vars => Reaching'
<1> SUFFICES ASSUME Base, Messages, Reaching, Delivering, [Next]_vars PROVE Reaching' OBVIOUS
<1>1. CASE UNCHANGED vars
  <2>1. ui' = ui /\ cmds' = cmds /\ evq' = evq /\ phase' = phase /\ mode' = mode /\ wire' = wire
    BY <1>1 DEF vars, hubVars, serverVars
  <2>2. Queued' = Queued /\ Written' = Written /\ Answered' = Answered
        /\ Undrained("disconnected")' = Undrained("disconnected")
    BY <2>1 DEF Queued, Written, Answered, Undrained
  <2>3. cmds' = cmds /\ Sends(cmds) BY <2>1 DEF Reaching
  <2>4. Sends(cmds)' BY <2>3
  <2> QED BY <2>1, <2>2, <2>4 DEF Reaching, NoOrphanedPending
<1> QED BY <1>1, ReachUser, ReachHandle, ReachHub, ReachServer DEF Next

\* On a machine that only ever has the managed transport, without commanded
\* reconnects and frames too long to read: every request the controller waits
\* for is queued, written or answered, or the disconnection that clears it has
\* been reported to it.
THEOREM NothingOrphaned == Delivering => (Spec => []NoOrphanedPending)
<1> SUFFICES ASSUME Delivering PROVE Spec => []NoOrphanedPending OBVIOUS
<1>1. Init => Reaching
  <2> SUFFICES ASSUME Init PROVE Reaching OBVIOUS
  <2>1. cmds = <<>> /\ phase = "idle" /\ ui.pending = {} BY DEF Init
  <2> QED BY <2>1 DEF Reaching, Sends, NoOrphanedPending
<1>2. Base /\ Messages /\ (Base /\ Messages)' /\ Reaching /\ [Next]_vars => Reaching' BY ReachStep
<1>3. Reaching => NoOrphanedPending BY DEF Reaching
<1> QED BY <1>1, <1>2, <1>3, SessionHolds, PTL DEF Spec

---------------------------------------------------------------------------
(* What is taken for resumed.                                              *)

\* u reaches the server before r; the i-th event gives a task to a controller
\* that waits for it.
Before(u, r) == (u \in Written /\ r \in Queued) \/ Earlier(wire, u, r) \/ Ahead(cmds, u, r)
Grants(i) ==
    /\ i \in DOMAIN evq /\ evq[i].kind = "ok" /\ evq[i].req \in ui.pending
    /\ evq[i].req.kind \in {"open", "resume", "start", "fork"}

\* A task whose release is pending is resumed, and nothing else about its
\* subscription is pending.
Alone ==
    \A u \in ui.pending : u.kind = "unsub" =>
      /\ u.thread \in ui.resumed
      /\ \A r \in ui.pending : r.thread = u.thread /\ r.kind \in {"open", "resume", "unsub"} => r = u

\* A task resumed and no longer streamed: its release has been answered.
Leaving ==
    \A t \in ui.resumed \ subs :
      \E r \in Answered : r \in ui.pending /\ r.kind = "unsub" /\ r.thread = t

\* A task given is streamed; a new one has never been released, and what made
\* it is the first to give it.
Granted == \A i \in DOMAIN evq : Grants(i) => evq[i].thread \in subs
Newborn ==
    \A i \in DOMAIN evq : Grants(i) /\ evq[i].req.kind \in {"start", "fork"} =>
      /\ evq[i].thread \notin ui.resumed
      /\ \A u \in ui.pending \cup Queued \cup Written \cup Answered :
           u.kind = "unsub" => u.thread # evq[i].thread
      /\ \A j \in DOMAIN evq : Grants(j) /\ evq[j].thread = evq[i].thread => i <= j

\* A release issued before a disconnection that is still on its way is served
\* before the task is opened again.
Overtaken ==
    \A u \in Queued \cup Written : u.kind = "unsub" /\ u \notin ui.pending =>
      /\ u.thread \notin ui.resumed
      /\ \A r \in ui.pending : r.kind \in {"open", "resume"} /\ r.thread = u.thread => Before(u, r)

Live   == Alone /\ Leaving /\ Granted /\ Newborn /\ Overtaken
Living == Sends(cmds) /\ (Undrained("disconnected") \/ Live)

LEMMA AheadIn == ASSUME NEW q, NEW a, NEW b, Ahead(q, a, b) PROVE a \in In(q) /\ b \in In(q)
BY InAt DEF Ahead

LEMMA BeforeIs == ASSUME NEW u, NEW r, Before(u, r) PROVE r \in Queued \cup Written
BY AheadIn, QueuedIs DEF Before, Earlier, Among

\* The events that are left, and what the first one did to what is pending.
Shift(d) ==
    /\ d \in {0, 1}
    /\ \A i \in DOMAIN evq' : i \in Nat /\ i >= 1 /\ i + d \in DOMAIN evq /\ evq'[i] = evq[i + d]
Comes(u, d) ==
    \/ Same(u) /\ Answered \cap ui.pending \subseteq Answered'
    \/ /\ d = 1 /\ 1 \in DOMAIN evq /\ evq[1].kind \in AnswerKinds /\ Answers(u, evq[1])
       /\ Answered \cap ui.pending \subseteq Answered' \cup {evq[1].req}

LEMMA Remains ==
    ASSUME Base, NEW N, NEW u, NEW T, NEW d, Issued(N, u, T), Shift(d), Comes(u, d)
    PROVE  /\ Answered' \subseteq Answered /\ u.pending \subseteq ui.pending
           /\ \A i \in DOMAIN evq' : Grants(i)' => Grants(i + d)
           /\ Written' = Written /\ wire' = wire /\ subs' = subs /\ Queued' = Queued \cup N
           /\ ui'.pending = u.pending \cup N /\ ui'.resumed = u.resumed
           /\ N \cap (ui.pending \cup Queued \cup Written \cup Answered) = {}
<1>1. Answered' \subseteq Answered BY DEF Shift, Answered, AnswerKinds
<1>2. u.pending \subseteq ui.pending BY DEF Comes, Same, Answers
<1>3. /\ wire' = wire /\ subs' = subs /\ Queued' = Queued \cup N
      /\ ui'.pending = u.pending \cup N /\ ui'.resumed = u.resumed
      /\ N \cap (ui.pending \cup Queued \cup Written \cup Answered) = {}
  BY DEF Issued, Like, serverVars
<1>4. Written' = Written BY <1>3 DEF Written
<1>5. ASSUME NEW i \in DOMAIN evq', Grants(i)' PROVE Grants(i + d)
  <2>1. i + d \in DOMAIN evq /\ evq'[i] = evq[i + d] BY DEF Shift
  <2>2. evq[i + d].req \in Answered BY <1>5, <2>1 DEF Grants, Answered, AnswerKinds
  <2>3. evq[i + d].req \in u.pending BY <1>3, <1>5, <2>1, <2>2 DEF Grants
  <2> QED BY <1>2, <1>5, <2>1, <2>3 DEF Grants
<1> QED BY <1>1, <1>2, <1>3, <1>4, <1>5

\* The task a controller takes for resumed on an event is streamed, and no
\* release of it is on its way.
LEMMA Taking ==
    ASSUME Base, Live, NEW e, 1 \in DOMAIN evq, e = evq[1], e.kind = "ok", e.req \in ui.pending,
           e.req.kind \in {"open", "resume", "start", "fork"}
    PROVE  /\ e.thread \in subs
           /\ \A w \in Queued \cup Written : w.kind = "unsub" /\ w \notin ui.pending => w.thread # e.thread
           /\ \A i \in DOMAIN evq : i > 1 /\ Grants(i) /\ evq[i].req.kind \in {"start", "fork"} =>
                evq[i].thread # e.thread
<1>1. Grants(1) BY DEF Grants
<1>2. e.thread \in subs BY <1>1 DEF Live, Granted
<1>3. ASSUME NEW w \in Queued \cup Written, w.kind = "unsub", w \notin ui.pending, w.thread = e.thread PROVE FALSE
  <2>1. e.req.kind \in {"open", "resume"} BY <1>1, <1>3 DEF Live, Newborn
  <2>2. e.req.thread = e.thread BY <2>1 DEF Base, About
  <2>3. Before(w, e.req) BY <1>3, <2>1, <2>2 DEF Live, Overtaken
  <2>4. e.req \in Answered BY DEF Answered, AnswerKinds
  <2> QED BY <2>3, <2>4, BeforeIs DEF Base, Placed
<1>4. ASSUME NEW i \in DOMAIN evq, i > 1, Grants(i), evq[i].req.kind \in {"start", "fork"}, evq[i].thread = e.thread
      PROVE  FALSE
  <2>1. i <= 1 BY <1>1, <1>4 DEF Live, Newborn
  <2>2. i \in Nat
    <3>1. DOMAIN evq = 1..Len(evq) BY LenProperties DEF Base, TypeOK
    <3> QED BY <3>1
  <2> QED BY <2>1, <2>2, <1>4
<1> QED BY <1>2, <1>3, <1>4

LEMMA BeforeStays ==
    ASSUME Base, NEW N, NEW u, NEW T, Issued(N, u, T), NEW w \in Queued \cup Written, NEW r,
           r \in N \/ Before(w, r)
    PROVE  Before(w, r)'
<1>1. /\ Queued' = Queued \cup N /\ wire' = wire
      /\ \A a, b \in Queued : Ahead(cmds, a, b) => Ahead(cmds, a, b)'
      /\ \A a \in Queued, b \in N : Ahead(cmds, a, b)'
  BY DEF Issued, serverVars
<1>2. Written' = Written BY <1>1 DEF Written
<1>3. CASE r \in N BY <1>1, <1>2, <1>3 DEF Before
<1>4. CASE w \in Written /\ r \in Queued BY <1>1, <1>2, <1>4 DEF Before
<1>5. CASE Earlier(wire, w, r)
  <2>1. Earlier(wire, w, r)' BY <1>1, <1>5 DEF Earlier
  <2> QED BY <2>1 DEF Before
<1>6. CASE Ahead(cmds, w, r)
  <2>1. w \in Queued /\ r \in Queued BY <1>6, AheadIn, QueuedIs
  <2> QED BY <2>1, <1>1, <1>6 DEF Before
<1> QED BY <1>3, <1>4, <1>5, <1>6 DEF Before

LEMMA LiveController ==
    ASSUME Base, Live, NEW N, NEW u, NEW T, NEW d, Issued(N, u, T), Shift(d), Comes(u, d)
    PROVE  Live'
<1>1. /\ Answered' \subseteq Answered /\ u.pending \subseteq ui.pending
      /\ Written' = Written /\ wire' = wire /\ subs' = subs /\ Queued' = Queued \cup N
      /\ ui'.pending = u.pending \cup N /\ ui'.resumed = u.resumed
      /\ N \cap (ui.pending \cup Queued \cup Written \cup Answered) = {}
  BY Remains
<1>2. \A i \in DOMAIN evq' : Grants(i)' => Grants(i + d) BY Remains
<1>3. \A i \in DOMAIN evq' : i \in Nat /\ i >= 1 /\ i + d \in DOMAIN evq /\ evq'[i] = evq[i + d] BY DEF Shift
<1>4. \A r \in N : Fit(r, u, T) BY DEF Issued
<1>5. Single(N) BY DEF Issued
<1>6. PICK e : e = evq[1] OBVIOUS
<1>7. CASE Same(u) /\ Answered \cap ui.pending \subseteq Answered'
  <2>1. u.pending = ui.pending /\ u.resumed = ui.resumed BY <1>7 DEF Same
  <2>2. Alone' BY <2>1, <1>1, <1>4, <1>5 DEF Live, Alone, Fit, Single
  <2>3. Leaving' BY <2>1, <1>1, <1>7 DEF Live, Leaving
  <2>4. Granted' BY <1>1, <1>2, <1>3 DEF Live, Granted
  <2>5. Newborn'
    <3> SUFFICES ASSUME NEW i \in DOMAIN evq', Grants(i)', evq'[i].req.kind \in {"start", "fork"}
                 PROVE  /\ evq'[i].thread \notin ui'.resumed
                        /\ \A w \in ui'.pending \cup Queued' \cup Written' \cup Answered' :
                             w.kind = "unsub" => w.thread # evq'[i].thread
                        /\ \A j \in DOMAIN evq' : Grants(j)' /\ evq'[j].thread = evq'[i].thread => i <= j
      BY DEF Newborn
    <3>1. i + d \in DOMAIN evq /\ evq'[i] = evq[i + d] /\ Grants(i + d) BY <1>2, <1>3
    <3>2. /\ evq[i + d].thread \notin ui.resumed
          /\ \A w \in ui.pending \cup Queued \cup Written \cup Answered :
               w.kind = "unsub" => w.thread # evq[i + d].thread
          /\ \A j \in DOMAIN evq : Grants(j) /\ evq[j].thread = evq[i + d].thread => i + d <= j
      BY <3>1 DEF Live, Newborn
    <3>3. \A w \in N : w.kind = "unsub" => w.thread \in ui.resumed BY <1>4, <2>1 DEF Fit
    <3>4. ASSUME NEW j \in DOMAIN evq', Grants(j)', evq'[j].thread = evq'[i].thread PROVE i <= j
      <4>1. i + d <= j + d BY <3>1, <3>2, <3>4, <1>2, <1>3
      <4>2. i \in Nat /\ j \in Nat /\ d \in Nat BY <1>3 DEF Shift
      <4> QED BY <4>1, <4>2
    <3> QED BY <3>1, <3>2, <3>3, <3>4, <1>1, <2>1
  <2>6. Overtaken'
    <3> SUFFICES ASSUME NEW w \in Queued' \cup Written', w.kind = "unsub", w \notin ui'.pending
                 PROVE  /\ w.thread \notin ui'.resumed
                        /\ \A r \in ui'.pending : r.kind \in {"open", "resume"} /\ r.thread = w.thread => Before(w, r)'
      BY DEF Overtaken
    <3>1. w \in Queued \cup Written /\ w \notin ui.pending BY <1>1, <2>1
    <3>2. /\ w.thread \notin ui.resumed
          /\ \A r \in ui.pending : r.kind \in {"open", "resume"} /\ r.thread = w.thread => Before(w, r)
      BY <3>1 DEF Live, Overtaken
    <3> QED BY <3>1, <3>2, <1>1, <2>1, BeforeStays
  <2> QED BY <2>2, <2>3, <2>4, <2>5, <2>6 DEF Live
<1>8. CASE /\ d = 1 /\ 1 \in DOMAIN evq /\ e.kind \in AnswerKinds /\ Answers(u, e)
           /\ Answered \cap ui.pending \subseteq Answered' \cup {e.req}
  <2>1. e.req \in ui.pending /\ u.pending = ui.pending \ {e.req} BY <1>8 DEF Answers
  <2>2. e.req \in Answered BY <1>6, <1>8 DEF Answered
  <2>3. \/ e.req.kind # "unsub" /\ u.resumed = ui.resumed
        \/ /\ e.kind = "ok" /\ e.req.kind \in {"open", "resume", "start", "fork"}
           /\ u.resumed = ui.resumed \cup {e.thread}
        \/ e.req.kind = "unsub" /\ u.resumed = ui.resumed \ {e.req.thread}
    BY <1>8 DEF Answers
  <2>4. e.kind = "ok" /\ e.req.kind \in {"open", "resume", "start", "fork"} =>
          /\ e.thread \in subs
          /\ \A w \in Queued \cup Written : w.kind = "unsub" /\ w \notin ui.pending => w.thread # e.thread
          /\ \A i \in DOMAIN evq : i > 1 /\ Grants(i) /\ evq[i].req.kind \in {"start", "fork"} =>
               evq[i].thread # e.thread
    BY <1>6, <1>8, <2>1, Taking
  <2>5. Alone'
    <3> SUFFICES ASSUME NEW w \in ui'.pending, w.kind = "unsub"
                 PROVE  /\ w.thread \in ui'.resumed
                        /\ \A r \in ui'.pending :
                             r.thread = w.thread /\ r.kind \in {"open", "resume", "unsub"} => r = w
      BY DEF Alone
    <3>1. CASE w \in N
      <4>1. /\ w.thread \in u.resumed
            /\ \A q \in u.pending : q.thread = w.thread => q.kind \notin {"open", "resume", "unsub"}
        BY <3>1, <1>4 DEF Fit
      <4>2. \A q \in N : q.kind \in {"open", "resume"} => q.thread \notin u.resumed BY <1>4 DEF Fit
      <4>3. \A q \in N : q.kind = "unsub" /\ q.thread = w.thread => q = w BY <3>1, <1>5 DEF Single
      <4> QED BY <4>1, <4>2, <4>3, <1>1
    <3>2. CASE w \in u.pending
      <4>1. w \in ui.pending /\ w # e.req BY <3>2, <2>1
      <4>2. /\ w.thread \in ui.resumed
            /\ \A r \in ui.pending : r.thread = w.thread /\ r.kind \in {"open", "resume", "unsub"} => r = w
        BY <4>1 DEF Live, Alone
      <4>3. w.thread \in u.resumed BY <4>1, <4>2, <2>1, <2>3
      <4>4. \A q \in N : q.kind \in {"open", "resume"} => q.thread \notin u.resumed BY <1>4 DEF Fit
      <4>5. \A q \in N : q.kind = "unsub" => q.thread # w.thread BY <3>2, <1>4 DEF Fit
      <4> QED BY <4>2, <4>3, <4>4, <4>5, <1>1
    <3> QED BY <3>1, <3>2, <1>1
  <2>6. Leaving'
    <3> SUFFICES ASSUME NEW t \in ui'.resumed \ subs'
                 PROVE  \E r \in Answered' : r \in ui'.pending /\ r.kind = "unsub" /\ r.thread = t
      BY DEF Leaving
    <3>1. t \in ui.resumed \ subs /\ ~(e.req.kind = "unsub" /\ e.req.thread = t) BY <1>1, <2>3, <2>4
    <3>2. PICK r \in Answered : r \in ui.pending /\ r.kind = "unsub" /\ r.thread = t BY <3>1 DEF Live, Leaving
    <3> QED BY <3>1, <3>2, <1>1, <1>8, <2>1
  <2>7. Granted' BY <1>1, <1>2, <1>3 DEF Live, Granted
  <2>8. Newborn'
    <3> SUFFICES ASSUME NEW i \in DOMAIN evq', Grants(i)', evq'[i].req.kind \in {"start", "fork"}
                 PROVE  /\ evq'[i].thread \notin ui'.resumed
                        /\ \A w \in ui'.pending \cup Queued' \cup Written' \cup Answered' :
                             w.kind = "unsub" => w.thread # evq'[i].thread
                        /\ \A j \in DOMAIN evq' : Grants(j)' /\ evq'[j].thread = evq'[i].thread => i <= j
      BY DEF Newborn
    <3>1. i + d \in DOMAIN evq /\ evq'[i] = evq[i + d] /\ Grants(i + d) /\ i + d > 1
      <4>1. i \in Nat /\ i >= 1 /\ d = 1 BY <1>3, <1>8
      <4>2. i + d > 1 BY <4>1
      <4> QED BY <4>2, <1>2, <1>3
    <3>2. /\ evq[i + d].thread \notin ui.resumed
          /\ \A w \in ui.pending \cup Queued \cup Written \cup Answered :
               w.kind = "unsub" => w.thread # evq[i + d].thread
          /\ \A j \in DOMAIN evq : Grants(j) /\ evq[j].thread = evq[i + d].thread => i + d <= j
      BY <3>1 DEF Live, Newborn
    <3>3. evq'[i].thread \notin u.resumed BY <3>1, <3>2, <2>3, <2>4
    <3>4. \A w \in N : w.kind = "unsub" => w.thread \in u.resumed BY <1>4 DEF Fit
    <3>5. ASSUME NEW j \in DOMAIN evq', Grants(j)', evq'[j].thread = evq'[i].thread PROVE i <= j
      <4>1. i + d <= j + d BY <3>1, <3>2, <3>5, <1>2, <1>3
      <4>2. i \in Nat /\ j \in Nat /\ d \in Nat BY <1>3 DEF Shift
      <4> QED BY <4>1, <4>2
    <3> QED BY <3>1, <3>2, <3>3, <3>4, <3>5, <1>1
  <2>9. Overtaken'
    <3> SUFFICES ASSUME NEW w \in Queued' \cup Written', w.kind = "unsub", w \notin ui'.pending
                 PROVE  /\ w.thread \notin ui'.resumed
                        /\ \A r \in ui'.pending : r.kind \in {"open", "resume"} /\ r.thread = w.thread => Before(w, r)'
      BY DEF Overtaken
    <3>1. w \in Queued \cup Written /\ w # e.req BY <1>1, <2>2 DEF Base, Placed
    <3>2. w \notin ui.pending BY <3>1, <1>1, <2>1
    <3>3. /\ w.thread \notin ui.resumed
          /\ \A r \in ui.pending : r.kind \in {"open", "resume"} /\ r.thread = w.thread => Before(w, r)
      BY <3>1, <3>2 DEF Live, Overtaken
    <3>4. w.thread \notin u.resumed BY <3>1, <3>2, <3>3, <2>3, <2>4
    <3> QED BY <3>1, <3>3, <3>4, <1>1, BeforeStays
  <2> QED BY <2>5, <2>6, <2>7, <2>8, <2>9 DEF Live
<1> QED BY <1>6, <1>7, <1>8 DEF Comes

\* A disconnection empties what is pending and what is taken for resumed.
LEMMA LiveCleared ==
    ASSUME Base, NEW N, NEW u, NEW T, Issued(N, u, T), Answered' \subseteq Answered,
           u.pending = {}, u.resumed = {}
    PROVE  Live'
<1>1. /\ wire' = wire /\ subs' = subs /\ Queued' = Queued \cup N
      /\ ui'.pending = N /\ ui'.resumed = {}
      /\ N \cap (ui.pending \cup Queued \cup Written \cup Answered) = {}
      /\ \A r \in N : Fit(r, u, T)
  BY DEF Issued, Like, serverVars
<1>2. Written' = Written BY <1>1 DEF Written
<1>3. \A i \in DOMAIN evq' : ~Grants(i)'
  <2> SUFFICES ASSUME NEW i \in DOMAIN evq', Grants(i)' PROVE FALSE OBVIOUS
  <2>1. evq'[i].req \in Answered' /\ evq'[i].req \in N BY <1>1 DEF Grants, Answered, AnswerKinds
  <2> QED BY <2>1, <1>1
<1>4. Alone' BY <1>1 DEF Alone, Fit
<1>5. Leaving' BY <1>1 DEF Leaving
<1>6. Granted' /\ Newborn' BY <1>3 DEF Granted, Newborn
<1>7. Overtaken'
  <2> SUFFICES ASSUME NEW w \in Queued' \cup Written', w \notin N, NEW r \in N PROVE Before(w, r)'
    BY <1>1 DEF Overtaken
  <2>1. w \in Queued \cup Written BY <1>1, <1>2
  <2> QED BY <2>1, BeforeStays
<1> QED BY <1>4, <1>5, <1>6, <1>7 DEF Live

LEMMA LivingUser == ASSUME Base, Living, MaxReconnects = 0, User PROVE Living'
<1>1. PICK u, T, N : evq' = evq /\ Issued(N, u, T) /\ Same(u) BY UserIsDone DEF UserDone
<1>2. Sends(cmds') BY <1>1 DEF Issued, Living
<1>3. Sends(cmds)' BY <1>2
<1>4. Undrained("disconnected")' = Undrained("disconnected") BY <1>1 DEF Undrained
<1>5. Live => Live'
  <2> SUFFICES ASSUME Live PROVE Live' OBVIOUS
  <2>1. DOMAIN evq = 1..Len(evq) BY LenProperties DEF Base, TypeOK
  <2>2. \A i \in DOMAIN evq : i \in Nat /\ i >= 1 /\ i + 0 = i BY <2>1
  <2>3. Shift(0) BY <2>2, <1>1 DEF Shift
  <2>4. Comes(u, 0) BY <1>1 DEF Comes, Answered
  <2> QED BY <2>3, <2>4, <1>1, LiveController
<1> QED BY <1>3, <1>4, <1>5 DEF Living

LEMMA LivingHandle == ASSUME Base, Messages, Living, MaxReconnects = 0, Handle PROVE Living'
<1>1. PICK u, T, N : Issued(N, u, T) /\ Handled(u, Head(evq)) BY HandleIsDone DEF HandleDone
<1>2. evq # <<>> /\ evq' = Tail(evq) BY HandleIsDone DEF HandleDone
<1>3. PICK e : e = Head(evq) OBVIOUS
<1>4. Sends(cmds') BY <1>1 DEF Issued, Living
<1>5. Sends(cmds)' BY <1>4
<1>6. e.kind # "disconnected" /\ Undrained("disconnected") => Undrained("disconnected")' BY <1>2, <1>3, Consumed
<1>7. \A r \in Answered : r \in Answered' \/ (e.kind \in AnswerKinds /\ r = e.req) BY <1>2, <1>3, Consumed
<1>8. Shift(1) /\ e = evq[1] /\ 1 \in DOMAIN evq
  <2>1. PICK s : s = evq OBVIOUS
  <2>2. PICK t : t = Tail(s) OBVIOUS
  <2>3. s \in Seq(Event) /\ s # <<>> /\ evq' = t BY <2>1, <2>2, <1>2 DEF Base, TypeOK
  <2>4. /\ Head(s) = s[1] /\ 1 \in DOMAIN s
        /\ \A i \in DOMAIN t : i \in Nat /\ i >= 1 /\ i + 1 \in DOMAIN s /\ t[i] = s[i + 1]
    BY <2>2, <2>3, Taken
  <2> QED BY <2>1, <2>3, <2>4, <1>3 DEF Shift
<1>9. CASE e.kind = "disconnected"
  <2>1. u.pending = {} /\ u.resumed = {} BY <1>9, <1>1, <1>3 DEF Handled, AnswerKinds
  <2>2. Answered' \subseteq Answered BY <1>8 DEF Shift, Answered, AnswerKinds
  <2> QED BY <2>1, <2>2, <1>1, <1>5, LiveCleared DEF Living
<1>10. CASE e.kind # "disconnected" /\ Live
  <2>1. Comes(u, 1)
    <3>1. CASE Same(u) /\ (e.kind \notin AnswerKinds \/ e.req \notin ui.pending) BY <3>1, <1>7 DEF Comes
    <3>2. CASE e.kind \in AnswerKinds /\ Answers(u, e) BY <3>2, <1>7, <1>8 DEF Comes
    <3> QED BY <3>1, <3>2, <1>1, <1>3, <1>10 DEF Handled
  <2> QED BY <2>1, <1>1, <1>5, <1>8, <1>10, LiveController DEF Living
<1> QED BY <1>5, <1>6, <1>9, <1>10 DEF Living

\* What the hub and the app-server say: t is what r is given, if anything is.
Says(k, r, t) ==
    /\ \A i \in DOMAIN evq : i \in Nat /\ i <= Len(evq) /\ i \in DOMAIN evq' /\ evq'[i] = evq[i]
    /\ \A i \in DOMAIN evq' :
         \/ i \in DOMAIN evq \/ evq'[i].kind # "ok"
         \/ evq'[i] = Answer(k, r, t) /\ i = Len(evq) + 1
    /\ Len(evq) \in Nat

LEMMA Saying ==
    ASSUME Base, NEW k, NEW r, NEW t, Says(k, r, t)
    PROVE  /\ Answered \subseteq Answered' /\ \A x : Undrained(x) => Undrained(x)'
           /\ \A i \in DOMAIN evq' : evq'[i].kind = "ok" /\ i \notin DOMAIN evq =>
                i = Len(evq) + 1 /\ k = "ok" /\ evq'[i].req = r /\ evq'[i].thread = t
<1>1. Answered \subseteq Answered' BY DEF Says, Answered, AnswerKinds
<1>2. \A x : Undrained(x) => Undrained(x)' BY DEF Says, Undrained
<1>3. \A i \in DOMAIN evq' : evq'[i].kind = "ok" /\ i \notin DOMAIN evq =>
                i = Len(evq) + 1 /\ k = "ok" /\ evq'[i].req = r /\ evq'[i].thread = t
  BY DEF Says, Answer
<1> QED BY <1>1, <1>2, <1>3

\* One event after the others.
LEMMA SaysOne ==
    ASSUME Base, NEW es \in Seq(Event), evq' = evq \o es, NEW k, NEW r, NEW t,
           \A j \in DOMAIN es : es[j].kind # "ok" \/ (es[j] = Answer(k, r, t) /\ j = 1)
    PROVE  Says(k, r, t) /\ evq' \in Seq(Event)
<1>1. evq \in Seq(Event) BY DEF Base, TypeOK
<1>2. /\ evq' \in Seq(Event) /\ Len(evq) \in Nat
      /\ \A i \in DOMAIN evq : i \in Nat /\ i <= Len(evq) /\ i \in DOMAIN evq' /\ evq'[i] = evq[i]
  BY <1>1, Emitted
<1>3. \A j \in DOMAIN es : evq'[Len(evq) + j] = es[j] BY <1>1, Emitted
<1>4. \A i \in DOMAIN evq' : i \in DOMAIN evq \/ \E j \in DOMAIN es : i = Len(evq) + j BY <1>1, Emitted
<1>5. ASSUME NEW i \in DOMAIN evq', i \notin DOMAIN evq, evq'[i].kind = "ok"
      PROVE  evq'[i] = Answer(k, r, t) /\ i = Len(evq) + 1
  <2>1. PICK j \in DOMAIN es : i = Len(evq) + j BY <1>4, <1>5
  <2>2. evq'[i] = es[j] BY <2>1, <1>3
  <2>3. es[j] = Answer(k, r, t) /\ j = 1 BY <2>2, <1>5
  <2> QED BY <2>1, <2>2, <2>3
<1> QED BY <1>2, <1>5 DEF Says

\* The stream of no task ends with it.
LEMMA LiveSaid ==
    ASSUME Base, Live, NEW k, NEW r, NEW t, Says(k, r, t), ui' = ui,
           Queued' \cup Written' \subseteq Queued \cup Written,
           Answered' \subseteq Answered \cup Written,
           k = "ok" /\ r.kind \in {"start", "fork"} => t \notin existing
    PROVE  /\ Alone' /\ Newborn'
           /\ /\ subs \subseteq subs'
              /\ k = "ok" /\ r.kind \in {"open", "resume", "start", "fork"} => t \in subs'
              => Leaving' /\ Granted'
<1>1. Answered \subseteq Answered' BY Saying
<1>2. \A i \in DOMAIN evq' : evq'[i].kind = "ok" /\ i \notin DOMAIN evq =>
                i = Len(evq) + 1 /\ k = "ok" /\ evq'[i].req = r /\ evq'[i].thread = t
  BY Saying
<1>3. \A i \in DOMAIN evq : i \in Nat /\ i <= Len(evq) /\ i \in DOMAIN evq' /\ evq'[i] = evq[i] BY DEF Says
<1>4. Len(evq) \in Nat BY DEF Says
<1>5. \A i \in DOMAIN evq : Grants(i)' <=> Grants(i) BY <1>3 DEF Grants
<1>6. Alone' BY DEF Live, Alone
<1>7. subs \subseteq subs' => Leaving' BY <1>1 DEF Live, Leaving
<1>8. ASSUME subs \subseteq subs', k = "ok" /\ r.kind \in {"open", "resume", "start", "fork"} => t \in subs'
      PROVE  Granted'
  <2> SUFFICES ASSUME NEW i \in DOMAIN evq', Grants(i)' PROVE evq'[i].thread \in subs' BY DEF Granted
  <2>1. CASE i \in DOMAIN evq BY <2>1, <1>3, <1>5, <1>8 DEF Live, Granted
  <2>2. CASE i \notin DOMAIN evq BY <2>2, <1>2, <1>8 DEF Grants
  <2> QED BY <2>1, <2>2
<1>9. Newborn'
  <2> SUFFICES ASSUME NEW i \in DOMAIN evq', Grants(i)', evq'[i].req.kind \in {"start", "fork"}
               PROVE  /\ evq'[i].thread \notin ui.resumed
                      /\ \A w \in ui.pending \cup Queued' \cup Written' \cup Answered' :
                           w.kind = "unsub" => w.thread # evq'[i].thread
                      /\ \A j \in DOMAIN evq' : Grants(j)' /\ evq'[j].thread = evq'[i].thread => i <= j
    BY DEF Newborn
  <2>1. CASE i \in DOMAIN evq
    <3>1. evq'[i] = evq[i] /\ Grants(i) BY <2>1, <1>3, <1>5
    <3>2. /\ evq[i].thread \notin ui.resumed
          /\ \A w \in ui.pending \cup Queued \cup Written \cup Answered :
               w.kind = "unsub" => w.thread # evq[i].thread
          /\ \A j \in DOMAIN evq : Grants(j) /\ evq[j].thread = evq[i].thread => i <= j
      BY <2>1, <3>1 DEF Live, Newborn
    <3>3. \A j \in DOMAIN evq' : Grants(j)' /\ j \notin DOMAIN evq => i <= j
      <4>1. \A j \in DOMAIN evq' : Grants(j)' /\ j \notin DOMAIN evq => j = Len(evq) + 1 BY <1>2 DEF Grants
      <4>2. i \in Nat /\ i <= Len(evq) BY <2>1, <1>3
      <4>3. i <= Len(evq) + 1 BY <4>2, <1>4
      <4> QED BY <4>1, <4>3
    <3> QED BY <3>1, <3>2, <3>3, <1>3, <1>5
  <2>2. CASE i \notin DOMAIN evq
    <3>1. /\ i = Len(evq) + 1 /\ k = "ok" /\ evq'[i].thread = t /\ r.kind \in {"start", "fork"}
      BY <2>2, <1>2 DEF Grants
    <3>2. t \notin existing BY <3>1
    <3>3. t \notin ui.resumed BY <3>2 DEF Base, About
    <3>4. \A w \in ui.pending \cup Queued \cup Written \cup Answered : w.kind = "unsub" => w.thread # t
      BY <3>2 DEF Base, About, Formed
    <3>5. \A j \in DOMAIN evq : Grants(j) => evq[j].thread # t BY <3>2 DEF Base, About, Grants
    <3>6. \A j \in DOMAIN evq' : Grants(j)' /\ evq'[j].thread = t => j = i
      <4> SUFFICES ASSUME NEW j \in DOMAIN evq', Grants(j)', evq'[j].thread = t PROVE j = i OBVIOUS
      <4>1. j \notin DOMAIN evq BY <3>5, <1>3, <1>5
      <4> QED BY <4>1, <3>1, <1>2 DEF Grants
    <3>7. i <= i BY <3>1, <1>4
    <3> QED BY <3>1, <3>3, <3>4, <3>6, <3>7
  <2> QED BY <2>1, <2>2
<1> QED BY <1>6, <1>7, <1>8, <1>9

\* Nothing leaves the channels.
LEMMA LiveCalm ==
    ASSUME Base, Live, NEW k, NEW r, NEW t, Says(k, r, t), k # "ok", ui' = ui, cmds' = cmds, wire' = wire, subs' = subs,
           Answered' = Answered
    PROVE  Live'
<1>1. Queued' = Queued /\ Written' = Written BY DEF Queued, Written
<1>2. Alone' /\ Leaving' /\ Granted' /\ Newborn'
  <2>1. Queued' \cup Written' \subseteq Queued \cup Written /\ Answered' \subseteq Answered \cup Written
        /\ subs \subseteq subs'
    BY <1>1
  <2>2. ~(k = "ok" /\ r.kind \in {"open", "resume", "start", "fork"}) /\ ~(k = "ok" /\ r.kind \in {"start", "fork"})
    OBVIOUS
  <2>3. Alone' /\ Newborn' BY <2>1, <2>2, LiveSaid
  <2>4. Leaving' /\ Granted' BY <2>1, <2>2, LiveSaid
  <2> QED BY <2>3, <2>4
<1>3. \A w, x : Before(w, x) => Before(w, x)' BY <1>1 DEF Before, Earlier, Ahead, At
<1>4. Overtaken' BY <1>1, <1>3 DEF Live, Overtaken
<1> QED BY <1>2, <1>4 DEF Live

\* An answer takes what it answers off the wire, and nothing that was written
\* before it about the same task.
LEMMA OvertakenServed ==
    ASSUME Base, Live, NEW r, NEW es, Serve(r, es, TRUE)
    PROVE  Overtaken'
<1>1. /\ r \in Written /\ Written' = Written \ {r} /\ ui' = ui /\ cmds' = cmds
      /\ \A a, b : a # r /\ b # r /\ Earlier(wire, a, b) => Earlier(wire, a, b)'
      /\ \A a : Earlier(wire, a, r) => a.thread # r.thread
  BY Served
<1>2. Queued' = Queued BY <1>1 DEF Queued
<1>3. r \notin Queued BY <1>1 DEF Base, Placed
<1> SUFFICES ASSUME NEW w \in Queued' \cup Written', w.kind = "unsub", w \notin ui.pending
             PROVE  /\ w.thread \notin ui.resumed
                    /\ \A x \in ui.pending : x.kind \in {"open", "resume"} /\ x.thread = w.thread => Before(w, x)'
  BY <1>1 DEF Overtaken
<1>4. w \in Queued \cup Written /\ w # r BY <1>1, <1>2, <1>3
<1>5. w.thread \notin ui.resumed BY <1>4 DEF Live, Overtaken
<1>6. ASSUME NEW x \in ui.pending, x.kind \in {"open", "resume"}, x.thread = w.thread PROVE Before(w, x)'
  <2>1. Before(w, x) BY <1>4, <1>6 DEF Live, Overtaken
  <2>2. CASE w \in Written /\ x \in Queued BY <2>2, <1>1, <1>2, <1>4 DEF Before
  <2>3. CASE Earlier(wire, w, x)
    <3>1. x # r BY <2>3, <1>1, <1>6
    <3> QED BY <3>1, <2>3, <1>1, <1>4 DEF Before
  <2>4. CASE Ahead(cmds, w, x)
    <3>1. Ahead(cmds, w, x)' BY <2>4, <1>1 DEF Ahead, At
    <3> QED BY <3>1 DEF Before
  <2> QED BY <2>1, <2>2, <2>3, <2>4 DEF Before
<1> QED BY <1>5, <1>6

\* es answers r with t, or with no task at all.
Speaks(es, k, r, t) ==
    /\ es \in Seq(Event)
    /\ \A j \in DOMAIN es : es[j].kind # "ok" \/ (es[j] = Answer(k, r, t) /\ j = 1)
    /\ \A j \in DOMAIN es : es[j].kind \in AnswerKinds => es[j].req = r
    /\ k = "ok" /\ r.kind \in {"start", "fork"} => t \notin existing
Streams(k, r, t) ==
    /\ subs \subseteq subs'
    /\ k = "ok" /\ r.kind \in {"open", "resume", "start", "fork"} => t \in subs'

LEMMA LiveServedParts ==
    ASSUME Base, Live, NEW r, NEW es, Serve(r, es, TRUE), NEW k, NEW t, Speaks(es, k, r, t)
    PROVE  /\ Alone' /\ Newborn' /\ Overtaken' /\ Says(k, r, t) /\ Answered \subseteq Answered'
           /\ Streams(k, r, t) => Leaving' /\ Granted'
<1>1. r \in Written /\ Written' = Written \ {r} /\ evq' = evq \o es /\ ui' = ui /\ cmds' = cmds BY Served
<1>2. Says(k, r, t)
  <2>1. es \in Seq(Event) /\ \A j \in DOMAIN es : es[j].kind # "ok" \/ (es[j] = Answer(k, r, t) /\ j = 1)
    BY DEF Speaks
  <2> QED BY <2>1, <1>1, SaysOne
<1>3. Queued' = Queued BY <1>1 DEF Queued
<1>4. Answered' \subseteq Answered \cup Written
  <2>1. evq \in Seq(Event) /\ es \in Seq(Event) BY DEF Base, TypeOK, Speaks
  <2>2. Answered' = Answered \cup {es[j].req : j \in {i \in DOMAIN es : es[i].kind \in AnswerKinds}}
    BY <2>1, <1>1, EmittedAnswers
  <2>3. {es[j].req : j \in {i \in DOMAIN es : es[i].kind \in AnswerKinds}} \subseteq {r} BY DEF Speaks
  <2> QED BY <2>2, <2>3, <1>1
<1>5. Queued' \cup Written' \subseteq Queued \cup Written BY <1>1, <1>3
<1>6. ui' = ui BY <1>1
<1>7. k = "ok" /\ r.kind \in {"start", "fork"} => t \notin existing BY DEF Speaks
<1>8. Alone' /\ Newborn' BY <1>2, <1>4, <1>5, <1>6, <1>7, LiveSaid
<1>9. Streams(k, r, t) => Leaving' /\ Granted' BY <1>2, <1>4, <1>5, <1>6, <1>7, LiveSaid DEF Streams
<1>10. Overtaken' BY OvertakenServed
<1>11. Answered \subseteq Answered' BY <1>2, Saying
<1> QED BY <1>2, <1>8, <1>9, <1>10, <1>11

LEMMA LiveServed ==
    ASSUME Base, Live, NEW r, NEW es, Serve(r, es, TRUE), NEW k, NEW t, Speaks(es, k, r, t), Streams(k, r, t)
    PROVE  Live'
BY LiveServedParts DEF Live

LEMMA LiveServeTask == ASSUME Base, Live, ServeTask PROVE Live'
<1>1. PICK r \in Written, t \in Threads :
        /\ (r.kind \in {"open", "resume"} /\ t = r.thread) \/ (r.kind \in {"start", "fork"} /\ t \notin existing)
        /\ subs' = subs \cup {t}
        /\ \E es : /\ Serve(r, es, TRUE)
                   /\ es = <<Answer("ok", r, t)>> \/ es = <<[kind |-> "oversized"]>>
  BY ServeTaskCases
<1>2. PICK es : /\ Serve(r, es, TRUE)
                /\ es = <<Answer("ok", r, t)>> \/ es = <<[kind |-> "oversized"]>>
  BY <1>1
<1>3. r \in Request BY <1>2, Served
<1>4. PICK k \in AnswerKinds : k = "ok" BY DEF AnswerKinds
<1>5. /\ es \in Seq(Event)
      /\ \A j \in DOMAIN es : es[j].kind # "ok" \/ (es[j] = Answer(k, r, t) /\ j = 1)
      /\ \A j \in DOMAIN es : es[j].kind \in AnswerKinds => es[j].req = r
  <2>1. CASE es = <<Answer("ok", r, t)>>
    <3>1. es \in Seq(Event) /\ DOMAIN es = {1} /\ es[1] = Answer(k, r, t) BY <2>1, <1>3, <1>4, OneAnswer
    <3>2. es[1].req = r BY <3>1 DEF Answer
    <3> QED BY <3>1, <3>2
  <2>2. CASE es = <<[kind |-> "oversized"]>>
    <3>1. PICK e : e = [kind |-> "oversized"] OBVIOUS
    <3>2. e \in Event /\ e.kind \notin AnswerKinds BY <3>1, Lifecycle DEF AnswerKinds
    <3>3. es \in Seq(Event) /\ DOMAIN es = {1} /\ es[1] = e BY <3>1, <3>2, <2>2
    <3> QED BY <3>2, <3>3 DEF AnswerKinds
  <2> QED BY <1>2, <2>1, <2>2
<1>6. Speaks(es, k, r, t) BY <1>1, <1>5 DEF Speaks
<1>7. Streams(k, r, t) BY <1>1 DEF Streams
<1> QED BY <1>2, <1>6, <1>7, LiveServed

LEMMA LiveRefuse == ASSUME Base, Live, Refuse PROVE Live'
<1>1. PICK r \in Written, k \in {"error", "malformed"} :
        Serve(r, <<Answer(k, r, r.thread)>>, TRUE) /\ subs' = subs
  BY RefuseCases
<1>2. PICK t : t = r.thread OBVIOUS
<1>3. PICK es : es = <<Answer(k, r, t)>> OBVIOUS
<1>4. Serve(r, es, TRUE) BY <1>1, <1>2, <1>3
<1>5. r \in Request BY <1>4, Served
<1>6. t \in Threads \cup {NoThread} /\ k \in AnswerKinds /\ k # "ok" BY <1>2, <1>5 DEF Request, AnswerKinds
<1>7. es \in Seq(Event) /\ DOMAIN es = {1} /\ es[1] = Answer(k, r, t) BY <1>3, <1>5, <1>6, OneAnswer
<1>8. es[1].req = r BY <1>7 DEF Answer
<1>9. /\ \A j \in DOMAIN es : es[j].kind # "ok" \/ (es[j] = Answer(k, r, t) /\ j = 1)
      /\ \A j \in DOMAIN es : es[j].kind \in AnswerKinds => es[j].req = r
  BY <1>7, <1>8
<1>10. Speaks(es, k, r, t) BY <1>6, <1>7, <1>9 DEF Speaks
<1>11. Streams(k, r, t) BY <1>1, <1>6 DEF Streams
<1> QED BY <1>4, <1>10, <1>11, LiveServed

LEMMA LiveServeSend == ASSUME Base, Live, ServeSend PROVE Live'
<1>1. PICK r \in Written :
        /\ r.kind = "send" /\ subs' = subs
        /\ Serve(r, <<Answer("ok", r, r.thread)>>
                      \o (IF r.thread \in subs THEN <<[kind |-> "started", thread |-> r.thread]>>
                          ELSE <<>>), TRUE)
  BY ServeSendCases
<1>2. PICK t : t = r.thread OBVIOUS
<1>3. PICK es : es = <<Answer("ok", r, t)>> \o (IF r.thread \in subs THEN <<[kind |-> "started", thread |-> t]>> ELSE <<>>)
  OBVIOUS
<1>4. Serve(r, es, TRUE) BY <1>1, <1>2, <1>3
<1>5. r \in Request BY <1>4, Served
<1>6. t \in Threads BY <1>1, <1>2, Plain DEF Base, About, Formed, TypeOK
<1>7. /\ es \in Seq(Event) /\ 1 \in DOMAIN es /\ es[1] = Answer("ok", r, t)
      /\ \A j \in DOMAIN es : j = 1 \/ es[j].kind = "started"
  <2>1. CASE r.thread \in subs BY <2>1, <1>3, <1>5, <1>6, TwoAnswer
  <2>2. CASE r.thread \notin subs BY <2>2, <1>3, <1>5, <1>6, TwoAnswer
  <2> QED BY <2>1, <2>2
<1>8. PICK k \in AnswerKinds : k = "ok" BY DEF AnswerKinds
<1>9. es[1].req = r BY <1>7 DEF Answer
<1>10. /\ \A j \in DOMAIN es : es[j].kind # "ok" \/ (es[j] = Answer(k, r, t) /\ j = 1)
       /\ \A j \in DOMAIN es : es[j].kind \in AnswerKinds => es[j].req = r
  BY <1>7, <1>8, <1>9 DEF AnswerKinds
<1>11. Speaks(es, k, r, t) BY <1>1, <1>7, <1>10 DEF Speaks
<1>12. Streams(k, r, t) BY <1>1 DEF Streams
<1> QED BY <1>4, <1>11, <1>12, LiveServed

\* A task is no longer streamed: the controller has let go of it, or learns
\* from the answer that it has to.
LEMMA LiveServeUnsubscribe == ASSUME Base, Live, ServeUnsubscribe PROVE Live'
<1>1. PICK r \in Written :
        r.kind = "unsub" /\ Serve(r, <<Answer("ok", r, r.thread)>>, TRUE) /\ subs' = subs \ {r.thread}
  BY ServeUnsubscribeCases
<1>2. PICK t : t = r.thread OBVIOUS
<1>3. PICK k \in AnswerKinds : k = "ok" BY DEF AnswerKinds
<1>4. PICK es : es = <<Answer(k, r, t)>> OBVIOUS
<1>5. Serve(r, es, TRUE) BY <1>1, <1>2, <1>3, <1>4
<1>6. r \in Request /\ ui' = ui /\ evq' = evq \o es BY <1>5, Served
<1>7. t \in Threads \cup {NoThread} BY <1>2, <1>6 DEF Request
<1>8. es \in Seq(Event) /\ DOMAIN es = {1} /\ es[1] = Answer(k, r, t) BY <1>4, <1>6, <1>7, OneAnswer
<1>9. es[1].req = r /\ es[1].kind \in AnswerKinds BY <1>8 DEF Answer
<1>10. /\ \A j \in DOMAIN es : es[j].kind # "ok" \/ (es[j] = Answer(k, r, t) /\ j = 1)
       /\ \A j \in DOMAIN es : es[j].kind \in AnswerKinds => es[j].req = r
  BY <1>8, <1>9
<1>11. Speaks(es, k, r, t) BY <1>1, <1>8, <1>10 DEF Speaks
<1>12. Alone' /\ Newborn' /\ Overtaken' /\ Says(k, r, t) /\ Answered \subseteq Answered'
  BY <1>5, <1>11, LiveServedParts
<1>13. r \in Answered'
  <2>1. 1 \in DOMAIN es BY <1>8
  <2> QED BY <2>1, <1>6, <1>8, <1>9, FurtherOn
<1>14. r \notin ui.pending => t \notin ui.resumed BY <1>1, <1>2 DEF Live, Overtaken
<1>15. Leaving' BY <1>1, <1>2, <1>6, <1>12, <1>13, <1>14 DEF Live, Leaving
<1>16. \A i \in DOMAIN evq : Grants(i) => evq[i].thread # t
  <2> SUFFICES ASSUME NEW i \in DOMAIN evq, Grants(i), evq[i].thread = t PROVE FALSE OBVIOUS
  <2>1. evq[i].req \in Answered /\ evq[i].req \in ui.pending BY DEF Grants, Answered, AnswerKinds
  <2>2. evq[i].req.kind \in {"open", "resume"} BY <1>1, <1>2 DEF Live, Newborn, Grants
  <2>3. evq[i].req.thread = t BY <2>2 DEF Base, About, Grants
  <2>4. CASE r \in ui.pending
    <3>1. evq[i].req = r BY <2>1, <2>2, <2>3, <2>4, <1>1, <1>2 DEF Live, Alone
    <3> QED BY <3>1, <2>2, <1>1
  <2>5. CASE r \notin ui.pending
    <3>1. Before(r, evq[i].req) BY <2>1, <2>2, <2>3, <2>5, <1>1, <1>2 DEF Live, Overtaken
    <3> QED BY <3>1, <2>1, BeforeIs DEF Base, Placed
  <2> QED BY <2>4, <2>5
<1>17. Granted'
  <2> SUFFICES ASSUME NEW i \in DOMAIN evq', Grants(i)' PROVE evq'[i].thread \in subs' BY DEF Granted
  <2>1. CASE i \in DOMAIN evq
    <3>1. evq'[i] = evq[i] BY <2>1, <1>12 DEF Says
    <3>2. Grants(i) BY <2>1, <3>1, <1>6 DEF Grants
    <3> QED BY <2>1, <3>1, <3>2, <1>1, <1>2, <1>16 DEF Live, Granted
  <2>2. CASE i \notin DOMAIN evq
    <3>1. evq'[i].req = r BY <2>2, <1>12, Saying DEF Grants
    <3> QED BY <3>1, <1>1 DEF Grants
  <2> QED BY <2>1, <2>2
<1> QED BY <1>12, <1>15, <1>17 DEF Live

LEMMA LivingCalm ==
    ASSUME Base, Living, NEW e \in Event, e.kind \notin AnswerKinds, evq' = evq \/ evq' = evq \o <<e>>,
           ui' = ui, cmds' = cmds, wire' = wire, subs' = subs
    PROVE  Living'
<1>1. PICK k : k = "error" OBVIOUS
<1>2. Answered' = Answered /\ (Undrained("disconnected") => Undrained("disconnected")') /\ Says(k, e, e)
  <2>1. CASE evq' = evq
    <3>1. DOMAIN evq = 1..Len(evq) /\ Len(evq) \in Nat BY LenProperties DEF Base, TypeOK
    <3>2. \A i \in DOMAIN evq : i \in Nat /\ i <= Len(evq) BY <3>1
    <3> QED BY <2>1, <3>1, <3>2 DEF Answered, Undrained, Says
  <2>2. CASE evq' = evq \o <<e>>
    <3>1. PICK es : es = <<e>> OBVIOUS
    <3>2. es \in Seq(Event) /\ DOMAIN es = {1} /\ es[1] = e /\ evq' = evq \o es BY <2>2, <3>1
    <3>3. \A j \in DOMAIN es : es[j].kind # "ok" \/ (es[j] = Answer(k, e, e) /\ j = 1) BY <3>2 DEF AnswerKinds
    <3>4. Says(k, e, e) BY <3>2, <3>3, SaysOne
    <3>5. Answered' = Answered BY <2>2, EmittedOne
    <3> QED BY <3>4, <3>5, Saying
  <2> QED BY <2>1, <2>2
<1>3. Live => Live' BY <1>1, <1>2, LiveCalm
<1>4. cmds' = cmds /\ Sends(cmds) BY DEF Living
<1>5. Sends(cmds)' BY <1>4
<1> QED BY <1>2, <1>3, <1>5 DEF Living

\* A request is written: what was before it still is, and it is before what
\* is left in the channel.
LEMMA LiveWrite == ASSUME Base, Live, WriteRequest PROVE Live'
<1>1. PICK r \in Queued : Dequeue(r) /\ wire' = Append(wire, r) BY DEF WriteRequest
<1>2. ui' = ui /\ evq' = evq /\ subs' = subs BY DEF WriteRequest
<1>3. /\ Queued' = Queued \ {r} /\ \A a \in Queued : ~Ahead(cmds, a, r)
      /\ \A a, b \in Queued \ {r} : Ahead(cmds, a, b) => Ahead(cmds, a, b)'
  BY <1>1, Dequeuing
<1>4. r \in Request /\ r \notin Written
  <2>1. r \in In(cmds) /\ cmds \in Seq(Batch) BY QueuedIs DEF Base, TypeOK
  <2>2. PICK i \in DOMAIN cmds : At(cmds, r, i) BY <2>1, InAt
  <2>3. cmds[i] \in Batch BY <2>1
  <2>4. r \in Request BY <2>2, <2>3 DEF At, Batch
  <2> QED BY <2>4 DEF Base, Placed
<1>5. /\ Written' = Written \cup {r}
      /\ \A a, b : Earlier(wire, a, b) => Earlier(wire, a, b)'
      /\ \A a \in Written : Earlier(wire, a, r)'
  <2>1. PICK w : w = wire OBVIOUS
  <2>2. PICK t : t = Append(w, r) OBVIOUS
  <2>3. w \in Seq(Request) /\ Distinct(w) /\ r \notin Among(w) BY <1>4, <2>1, QueuedIs DEF Base, TypeOK, Placed
  <2>4. Among(t) = Among(w) \cup {r} BY <1>4, <2>2, <2>3, Extended
  <2>5. \A a, b : Earlier(w, a, b) => Earlier(t, a, b) BY <1>4, <2>2, <2>3, Extended
  <2>6. \A a \in Among(w) : Earlier(t, a, r) BY <1>4, <2>2, <2>3, Extended
  <2>7. wire' = t BY <1>1, <2>1, <2>2
  <2>8. Written' = Among(wire') BY DEF Written, Among
  <2>9. \A a, b : Earlier(wire, a, b)' <=> Earlier(t, a, b) BY <2>7 DEF Earlier
  <2> QED BY <2>1, <2>4, <2>5, <2>6, <2>7, <2>8, <2>9, QueuedIs
<1>6. Answered' = Answered BY <1>2 DEF Answered
<1>7. \A i : Grants(i)' <=> Grants(i) BY <1>2 DEF Grants
<1>8. Queued' \cup Written' = Queued \cup Written BY <1>3, <1>5
<1>9. Alone' /\ Leaving' /\ Granted' BY <1>2, <1>6, <1>7 DEF Live, Alone, Leaving, Granted
<1>10. Newborn' BY <1>2, <1>6, <1>7, <1>8 DEF Live, Newborn
<1>11. \A w \in Queued \cup Written : \A x : Before(w, x) => Before(w, x)'
  <2> SUFFICES ASSUME NEW w \in Queued \cup Written, NEW x, Before(w, x) PROVE Before(w, x)' OBVIOUS
  <2>1. CASE w \in Written /\ x \in Queued
    <3>1. CASE x = r BY <2>1, <3>1, <1>5 DEF Before
    <3>2. CASE x # r BY <2>1, <3>2, <1>3, <1>5 DEF Before
    <3> QED BY <3>1, <3>2
  <2>2. CASE Earlier(wire, w, x) BY <2>2, <1>5 DEF Before
  <2>3. CASE Ahead(cmds, w, x)
    <3>1. w \in Queued /\ x \in Queued BY <2>3, AheadIn, QueuedIs
    <3>2. x # r BY <2>3, <3>1, <1>3
    <3>3. CASE w = r BY <3>1, <3>2, <3>3, <1>3, <1>5 DEF Before
    <3>4. CASE w # r BY <2>3, <3>1, <3>2, <3>4, <1>3 DEF Before
    <3> QED BY <3>3, <3>4
  <2> QED BY <2>1, <2>2, <2>3 DEF Before
<1>12. Overtaken' BY <1>2, <1>8, <1>11 DEF Live, Overtaken
<1> QED BY <1>9, <1>10, <1>12 DEF Live

\* A transport that starts drops a request: it drops those before it first.
LEMMA LiveDrop == ASSUME Base, Live, DropRequest PROVE Live'
<1>1. PICK r \in Queued : Dequeue(r) BY DEF DropRequest
<1>2. ui' = ui /\ evq' = evq /\ subs' = subs /\ wire' = wire /\ phase = "init" BY DEF DropRequest, serverVars
<1>3. /\ Queued' = Queued \ {r} /\ \A a \in Queued : ~Ahead(cmds, a, r)
      /\ \A a, b \in Queued \ {r} : Ahead(cmds, a, b) => Ahead(cmds, a, b)'
  BY <1>1, Dequeuing
<1>4. Written' = {} /\ Written = {} /\ \A a, b : ~Earlier(wire, a, b)
  <2>1. wire = <<>> BY <1>2 DEF Base, Placed
  <2> QED BY <2>1, <1>2 DEF Written, Earlier
<1>5. Answered' = Answered BY <1>2 DEF Answered
<1>6. \A i : Grants(i)' <=> Grants(i) BY <1>2 DEF Grants
<1>7. Alone' /\ Leaving' /\ Granted' BY <1>2, <1>5, <1>6 DEF Live, Alone, Leaving, Granted
<1>8. Newborn' BY <1>2, <1>3, <1>4, <1>5, <1>6 DEF Live, Newborn
<1>9. \A w \in Queued \ {r} : \A x : Before(w, x) => Before(w, x)'
  <2> SUFFICES ASSUME NEW w \in Queued \ {r}, NEW x, Before(w, x) PROVE Before(w, x)' OBVIOUS
  <2>1. Ahead(cmds, w, x) BY <1>4 DEF Before
  <2>2. x \in Queued /\ x # r BY <2>1, <1>3, AheadIn, QueuedIs
  <2> QED BY <2>1, <2>2, <1>3 DEF Before
<1>10. Overtaken' BY <1>2, <1>3, <1>4, <1>9 DEF Live, Overtaken
<1> QED BY <1>7, <1>8, <1>10 DEF Live

LEMMA LivingServer == ASSUME Base, Living, Server PROVE Living'
<1>1. ASSUME NEW r, NEW es \in Seq(Event), Serve(r, es, TRUE)
      PROVE  Sends(cmds)' /\ (Undrained("disconnected") => Undrained("disconnected")')
  <2>1. evq' = evq \o es /\ cmds' = cmds BY <1>1, Served
  <2>2. Undrained("disconnected") => Undrained("disconnected")' BY <2>1, FurtherOn
  <2>3. cmds' = cmds /\ Sends(cmds) BY <2>1 DEF Living
  <2> QED BY <2>2, <2>3
<1>2. CASE ServeTask \/ ServeSend \/ ServeUnsubscribe \/ Refuse
  <2>1. \E r, es : es \in Seq(Event) /\ Serve(r, es, TRUE)
    <3>1. ASSUME NEW r \in Written, NEW k \in AnswerKinds, NEW t \in Threads \cup {NoThread}
          PROVE  <<Answer(k, r, t)>> \in Seq(Event)
      <4>1. r \in Request BY DEF Base, TypeOK, Written
      <4>2. PICK a : a = Answer(k, r, t) OBVIOUS
      <4>3. a \in Event BY <4>1, <4>2, Lifecycle
      <4> QED BY <4>2, <4>3
    <3>2. ASSUME NEW r \in Written PROVE r.thread \in Threads \cup {NoThread} /\ r \in Request
      <4>1. r \in Request BY DEF Base, TypeOK, Written
      <4> QED BY <4>1 DEF Request
    <3>3. PICK k \in AnswerKinds : k = "ok" BY DEF AnswerKinds
    <3>4. CASE ServeTask
      <4>1. PICK r \in Written, t \in Threads :
              \E es : /\ Serve(r, es, TRUE)
                      /\ es = <<Answer(k, r, t)>> \/ es = <<[kind |-> "oversized"]>>
        BY <3>3, <3>4, ServeTaskCases
      <4>2. <<[kind |-> "oversized"]>> \in Seq(Event) BY Lifecycle
      <4>3. <<Answer(k, r, t)>> \in Seq(Event) BY <3>1
      <4> QED BY <4>1, <4>2, <4>3
    <3>5. CASE ServeSend
      <4>1. PICK r \in Written :
              /\ r.kind = "send"
              /\ Serve(r, <<Answer("ok", r, r.thread)>>
                            \o (IF r.thread \in subs THEN <<[kind |-> "started", thread |-> r.thread]>>
                                ELSE <<>>), TRUE)
        BY <3>5, ServeSendCases
      <4>2. PICK t : t = r.thread OBVIOUS
      <4>3. PICK es : es = <<Answer("ok", r, t)>>
                            \o (IF r.thread \in subs THEN <<[kind |-> "started", thread |-> t]>> ELSE <<>>)
        OBVIOUS
      <4>4. t \in Threads /\ r \in Request BY <4>1, <4>2, <3>2, Plain DEF Base, About, Formed, TypeOK
      <4>5. CASE r.thread \in subs
        <5>1. es \in Seq(Event) BY <4>5, <4>3, <4>4, TwoAnswer
        <5> QED BY <5>1, <4>1, <4>2, <4>3
      <4>6. CASE r.thread \notin subs
        <5>1. es \in Seq(Event) BY <4>6, <4>3, <4>4, TwoAnswer
        <5> QED BY <5>1, <4>1, <4>2, <4>3
      <4> QED BY <4>5, <4>6
    <3>6. CASE ServeUnsubscribe
      <4>1. PICK r \in Written : Serve(r, <<Answer(k, r, r.thread)>>, TRUE) BY <3>3, <3>6, ServeUnsubscribeCases
      <4> QED BY <4>1, <3>1, <3>2
    <3>7. CASE Refuse
      <4>1. PICK r \in Written, b \in {"error", "malformed"} : Serve(r, <<Answer(b, r, r.thread)>>, TRUE)
        BY <3>7, RefuseCases
      <4>2. b \in AnswerKinds BY DEF AnswerKinds
      <4> QED BY <4>1, <4>2, <3>1, <3>2
    <3> QED BY <1>2, <3>4, <3>5, <3>6, <3>7
  <2>2. Live => Live' BY <1>2, LiveServeTask, LiveServeSend, LiveServeUnsubscribe, LiveRefuse
  <2> QED BY <1>1, <2>1, <2>2 DEF Living
<1>3. ASSUME NEW k \in {"started", "completed"}, NEW t \in Threads, Notify(k, t) PROVE Living'
  <2>1. PICK e : e = [kind |-> k, thread |-> t] OBVIOUS
  <2>2. e \in Event /\ e.kind \notin AnswerKinds BY <2>1, Lifecycle DEF AnswerKinds
  <2>3. evq' = evq \/ evq' = evq \o <<e>> BY <2>1, <1>3 DEF Notify, Emits
  <2>4. ui' = ui /\ cmds' = cmds /\ wire' = wire /\ subs' = subs BY <1>3 DEF Notify
  <2> QED BY <2>2, <2>3, <2>4, LivingCalm
<1>4. CASE RemoteTurn \/ EndTurn
  <2>1. turns \subseteq Threads /\ existing \subseteq Threads BY DEF Base, TypeOK
  <2> QED BY <2>1, <1>3, <1>4 DEF RemoteTurn, EndTurn
<1> QED BY <1>2, <1>4 DEF Server

LEMMA LivingHub == ASSUME Base, Messages, Living, Hub PROVE Living'
<1>1. ASSUME Connect PROVE Living'
  <2>1. PICK e : e = [kind |-> "connecting"] OBVIOUS
  <2>2. e \in Event /\ e.kind \notin AnswerKinds BY <2>1, Lifecycle DEF AnswerKinds
  <2>3. evq' = evq \o <<e>> /\ ui' = ui /\ cmds' = cmds /\ wire' = wire /\ subs' = subs
    BY <2>1, <1>1 DEF Connect, Emits
  <2> QED BY <2>2, <2>3, LivingCalm
<1>2. ASSUME InitOk PROVE Living'
  <2>1. PICK e : e = [kind |-> "ready"] OBVIOUS
  <2>2. e \in Event /\ e.kind \notin AnswerKinds BY <2>1, Lifecycle DEF AnswerKinds
  <2>3. evq' = evq \o <<e>> /\ ui' = ui /\ cmds' = cmds /\ wire' = wire /\ subs' = subs
    BY <2>1, <1>2 DEF InitOk, Emits, serverVars
  <2> QED BY <2>2, <2>3, LivingCalm
<1>3. ASSUME Lost PROVE Living'
  <2>1. PICK e : e = [kind |-> "disconnected"] OBVIOUS
  <2>2. PICK es : es = <<e>> OBVIOUS
  <2>3. e \in Event /\ es \in Seq(Event) /\ 1 \in DOMAIN es /\ es[1].kind = "disconnected" BY <2>1, <2>2, Lifecycle
  <2>4. evq' = evq \o es /\ cmds' = cmds BY <2>1, <2>2, <1>3 DEF Lost, Emits
  <2>5. Undrained("disconnected")'
    <3>1. Undrained(es[1].kind)' BY <2>3, <2>4, FurtherOn
    <3> QED BY <3>1, <2>3
  <2>6. cmds' = cmds /\ Sends(cmds) BY <2>4 DEF Living
  <2>7. Sends(cmds)' BY <2>6
  <2> QED BY <2>5, <2>7 DEF Living
<1>4. ASSUME WriteRequest PROVE Living'
  <2>1. PICK r \in Queued : Dequeue(r) /\ wire' = Append(wire, r) BY <1>4 DEF WriteRequest
  <2>2. Sends(cmds)' BY <2>1, Dequeuing DEF Living
  <2>3. Undrained("disconnected")' = Undrained("disconnected") BY <1>4 DEF WriteRequest, Undrained
  <2> QED BY <2>2, <2>3, <1>4, LiveWrite DEF Living
<1>5. ASSUME DropRequest PROVE Living'
  <2>1. PICK r \in Queued : Dequeue(r) BY <1>5 DEF DropRequest
  <2>2. Sends(cmds)' BY <2>1, Dequeuing DEF Living
  <2>3. Undrained("disconnected")' = Undrained("disconnected") BY <1>5 DEF DropRequest, Undrained
  <2> QED BY <2>2, <2>3, <1>5, LiveDrop DEF Living
<1>6. ASSUME Reconnect PROVE FALSE
  <2>1. cmds # <<>> /\ Head(cmds) = ReconnectCommand /\ cmds \in Seq(Batch) BY <1>6 DEF Reconnect, Base, TypeOK
  <2>2. PICK q : q = cmds OBVIOUS
  <2>3. 1 \in DOMAIN q /\ Head(q) = q[1] BY <2>1, <2>2, Taken
  <2>4. Head(cmds).op = "send" BY <2>2, <2>3 DEF Living, Sends
  <2> QED BY <2>1, <2>4 DEF ReconnectCommand
<1> QED BY <1>1, <1>2, <1>3, <1>4, <1>5, <1>6 DEF Hub

LEMMA LivingStep == Base /\ Messages /\ Living /\ MaxReconnects = 0 /\ [Next]_vars => Living'
<1> SUFFICES ASSUME Base, Messages, Living, MaxReconnects = 0, [Next]_vars PROVE Living' OBVIOUS
<1>1. CASE UNCHANGED vars
  <2>1. ui' = ui /\ cmds' = cmds /\ evq' = evq /\ wire' = wire /\ subs' = subs BY <1>1 DEF vars, serverVars
  <2>2. PICK e : e = [kind |-> "ready"] OBVIOUS
  <2>3. e \in Event /\ e.kind \notin AnswerKinds BY <2>2, Lifecycle DEF AnswerKinds
  <2> QED BY <2>1, <2>3, LivingCalm
<1> QED BY <1>1, LivingUser, LivingHandle, LivingHub, LivingServer DEF Next

\* Without commanded reconnects, whatever the transport, and whatever is lost,
\* refused or too long to be read: once the controller has heard of every
\* disconnection, a task it takes for resumed is one the server streams to
\* this connection, or the answer to its release is there to be read.
THEOREM ResumedLive == MaxReconnects = 0 => (Spec => []ResumedIsLive)
<1> SUFFICES ASSUME MaxReconnects = 0 PROVE Spec => []ResumedIsLive OBVIOUS
<1>1. Init => Living
  <2> SUFFICES ASSUME Init PROVE Living OBVIOUS
  <2>1. cmds = <<>> /\ evq = <<>> /\ wire = <<>> /\ ui.pending = {} /\ ui.resumed = {} BY DEF Init
  <2>2. Queued = {} /\ Written = {} BY <2>1 DEF Queued, Written
  <2>3. Live BY <2>1, <2>2 DEF Live, Alone, Leaving, Granted, Newborn, Overtaken
  <2> QED BY <2>1, <2>3 DEF Living, Sends
<1>2. Base /\ Messages /\ (Base /\ Messages)' /\ Living /\ [Next]_vars => Living' BY LivingStep
<1>3. Living => ResumedIsLive BY DEF Living, Live, Leaving, ResumedIsLive
<1> QED BY <1>1, <1>2, <1>3, SessionHolds, PTL DEF Spec

---------------------------------------------------------------------------
(* The handoff, when no connection is lost: the direct app-server's turns  *)
(* are shown as running, or the answers that tell of them are on their     *)
(* way, and what is on its way is pending.                                 *)

\* No end of a turn of t is on its way; an answer to a message to t is, and no
\* end behind it.
Unended(t) == \A j \in DOMAIN evq : ~Finishes(evq[j], t)
Awaited(t) == \E i \in DOMAIN evq :
    /\ Accepts(evq[i], t)
    /\ \A j \in DOMAIN evq : i < j => ~Finishes(evq[j], t)
Known(t)   == Awaited(t) \/ (t \in ui.running /\ Unended(t))

AnsweredOnce == \A i, j \in DOMAIN evq :
    evq[i].kind \in AnswerKinds /\ evq[j].kind \in AnswerKinds /\ evq[i].req = evq[j].req => i = j
Expected == Queued \cup Written \cup Answered \subseteq ui.pending
Informed ==
    /\ ~Undrained("disconnected") /\ AnsweredOnce /\ Expected
    /\ mode = "direct" => \A t \in turns : Known(t)

\* The controller takes the first event off the stream.
LEMMA ReadOn ==
    ASSUME Base, evq # <<>>, evq' = Tail(evq), NEW e, e = Head(evq)
    PROVE  /\ \A t : Unended(t) => Unended(t)' /\ ~Finishes(e, t)
           /\ \A t : Awaited(t) => Awaited(t)' \/ (Accepts(e, t) /\ Unended(t)')
           /\ ~Undrained("disconnected") => ~Undrained("disconnected")' /\ e.kind # "disconnected"
           /\ AnsweredOnce => AnsweredOnce' /\ (e.kind \in AnswerKinds => e.req \notin Answered')
<1>1. PICK s : s = evq OBVIOUS
<1>2. PICK x : x = Tail(s) OBVIOUS
<1>3. s \in Seq(Event) /\ s # <<>> /\ evq' = x BY <1>1, <1>2 DEF Base, TypeOK
<1>4. /\ e = s[1] /\ 1 \in DOMAIN s
      /\ \A i \in DOMAIN x : i \in Nat /\ i >= 1 /\ i + 1 \in DOMAIN s /\ x[i] = s[i + 1]
      /\ \A i \in DOMAIN s : i \in Nat /\ i >= 1 /\ (i = 1 \/ i - 1 \in DOMAIN x)
  BY <1>1, <1>2, <1>3, Taken
<1>5. ASSUME NEW t, Unended(t) PROVE Unended(t)' /\ ~Finishes(e, t)
  <2>1. \A i \in DOMAIN s : ~Finishes(s[i], t) BY <1>1, <1>5 DEF Unended
  <2>2. \A i \in DOMAIN x : ~Finishes(x[i], t) BY <2>1, <1>4
  <2> QED BY <2>1, <2>2, <1>3, <1>4 DEF Unended
<1>6. ASSUME NEW t, Awaited(t) PROVE Awaited(t)' \/ (Accepts(e, t) /\ Unended(t)')
  <2>1. PICK i \in DOMAIN s : Accepts(s[i], t) /\ \A j \in DOMAIN s : i < j => ~Finishes(s[j], t)
    BY <1>1, <1>6 DEF Awaited
  <2>2. CASE i = 1
    <3>1. \A j \in DOMAIN x : 1 < j + 1 BY <1>4
    <3>2. \A j \in DOMAIN x : ~Finishes(x[j], t) BY <3>1, <2>1, <2>2, <1>4
    <3>3. Unended(t)' BY <3>2, <1>3 DEF Unended
    <3> QED BY <3>3, <2>1, <2>2, <1>4
  <2>3. CASE i # 1
    <3>1. i - 1 \in DOMAIN x /\ (i - 1) + 1 = i BY <2>3, <1>4
    <3>2. Accepts(x[i - 1], t) BY <3>1, <2>1, <1>4
    <3>3. ASSUME NEW j \in DOMAIN x, i - 1 < j PROVE ~Finishes(x[j], t)
      <4>1. i < j + 1 /\ j + 1 \in DOMAIN s /\ x[j] = s[j + 1] BY <3>3, <1>4
      <4> QED BY <4>1, <2>1
    <3>4. Awaited(t)' BY <3>1, <3>2, <3>3, <1>3 DEF Awaited
    <3> QED BY <3>4
  <2> QED BY <2>2, <2>3
<1>7. ASSUME ~Undrained("disconnected") PROVE ~Undrained("disconnected")' /\ e.kind # "disconnected"
  <2>1. \A i \in DOMAIN s : s[i].kind # "disconnected" BY <1>1, <1>7 DEF Undrained
  <2>2. \A i \in DOMAIN x : x[i].kind # "disconnected" BY <2>1, <1>4
  <2> QED BY <2>1, <2>2, <1>3, <1>4 DEF Undrained
<1>8. ASSUME AnsweredOnce PROVE AnsweredOnce' /\ (e.kind \in AnswerKinds => e.req \notin Answered')
  <2>1. \A i, j \in DOMAIN s :
          s[i].kind \in AnswerKinds /\ s[j].kind \in AnswerKinds /\ s[i].req = s[j].req => i = j
    BY <1>1, <1>8 DEF AnsweredOnce
  <2>2. ASSUME NEW i \in DOMAIN x, NEW j \in DOMAIN x,
               x[i].kind \in AnswerKinds, x[j].kind \in AnswerKinds, x[i].req = x[j].req
        PROVE  i = j
    <3>1. i + 1 = j + 1 BY <2>1, <2>2, <1>4
    <3> QED BY <3>1, <1>4
  <2>3. ASSUME NEW i \in DOMAIN x, x[i].kind \in AnswerKinds, e.kind \in AnswerKinds PROVE x[i].req # e.req
    <3>1. i + 1 \in DOMAIN s /\ x[i] = s[i + 1] /\ i + 1 # 1 BY <1>4
    <3> QED BY <3>1, <2>1, <2>3, <1>4
  <2>4. AnsweredOnce' BY <2>2, <1>3 DEF AnsweredOnce, AnswerKinds
  <2>5. e.kind \in AnswerKinds => e.req \notin Answered' BY <2>3, <1>3 DEF Answered, AnswerKinds
  <2> QED BY <2>4, <2>5
<1> QED BY <1>5, <1>6, <1>7, <1>8

\* The app-server or the hub puts es at its end.
LEMMA SaidMore ==
    ASSUME evq \in Seq(Event), NEW es \in Seq(Event), evq' = evq \o es,
           NEW t, \A j \in DOMAIN es : ~Finishes(es[j], t)
    PROVE  /\ Unended(t) => Unended(t)'
           /\ Awaited(t) \/ (\E j \in DOMAIN es : Accepts(es[j], t)) => Awaited(t)'
<1>1. /\ Len(evq) \in Nat
      /\ \A i \in DOMAIN evq : i \in Nat /\ i <= Len(evq) /\ i \in DOMAIN evq' /\ evq'[i] = evq[i]
      /\ \A j \in DOMAIN es : j \in Nat /\ j >= 1 /\ Len(evq) + j \in DOMAIN evq' /\ evq'[Len(evq) + j] = es[j]
      /\ \A i \in DOMAIN evq' : i \in DOMAIN evq \/ \E j \in DOMAIN es : i = Len(evq) + j
  BY Emitted
<1>2. \A i \in DOMAIN evq' : i \notin DOMAIN evq => ~Finishes(evq'[i], t) BY <1>1
<1>3. Unended(t) => Unended(t)'
  <2> SUFFICES ASSUME Unended(t), NEW i \in DOMAIN evq' PROVE ~Finishes(evq'[i], t) BY DEF Unended
  <2> QED BY <1>1, <1>2 DEF Unended
<1>4. ASSUME Awaited(t) PROVE Awaited(t)'
  <2>1. PICK i \in DOMAIN evq : Accepts(evq[i], t) /\ \A j \in DOMAIN evq : i < j => ~Finishes(evq[j], t)
    BY <1>4 DEF Awaited
  <2>2. i \in DOMAIN evq' /\ Accepts(evq'[i], t) BY <2>1, <1>1
  <2>3. \A j \in DOMAIN evq' : i < j => ~Finishes(evq'[j], t) BY <2>1, <1>1, <1>2
  <2> QED BY <2>2, <2>3 DEF Awaited
<1>5. ASSUME NEW k \in DOMAIN es, Accepts(es[k], t) PROVE Awaited(t)'
  <2>1. PICK i \in DOMAIN evq' : i = Len(evq) + k BY <1>1
  <2>2. Accepts(evq'[i], t) BY <2>1, <1>5, <1>1
  <2>3. \A j \in DOMAIN evq' : i < j => j \notin DOMAIN evq BY <2>1, <1>1
  <2> QED BY <2>2, <2>3, <1>2 DEF Awaited
<1> QED BY <1>3, <1>4, <1>5

LEMMA InformedUser == ASSUME Base, Informed, User PROVE Informed'
<1>1. PICK u, T, N : evq' = evq /\ Issued(N, u, T) /\ Same(u) /\ u.running = ui.running BY UserIsDone DEF UserDone
<1>2. /\ ui'.pending = ui.pending \cup N /\ Queued' = Queued \cup N /\ ui'.running = ui.running
      /\ mode' = mode /\ wire' = wire /\ turns' = turns
  BY <1>1 DEF Issued, Same, Like, hubVars, serverVars
<1>3. Written' = Written /\ Answered' = Answered /\ (Undrained("disconnected")' <=> Undrained("disconnected"))
      /\ (AnsweredOnce' <=> AnsweredOnce)
  BY <1>1, <1>2 DEF Written, Answered, Undrained, AnsweredOnce
<1>4. \A t : Known(t) => Known(t)' BY <1>1, <1>2 DEF Known, Awaited, Unended
<1>5. Expected' BY <1>2, <1>3 DEF Informed, Expected
<1> QED BY <1>2, <1>3, <1>4, <1>5 DEF Informed

LEMMA InformedHandle == ASSUME Base, Messages, Informed, Handle PROVE Informed'
<1>1. PICK u, T, N : Issued(N, u, T) /\ Handled(u, Head(evq)) /\ Shows(u, Head(evq)) BY HandleIsDone DEF HandleDone
<1>2. evq # <<>> /\ evq' = Tail(evq) BY HandleIsDone DEF HandleDone
<1>3. PICK e : e = Head(evq) OBVIOUS
<1>4. /\ ui'.pending = u.pending \cup N /\ Queued' = Queued \cup N /\ ui'.running = u.running
      /\ mode' = mode /\ wire' = wire /\ turns' = turns
  BY <1>1 DEF Issued, Like, hubVars, serverVars
<1>5. Written' = Written /\ Answered' \subseteq Answered BY <1>2, <1>4, Shortened, FewerAnswers DEF Written
<1>6. /\ ~Undrained("disconnected")' /\ e.kind # "disconnected" /\ AnsweredOnce'
      /\ e.kind \in AnswerKinds => e.req \notin Answered' /\ e.req \in Answered
  <2>1. ~Undrained("disconnected") /\ AnsweredOnce BY DEF Informed
  <2>2. ~Undrained("disconnected")' /\ e.kind # "disconnected" BY <2>1, <1>2, <1>3, ReadOn
  <2>3. AnsweredOnce' /\ (e.kind \in AnswerKinds => e.req \notin Answered') BY <2>1, <1>2, <1>3, ReadOn
  <2>4. e.kind \in AnswerKinds => e.req \in Answered BY <1>2, <1>3, Heading
  <2> QED BY <2>2, <2>3, <2>4
<1>7. e.kind \in AnswerKinds => e.req \in ui.pending /\ e.req \notin Queued \cup Written
  BY <1>6 DEF Informed, Expected, Base, Placed
<1>8. Expected'
  <2>1. CASE e.kind \in AnswerKinds
    <3>1. u.pending = ui.pending \ {e.req} BY <2>1, <1>1, <1>3, <1>6, <1>7 DEF Handled, Answers, AnswerKinds
    <3> QED BY <3>1, <2>1, <1>4, <1>5, <1>6, <1>7 DEF Informed, Expected
  <2>2. CASE e.kind \notin AnswerKinds
    <3>1. u.pending = ui.pending BY <2>2, <1>1, <1>3, <1>6 DEF Handled, Same
    <3> QED BY <3>1, <1>4, <1>5 DEF Informed, Expected
  <2> QED BY <2>1, <2>2
<1>9. ASSUME NEW t \in turns, Known(t) PROVE Known(t)'
  <2>1. t \in Threads BY DEF Base, TypeOK
  <2>2. CASE Awaited(t)
    <3>1. Awaited(t)' \/ (Accepts(e, t) /\ Unended(t)') BY <2>2, <1>2, <1>3, ReadOn
    <3>2. Accepts(e, t) => t \in u.running BY <2>1, <1>1, <1>3, <1>7 DEF Shows, Accepts, AnswerKinds
    <3>3. Awaited(t)' \/ (t \in ui'.running /\ Unended(t)') BY <3>1, <3>2, <1>4
    <3> QED BY <3>3 DEF Known
  <2>3. CASE t \in ui.running /\ Unended(t)
    <3>1. Unended(t)' /\ ~Finishes(e, t) BY <2>3, <1>2, <1>3, ReadOn
    <3>2. t \in ui'.running BY <3>1, <2>1, <2>3, <1>1, <1>3, <1>4 DEF Shows
    <3> QED BY <3>1, <3>2 DEF Known
  <2> QED BY <1>9, <2>2, <2>3 DEF Known
<1> QED BY <1>4, <1>6, <1>8, <1>9 DEF Informed

\* A step of the hub or the app-server that puts es on the stream.
LEMMA InformedSaid ==
    ASSUME Base, Informed, NEW es \in Seq(Event), evq' = evq \o es, ui' = ui,
           Queued' \subseteq Queued, Written' \subseteq Queued \cup Written,
           \A j \in DOMAIN es : /\ es[j].kind # "disconnected"
                                /\ es[j].kind \in AnswerKinds => j = 1 /\ es[j].req \in Written,
           mode' = "direct" => \A t \in turns' :
             /\ (mode = "direct" /\ t \in turns) \/ \E j \in DOMAIN es : Accepts(es[j], t)
             /\ \A j \in DOMAIN es : ~Finishes(es[j], t)
    PROVE  Informed'
<1>1. evq \in Seq(Event) BY DEF Base, TypeOK
<1>2. /\ Len(evq) \in Nat
      /\ \A i \in DOMAIN evq : i \in Nat /\ i <= Len(evq) /\ i \in DOMAIN evq' /\ evq'[i] = evq[i]
      /\ \A j \in DOMAIN es : j \in Nat /\ j >= 1 /\ Len(evq) + j \in DOMAIN evq' /\ evq'[Len(evq) + j] = es[j]
      /\ \A i \in DOMAIN evq' : i \in DOMAIN evq \/ \E j \in DOMAIN es : i = Len(evq) + j
  BY <1>1, Emitted
<1>3. ~Undrained("disconnected")'
  <2>1. \A i \in DOMAIN evq : evq[i].kind # "disconnected" BY DEF Informed, Undrained
  <2>2. \A i \in DOMAIN evq' : evq'[i].kind # "disconnected" BY <2>1, <1>2
  <2> QED BY <2>2 DEF Undrained
<1>4. \A i \in DOMAIN evq' : evq'[i].kind \in AnswerKinds =>
        \/ i \in DOMAIN evq /\ evq'[i] = evq[i] /\ evq'[i].req \in Answered
        \/ i = Len(evq) + 1 /\ evq'[i].req \in Written
  <2>1. \A i \in DOMAIN evq : evq[i].kind \in AnswerKinds => evq[i].req \in Answered BY DEF Answered
  <2> QED BY <2>1, <1>2
<1>5. AnsweredOnce'
  <2> SUFFICES ASSUME NEW i \in DOMAIN evq', NEW j \in DOMAIN evq', evq'[i].kind \in AnswerKinds,
                      evq'[j].kind \in AnswerKinds, evq'[i].req = evq'[j].req
               PROVE  i = j
    BY DEF AnsweredOnce, AnswerKinds
  <2>1. evq'[i].req \in Answered => evq'[i].req \notin Written BY DEF Base, Placed
  <2>2. CASE i \in DOMAIN evq /\ j \in DOMAIN evq BY <2>2, <1>2 DEF Informed, AnsweredOnce
  <2>3. CASE i = Len(evq) + 1 /\ j = Len(evq) + 1 BY <2>3
  <2> QED BY <2>1, <2>2, <2>3, <1>4
<1>6. Expected'
  <2>1. \A r \in Answered' : r \in Answered \cup Written BY <1>4 DEF Answered, AnswerKinds
  <2> QED BY <2>1 DEF Informed, Expected
<1>7. ASSUME mode' = "direct", NEW t \in turns' PROVE Known(t)'
  <2>1. \A j \in DOMAIN es : ~Finishes(es[j], t) BY <1>7
  <2>2. Unended(t) => Unended(t)' BY <1>1, <2>1, SaidMore
  <2>3. Awaited(t) \/ (\E j \in DOMAIN es : Accepts(es[j], t)) => Awaited(t)' BY <1>1, <2>1, SaidMore
  <2>4. Known(t) \/ \E j \in DOMAIN es : Accepts(es[j], t) BY <1>7 DEF Informed
  <2> QED BY <2>2, <2>3, <2>4 DEF Known
<1> QED BY <1>3, <1>5, <1>6, <1>7 DEF Informed

\* A step of theirs that puts nothing there, or one event that is no answer.
LEMMA InformedOne ==
    ASSUME Base, Informed, ui' = ui, NEW e \in Event, e.kind \notin AnswerKinds \cup {"disconnected"},
           evq' = evq \/ evq' = evq \o <<e>>,
           Queued' \subseteq Queued, Written' \subseteq Queued \cup Written,
           mode' = "direct" => \A t \in turns' : mode = "direct" /\ t \in turns /\ ~Finishes(e, t)
    PROVE  Informed'
<1>1. evq \in Seq(Event) BY DEF Base, TypeOK
<1>2. ASSUME NEW es \in Seq(Event), evq' = evq \o es, \A j \in DOMAIN es : es[j] = e PROVE Informed'
  <2>1. \A j \in DOMAIN es : /\ es[j].kind # "disconnected"
                             /\ es[j].kind \in AnswerKinds => j = 1 /\ es[j].req \in Written
    BY <1>2
  <2>2. mode' = "direct" => \A t \in turns' :
             /\ (mode = "direct" /\ t \in turns) \/ \E j \in DOMAIN es : Accepts(es[j], t)
             /\ \A j \in DOMAIN es : ~Finishes(es[j], t)
    BY <1>2
  <2> QED BY <2>1, <2>2, <1>2, InformedSaid
<1>3. CASE evq' = evq
  <2>1. PICK es : es = <<>> OBVIOUS
  <2>2. es \in Seq(Event) /\ \A j \in DOMAIN es : es[j] = e BY <2>1
  <2>3. evq' = evq \o es BY <1>1, <1>3, <2>1, ConcatEmptySeq
  <2> QED BY <1>2, <2>2, <2>3
<1>4. CASE evq' = evq \o <<e>>
  <2>1. PICK es : es = <<e>> OBVIOUS
  <2>2. es \in Seq(Event) /\ \A j \in DOMAIN es : es[j] = e BY <2>1
  <2> QED BY <1>2, <1>4, <2>1, <2>2
<1> QED BY <1>3, <1>4

LEMMA InformedHub == ASSUME Base, Messages, Informed, MaxLosses = 0, Hub PROVE Informed'
<1>1. ASSUME Connect PROVE Informed'
  <2>1. PICK e : e = [kind |-> "connecting"] OBVIOUS
  <2>2. e \in Event /\ e.kind \notin AnswerKinds \cup {"disconnected"} /\ \A t : ~Finishes(e, t)
    BY <2>1, Lifecycle DEF AnswerKinds, Finishes
  <2>3. /\ evq' = evq \o <<e>> /\ ui' = ui /\ cmds' = cmds /\ wire' = wire
        /\ turns' = IF mode' = mode THEN turns ELSE {}
    BY <2>1, <1>1 DEF Connect, Emits
  <2>4. Queued' = Queued /\ Written' = Written BY <2>3 DEF Queued, Written
  <2> QED BY <2>2, <2>3, <2>4, InformedOne
<1>2. ASSUME InitOk PROVE Informed'
  <2>1. PICK e : e = [kind |-> "ready"] OBVIOUS
  <2>2. e \in Event /\ e.kind \notin AnswerKinds \cup {"disconnected"} /\ \A t : ~Finishes(e, t)
    BY <2>1, Lifecycle DEF AnswerKinds, Finishes
  <2>3. /\ evq' = evq \o <<e>> /\ ui' = ui /\ cmds' = cmds /\ wire' = wire /\ turns' = turns /\ mode' = mode
    BY <2>1, <1>2 DEF InitOk, Emits, serverVars
  <2>4. Queued' = Queued /\ Written' = Written BY <2>3 DEF Queued, Written
  <2> QED BY <2>2, <2>3, <2>4, InformedOne
<1>3. ~Lost
  <2>1. losses \in Nat BY DEF Base, TypeOK
  <2> QED BY <2>1 DEF Lost
<1>4. PICK e : e = [kind |-> "connecting"] OBVIOUS
<1>5. e \in Event /\ e.kind \notin AnswerKinds \cup {"disconnected"} /\ \A t : ~Finishes(e, t)
  BY <1>4, Lifecycle DEF AnswerKinds, Finishes
<1>6. ASSUME WriteRequest PROVE Informed'
  <2>1. PICK r \in Queued : Dequeue(r) /\ wire' = Append(wire, r) BY <1>6 DEF WriteRequest
  <2>2. Queued' = Queued \ {r} BY <2>1, Dequeuing
  <2>3. ui' = ui /\ evq' = evq /\ mode' = mode /\ turns' = turns BY <1>6 DEF WriteRequest, hubVars
  <2>4. Written' \subseteq Written \cup {r}
    <3>1. PICK w : w = wire OBVIOUS
    <3>2. PICK x : x = Append(w, r) OBVIOUS
    <3>3. w \in Seq(Request) /\ wire' = x BY <2>1, <3>1, <3>2 DEF Base, TypeOK
    <3>4. Len(w) \in Nat /\ DOMAIN w = 1..Len(w) /\ DOMAIN x = 1..Len(w) + 1 /\ x[Len(w) + 1] = r
          /\ \A i \in DOMAIN w : x[i] = w[i]
      BY <3>2, <3>3, LenProperties
    <3>5. Among(x) \subseteq Among(w) \cup {r} BY <3>4 DEF Among
    <3>6. Written' = Among(wire') BY DEF Written, Among
    <3> QED BY <3>1, <3>3, <3>5, <3>6, QueuedIs
  <2> QED BY <2>2, <2>3, <2>4, <1>5, InformedOne
<1>7. ASSUME DropRequest PROVE Informed'
  <2>1. PICK r \in Queued : Dequeue(r) BY <1>7 DEF DropRequest
  <2>2. Queued' = Queued \ {r} BY <2>1, Dequeuing
  <2>3. ui' = ui /\ evq' = evq /\ mode' = mode /\ turns' = turns /\ wire' = wire
    BY <1>7 DEF DropRequest, hubVars, serverVars
  <2>4. Written' = Written BY <2>3 DEF Written
  <2> QED BY <2>2, <2>3, <2>4, <1>5, InformedOne
<1>8. ASSUME Reconnect PROVE Informed'
  <2>1. evq' = evq /\ Hangup /\ cmds # <<>> /\ cmds' = Tail(cmds) BY <1>8 DEF Reconnect
  <2>2. ui' = ui /\ mode' = mode /\ wire' = <<>> /\ (mode = "direct" => turns' = {}) BY <2>1 DEF Hangup
  <2>3. Written' = {} BY <2>2 DEF Written
  <2>4. Queued' \subseteq Queued
    <3>1. PICK q : q = cmds OBVIOUS
    <3>2. PICK x : x = Tail(q) OBVIOUS
    <3>3. q \in Seq(Batch) /\ q # <<>> /\ cmds' = x BY <2>1, <3>1, <3>2 DEF Base, TypeOK
    <3>4. \A i \in DOMAIN x : i + 1 \in DOMAIN q /\ x[i] = q[i + 1] BY <3>2, <3>3, Taken
    <3>5. In(x) \subseteq In(q) BY <3>4 DEF In
    <3>6. Queued' = In(cmds') BY DEF Queued, In
    <3> QED BY <3>1, <3>3, <3>5, <3>6, QueuedIs
  <2> QED BY <2>1, <2>2, <2>3, <2>4, <1>5, InformedOne
<1> QED BY <1>1, <1>2, <1>3, <1>6, <1>7, <1>8 DEF Hub

\* The app-server serves r: nothing ends, and a turn it starts is told of in
\* the answer.
LEMMA InformedServed ==
    ASSUME Base, Informed, NEW r, NEW es \in Seq(Event), Serve(r, es, TRUE),
           \A j \in DOMAIN es : /\ es[j].kind \notin {"disconnected", "completed"}
                                /\ es[j].kind \in AnswerKinds => j = 1 /\ es[j].req = r,
           \A t \in turns' : t \in turns \/ \E j \in DOMAIN es : Accepts(es[j], t)
    PROVE  Informed'
<1>1. r \in Written /\ Written' = Written \ {r} /\ evq' = evq \o es /\ ui' = ui /\ cmds' = cmds /\ mode' = mode
  BY Served
<1>2. Queued' = Queued BY <1>1 DEF Queued
<1>3. \A j \in DOMAIN es : \A t : ~Finishes(es[j], t) BY DEF Finishes
<1> QED BY <1>1, <1>2, <1>3, InformedSaid

LEMMA InformedServer == ASSUME Base, Informed, Server PROVE Informed'
<1>1. ASSUME NEW r \in Written, NEW k \in AnswerKinds, NEW t \in Threads \cup {NoThread},
             Serve(r, <<Answer(k, r, t)>>, TRUE), turns' = turns
      PROVE  Informed'
  <2>1. PICK es : es = <<Answer(k, r, t)>> OBVIOUS
  <2>2. Serve(r, es, TRUE) BY <2>1, <1>1
  <2>3. r \in Request BY <2>2, Served
  <2>4. es \in Seq(Event) /\ es[1] = Answer(k, r, t) /\ DOMAIN es = {1} BY <2>1, <2>3, OneAnswer
  <2>5. \A j \in DOMAIN es : j = 1 /\ es[j].kind = k /\ es[j].req = r BY <2>4 DEF Answer
  <2> QED BY <2>2, <2>4, <2>5, <1>1, InformedServed DEF AnswerKinds
<1>2. ASSUME NEW r \in Written PROVE r.thread \in Threads \cup {NoThread}
  <2>1. r \in Request BY DEF Base, TypeOK, Written
  <2> QED BY <2>1 DEF Request
<1>3. ASSUME ServeTask PROVE Informed'
  <2>1. PICK r \in Written, t \in Threads :
          /\ turns' = turns
          /\ \E es : /\ Serve(r, es, TRUE)
                     /\ es = <<Answer("ok", r, t)>> \/ es = <<[kind |-> "oversized"]>>
    BY <1>3, ServeTaskCases
  <2>2. PICK k \in AnswerKinds : k = "ok" BY DEF AnswerKinds
  <2>3. CASE Serve(r, <<Answer("ok", r, t)>>, TRUE)
    <3>1. Serve(r, <<Answer(k, r, t)>>, TRUE) BY <2>2, <2>3
    <3> QED BY <3>1, <2>1, <1>1
  <2>4. CASE Serve(r, <<[kind |-> "oversized"]>>, TRUE)
    <3>1. PICK e : e = [kind |-> "oversized"] OBVIOUS
    <3>2. PICK es : es = <<e>> OBVIOUS
    <3>3. e \in Event /\ e.kind = "oversized" BY <3>1, Lifecycle
    <3>4. es \in Seq(Event) /\ \A j \in DOMAIN es : es[j].kind = "oversized" BY <3>2, <3>3
    <3>5. Serve(r, es, TRUE) BY <3>1, <3>2, <2>4
    <3> QED BY <3>4, <3>5, <2>1, InformedServed DEF AnswerKinds
  <2> QED BY <2>1, <2>3, <2>4
<1>4. ASSUME ServeUnsubscribe PROVE Informed'
  <2>1. PICK k \in AnswerKinds : k = "ok" BY DEF AnswerKinds
  <2>2. PICK r \in Written : Serve(r, <<Answer(k, r, r.thread)>>, TRUE) /\ turns' = turns
    BY <2>1, <1>4, ServeUnsubscribeCases
  <2> QED BY <2>2, <1>1, <1>2
<1>5. ASSUME Refuse PROVE Informed'
  <2>1. PICK r \in Written, k \in {"error", "malformed"} : Serve(r, <<Answer(k, r, r.thread)>>, TRUE) /\ turns' = turns
    BY <1>5, RefuseCases
  <2>2. k \in AnswerKinds BY DEF AnswerKinds
  <2> QED BY <2>1, <2>2, <1>1, <1>2
<1>6. ASSUME ServeSend PROVE Informed'
  <2>1. PICK r \in Written :
          /\ r.kind = "send" /\ turns' = turns \cup {r.thread}
          /\ Serve(r, <<Answer("ok", r, r.thread)>>
                        \o (IF r.thread \in subs THEN <<[kind |-> "started", thread |-> r.thread]>>
                            ELSE <<>>), TRUE)
    BY <1>6, ServeSendCases
  <2>2. PICK t : t = r.thread OBVIOUS
  <2>3. PICK es : es = <<Answer("ok", r, t)>> \o (IF r.thread \in subs THEN <<[kind |-> "started", thread |-> t]>> ELSE <<>>)
    OBVIOUS
  <2>4. Serve(r, es, TRUE) BY <2>1, <2>2, <2>3
  <2>5. r \in Request BY <2>4, Served
  <2>6. t \in Threads BY <2>1, <2>2, Plain DEF Base, About, Formed, TypeOK
  <2>7. es \in Seq(Event) /\ 1 \in DOMAIN es /\ es[1] = Answer("ok", r, t) /\ \A j \in DOMAIN es : j = 1 \/ es[j].kind = "started"
    <3>1. CASE r.thread \in subs BY <3>1, <2>3, <2>5, <2>6, TwoAnswer
    <3>2. CASE r.thread \notin subs BY <3>2, <2>3, <2>5, <2>6, TwoAnswer
    <3> QED BY <3>1, <3>2
  <2>8. es[1].kind = "ok" /\ es[1].req = r /\ Accepts(es[1], t) BY <2>1, <2>2, <2>7 DEF Answer, Accepts
  <2>9. \A j \in DOMAIN es : /\ es[j].kind \notin {"disconnected", "completed"}
                             /\ es[j].kind \in AnswerKinds => j = 1 /\ es[j].req = r
    BY <2>7, <2>8 DEF AnswerKinds
  <2>10. \A x \in turns' : x \in turns \/ \E j \in DOMAIN es : Accepts(es[j], x) BY <2>1, <2>2, <2>7, <2>8
  <2> QED BY <2>4, <2>7, <2>9, <2>10, InformedServed
<1>7. ASSUME NEW k \in {"started", "completed"}, NEW t \in Threads, Notify(k, t),
             mode = "direct" => turns' = turns \ {t}
      PROVE  Informed'
  <2>1. PICK e : e = [kind |-> k, thread |-> t] OBVIOUS
  <2>2. e \in Event /\ e.kind \notin AnswerKinds \cup {"disconnected"} /\ \A x : Finishes(e, x) => x = t
    BY <2>1, Lifecycle DEF AnswerKinds, Finishes
  <2>3. ui' = ui /\ cmds' = cmds /\ wire' = wire /\ mode' = mode /\ (evq' = evq \/ evq' = evq \o <<e>>)
    BY <2>1, <1>7 DEF Notify, hubVars, Emits
  <2>4. Queued' = Queued /\ Written' = Written BY <2>3 DEF Queued, Written
  <2> QED BY <2>2, <2>3, <2>4, <1>7, InformedOne
<1>8. ASSUME RemoteTurn PROVE Informed'
  <2>1. PICK t \in Threads : Notify("started", t) /\ mode = "managed" BY <1>8 DEF RemoteTurn, Base, TypeOK
  <2>2. PICK k \in {"started", "completed"} : k = "started" OBVIOUS
  <2> QED BY <2>1, <2>2, <1>7
<1>9. ASSUME EndTurn PROVE Informed'
  <2>1. PICK t \in Threads : Notify("completed", t) /\ turns' = turns \ {t} BY <1>9 DEF EndTurn, Base, TypeOK
  <2>2. PICK k \in {"started", "completed"} : k = "completed" OBVIOUS
  <2> QED BY <2>1, <2>2, <1>7
<1> QED BY <1>3, <1>4, <1>5, <1>6, <1>8, <1>9 DEF Server

LEMMA InformedStep == Base /\ Messages /\ Informed /\ MaxLosses = 0 /\ [Next]_vars => Informed'
<1> SUFFICES ASSUME Base, Messages, Informed, MaxLosses = 0, [Next]_vars PROVE Informed' OBVIOUS
<1>1. CASE UNCHANGED vars
  <2>1. ui' = ui /\ cmds' = cmds /\ evq' = evq /\ mode' = mode /\ wire' = wire /\ turns' = turns
    BY <1>1 DEF vars, hubVars, serverVars
  <2>2. Queued' = Queued /\ Written' = Written BY <2>1 DEF Queued, Written
  <2>3. PICK e : e = [kind |-> "connecting"] OBVIOUS
  <2>4. e \in Event /\ e.kind \notin AnswerKinds \cup {"disconnected"} /\ \A t : ~Finishes(e, t)
    BY <2>3, Lifecycle DEF AnswerKinds, Finishes
  <2> QED BY <2>1, <2>2, <2>4, InformedOne
<1> QED BY <1>1, InformedUser, InformedHandle, InformedHub, InformedServer DEF Next

LEMMA SendsCommandNone == ASSUME NEW o, Sends(o) PROVE Reconnects(o) = 0
<1>1. {i \in DOMAIN o : o[i] = ReconnectCommand} = {} BY DEF Sends, ReconnectCommand
<1> QED BY <1>1, FS_EmptySet DEF Reconnects

\* A handoff that commands nothing, and the releases behind it.
LEMMA HandoffWaits ==
    ASSUME NEW s, NEW u \in Controller, s = Here(u), mode = "managed" \/ Busy(u)
    PROVE  Handoff(s).o = <<>> /\ s.o = <<>>
<1>1. s = [u |-> u, o |-> <<>>] /\ s.u = u BY DEF Here
<1>2. \A h \in BOOLEAN : [s EXCEPT !.u.handoff = h].o = <<>> BY <1>1
<1> QED BY <1>1, <1>2 DEF Handoff

LEMMA ReleasesOnly == ASSUME NEW s, s.o = <<>> PROVE Sends(UnsubscribeIdle(s).o) /\ Sends(s.o)
<1>1. PICK Q : Q = {<<"unsub", t, {}>> : t \in {x \in IdleResumed(s.u) : s.u.conn = "Ready"}} OBVIOUS
<1>2. UnsubscribeIdle(s) = Ask(s, Q) BY <1>1 DEF UnsubscribeIdle
<1>3. Sends(<<>>) BY DEF Sends
<1>4. Sends(Ask(s, Q).o)
  <2>1. CASE Q = {} BY <2>1, <1>3 DEF Ask
  <2>2. CASE Q # {}
    <3>1. PICK R : R = {[n |-> Stamp, kind |-> q[1], thread |-> q[2], text |-> q[3]] : q \in Q} OBVIOUS
    <3>2. PICK b : b = [op |-> "send", reqs |-> R] OBVIOUS
    <3>3. Ask(s, Q).o = Append(s.o, b) BY <2>2, <3>1, <3>2 DEF Ask, Stamp
    <3>4. Ask(s, Q).o = <<b>> /\ b.op = "send" BY <3>2, <3>3
    <3> QED BY <3>4 DEF Sends
  <2> QED BY <2>1, <2>2
<1> QED BY <1>2, <1>3, <1>4

\* The controller decides on a direct session that shows nothing under way,
\* but for the turn whose end it reads.
LEMMA Deciding ==
    ASSUME Base, RemoteActive \/ OnCompleted, reconnects' > reconnects
    PROVE  /\ mode = "direct" /\ \A r \in ui.pending : r.kind # "send"
           /\ \A t \in ui.running : evq # <<>> /\ Finishes(Head(evq), t)
<1>1. ui \in Controller /\ reconnects \in Nat /\ mode \in {"direct", "managed"} BY Plain DEF Base, TypeOK
<1>2. ASSUME NEW s, Ends(s), Sends(s.o) PROVE FALSE
  <2>1. Reconnects(s.o) = 0 BY <1>2, SendsCommandNone
  <2> QED BY <2>1, <1>1, <1>2 DEF Ends
<1>3. CASE RemoteActive
  <2>1. PICK s : s = Here(ui) OBVIOUS
  <2>2. Ends(Handoff(s)) BY <2>1, <1>3 DEF RemoteActive, UserStep
  <2>3. ~(mode = "managed" \/ Busy(ui))
    <3> SUFFICES ASSUME mode = "managed" \/ Busy(ui) PROVE FALSE OBVIOUS
    <3>1. PICK s1 : s1 = Handoff(s) OBVIOUS
    <3>2. s1.o = <<>> BY <2>1, <3>1, <1>1, HandoffWaits
    <3> QED BY <3>1, <3>2, <2>2, <1>2, ReleasesOnly
  <2> QED BY <2>3, <1>1 DEF Busy
<1>4. CASE OnCompleted
  <2>1. PICK e : e = Head(evq) OBVIOUS
  <2>2. evq # <<>> /\ e.kind = "completed" BY <2>1, <1>4 DEF OnCompleted, Receive
  <2>3. PICK u : u = [ui EXCEPT !.running = @ \ {e.thread}] OBVIOUS
  <2>4. u \in Controller /\ u.pending = ui.pending /\ u.running = ui.running \ {e.thread}
    BY <2>3, <1>1 DEF Controller
  <2>5. PICK s : s = Here(u) OBVIOUS
  <2>6. PICK s1 : s1 = IF ui.handoff THEN Handoff(s) ELSE s OBVIOUS
  <2>7. PICK s2 : s2 = IF ui.active = e.thread THEN s1 ELSE UnsubscribeIdle(s1) OBVIOUS
  <2>8. Ends(s2) BY <2>1, <2>3, <2>5, <2>6, <2>7, <1>4 DEF OnCompleted
  <2>9. ~(mode = "managed" \/ Busy(u))
    <3> SUFFICES ASSUME mode = "managed" \/ Busy(u) PROVE FALSE OBVIOUS
    <3>1. Handoff(s).o = <<>> /\ s.o = <<>> BY <2>4, <2>5, HandoffWaits
    <3>2. s1.o = <<>> BY <3>1, <2>6
    <3>3. Sends(s2.o) BY <3>2, <2>7, ReleasesOnly
    <3> QED BY <3>3, <2>8, <1>2
  <2>10. mode = "direct" /\ u.running = {} /\ \A r \in u.pending : r.kind # "send" BY <2>9, <1>1 DEF Busy
  <2>11. \A t \in ui.running : t = e.thread BY <2>4, <2>10
  <2> QED BY <2>1, <2>2, <2>4, <2>10, <2>11 DEF Finishes
<1> QED BY <1>3, <1>4

\* Whatever is refused, too long to be read or done by other clients, and
\* whatever restarts the Remote host: while no connection is lost, the
\* controller decides to leave a direct app-server only when that runs no turn
\* and no message is on its way to it.
THEOREM HandoffIdle == MaxLosses = 0 => (Spec => HandoffInterruptsNoTurn)
<1> SUFFICES ASSUME MaxLosses = 0 PROVE Spec => HandoffInterruptsNoTurn OBVIOUS
<1>1. Init => Informed
  <2> SUFFICES ASSUME Init PROVE Informed OBVIOUS
  <2>1. cmds = <<>> /\ evq = <<>> /\ wire = <<>> /\ turns = {} BY DEF Init
  <2>2. Queued = {} /\ Written = {} /\ Answered = {} BY <2>1 DEF Queued, Written, Answered
  <2> QED BY <2>1, <2>2 DEF Informed, Undrained, AnsweredOnce, Expected
<1>2. Base /\ Messages /\ (Base /\ Messages)' /\ Informed /\ [Next]_vars => Informed' BY InformedStep
<1>3. Base /\ Informed =>
        [(RemoteActive \/ OnCompleted) /\ reconnects' > reconnects =>
           turns = {} /\ \A r \in Queued \cup Written : r.kind # "send"]_vars
  <2> SUFFICES ASSUME Base, Informed, RemoteActive \/ OnCompleted, reconnects' > reconnects
               PROVE  turns = {} /\ \A r \in Queued \cup Written : r.kind # "send"
    OBVIOUS
  <2>1. /\ mode = "direct" /\ \A r \in ui.pending : r.kind # "send"
        /\ \A t \in ui.running : evq # <<>> /\ Finishes(Head(evq), t)
    BY Deciding
  <2>2. \A r \in Queued \cup Written \cup Answered : r.kind # "send" BY <2>1 DEF Informed, Expected
  <2>3. ASSUME NEW t \in turns PROVE FALSE
    <3>1. CASE Awaited(t)
      <4>1. PICK i \in DOMAIN evq : Accepts(evq[i], t) BY <3>1 DEF Awaited
      <4>2. evq[i].req \in Answered BY <4>1 DEF Answered, Accepts, AnswerKinds
      <4> QED BY <4>1, <4>2, <2>2 DEF Accepts
    <3>2. CASE t \in ui.running /\ Unended(t)
      <4>1. Finishes(Head(evq), t) /\ evq # <<>> BY <3>2, <2>1
      <4>2. Head(evq) = evq[1] /\ 1 \in DOMAIN evq BY <4>1, Heading
      <4> QED BY <4>1, <4>2, <3>2 DEF Unended
    <3> QED BY <3>1, <3>2, <2>1, <2>3 DEF Informed, Known
  <2> QED BY <2>2, <2>3
<1> QED BY <1>1, <1>2, <1>3, SessionHolds, PTL DEF Spec, HandoffInterruptsNoTurn

===========================================================================
