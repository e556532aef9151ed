------------------------- MODULE WindowParts_proofs -------------------------
(***************************************************************************)
(* Proofs about the parts of the window: an inductive invariant of each,   *)
(* and from it the theorem that its property holds, whatever the constants.*)
(* Desk_proofs carries them over to the composition.                       *)
(***************************************************************************)
EXTENDS ResetWindow, WindowParts, SequenceTheorems, TLAPS

---------------------------------------------------------------------------
(* Sequences.                                                              *)

\* A list that grows by one or two.
LEMMA OneMore ==
    ASSUME NEW R, NEW s \in Seq(R), NEW a \in R
    PROVE  /\ s \o <<a>> \in Seq(R) /\ DOMAIN (s \o <<a>>) = DOMAIN s \cup {Len(s) + 1}
           /\ \A i \in DOMAIN s : (s \o <<a>>)[i] = s[i] /\ i <= Len(s) /\ i \in Nat
           /\ (s \o <<a>>)[Len(s) + 1] = a /\ Len(s) \in Nat
<1>1. <<a>> \in Seq(R) /\ Len(<<a>>) = 1 /\ <<a>>[1] = a OBVIOUS
<1>2. Len(s) \in Nat /\ DOMAIN s = 1..Len(s) BY LenProperties
<1>3. PICK t : t = s \o <<a>> OBVIOUS
<1>4. /\ t \in Seq(R) /\ Len(t) = Len(s) + 1
      /\ \A i \in 1..Len(s) + 1 : t[i] = IF i <= Len(s) THEN s[i] ELSE <<a>>[i - Len(s)]
  BY <1>1, <1>3, ConcatProperties
<1>5. DOMAIN t = 1..Len(s) + 1 BY <1>4, LenProperties
<1> QED BY <1>1, <1>2, <1>3, <1>4, <1>5

LEMMA TwoMore ==
    ASSUME NEW R, NEW s \in Seq(R), NEW a \in R, NEW b \in R
    PROVE  /\ s \o <<a, b>> \in Seq(R)
           /\ DOMAIN (s \o <<a, b>>) = DOMAIN s \cup {Len(s) + 1, Len(s) + 2}
           /\ \A i \in DOMAIN s : (s \o <<a, b>>)[i] = s[i] /\ i <= Len(s) /\ i \in Nat
           /\ (s \o <<a, b>>)[Len(s) + 1] = a /\ (s \o <<a, b>>)[Len(s) + 2] = b
           /\ Len(s) \in Nat
<1>1. <<a, b>> \in Seq(R) /\ Len(<<a, b>>) = 2 /\ <<a, b>>[1] = a /\ <<a, b>>[2] = b OBVIOUS
<1>2. Len(s) \in Nat /\ DOMAIN s = 1..Len(s) BY LenProperties
<1>3. PICK t : t = s \o <<a, b>> OBVIOUS
<1>4. /\ t \in Seq(R) /\ Len(t) = Len(s) + 2
      /\ \A i \in 1..Len(s) + 2 : t[i] = IF i <= Len(s) THEN s[i] ELSE <<a, b>>[i - Len(s)]
  BY <1>1, <1>3, ConcatProperties
<1>5. DOMAIN t = 1..Len(s) + 2 BY <1>4, LenProperties
<1> QED BY <1>1, <1>2, <1>3, <1>4, <1>5

\* What is first on the stream is taken off it.
LEMMA Taken ==
    ASSUME NEW R, NEW s \in Seq(R), s # <<>>
    PROVE  /\ Head(s) \in R /\ Head(s) = s[1] /\ 1 \in DOMAIN s /\ Tail(s) \in Seq(R)
           /\ \A i \in DOMAIN Tail(s) : i \in Nat /\ i >= 1 /\ i + 1 \in DOMAIN s /\ Tail(s)[i] = s[i + 1]
           /\ \A i \in DOMAIN s : i = 1 \/ i - 1 \in DOMAIN Tail(s)
           /\ DOMAIN s \subseteq Nat
<1>1. /\ Head(s) \in R /\ Tail(s) \in Seq(R) /\ Len(Tail(s)) = Len(s) - 1
      /\ \A i \in 1..Len(Tail(s)) : Tail(s)[i] = s[i + 1]
  BY HeadTailProperties
<1>2. Len(s) \in Nat /\ Len(s) # 0 /\ DOMAIN s = 1..Len(s) BY LenProperties, EmptySeq
<1>3. DOMAIN Tail(s) = 1..Len(Tail(s)) BY <1>1, LenProperties
<1>4. Head(s) = s[1] OBVIOUS
<1> QED BY <1>1, <1>2, <1>3, <1>4

---------------------------------------------------------------------------
(* Requests of the user.                                                   *)

Shown == [id : Nat, method : Methods, matter : Matters]

ApprTyped ==
    /\ asked \in Nat
    /\ server \subseteq Shown /\ \A r \in server : r.id \in 1..asked
    /\ net \in Seq([kind : {"request", "resolved"}, request : Shown])
    /\ approvals \in Seq(Shown)
    /\ apprDialog \in Shown \cup {Appr!NoDialog}
    /\ answers \in Seq([shown : Shown, result : [grants : BOOLEAN, scope : {"turn", "session"}]])

\* A connection gives an id once, and the queue holds one once.
OncePerId ==
    /\ \A r, q \in server : r.id = q.id => r = q
    /\ \A i, j \in DOMAIN approvals : approvals[i].id = approvals[j].id => i = j

Arrives(r, i) == net[i] = [kind |-> "request", request |-> r]

\* What is still to resolve the id of a request the server waits on is older,
\* of a connection before: the request itself comes after it.
OldNews ==
    \A r \in server : \A j \in DOMAIN net :
      net[j].kind = "resolved" /\ net[j].request.id = r.id
      => \E i \in DOMAIN net : j < i /\ Arrives(r, i)

ApprInv == ApprTyped /\ OncePerId /\ OldNews /\ NoRequestStranded

\* A sequence without one of its entries.
LEMMA Removed ==
    ASSUME NEW R, NEW s \in Seq(R), NEW i \in 1..Len(s)
    PROVE  LET t == Appr!RemoveAt(s, i)
           IN  /\ t \in Seq(R) /\ Len(t) = Len(s) - 1
               /\ \A j \in 1..Len(t) : t[j] = IF j < i THEN s[j] ELSE s[j + 1]
<1> DEFINE front == SubSeq(s, 1, i - 1)
           back  == SubSeq(s, i + 1, Len(s))
<1>1. Len(s) \in Nat /\ \A j \in 1..Len(s) : s[j] \in R BY LenProperties, ElementOfSeq
<1>2. /\ front \in Seq(R) /\ Len(front) = i - 1
      /\ \A j \in 1..i - 1 : front[j] = s[j]
  <2>1. \A j \in 1..i - 1 : s[j] \in R BY <1>1
  <2> QED BY <2>1, <1>1, SubSeqProperties
<1>3. /\ back \in Seq(R) /\ Len(back) = Len(s) - i
      /\ \A j \in 1..Len(s) - i : back[j] = s[i + j]
  <2>1. \A j \in i + 1..Len(s) : s[j] \in R BY <1>1
  <2> QED BY <2>1, <1>1, SubSeqProperties
<1> HIDE DEF front, back
<1>4. /\ front \o back \in Seq(R) /\ Len(front \o back) = Len(s) - 1
      /\ \A j \in 1..Len(s) - 1 :
           (front \o back)[j] = IF j <= i - 1 THEN front[j] ELSE back[j - (i - 1)]
  <2>1. Len(front) + Len(back) = Len(s) - 1 BY <1>1, <1>2, <1>3
  <2>2. /\ front \o back \in Seq(R) /\ Len(front \o back) = Len(front) + Len(back)
        /\ \A j \in 1..Len(front) + Len(back) :
             (front \o back)[j] = IF j <= Len(front) THEN front[j] ELSE back[j - Len(front)]
    BY <1>2, <1>3, ConcatProperties
  <2> QED BY <2>1, <2>2, <1>2
<1>5. \A j \in 1..Len(s) - 1 : (front \o back)[j] = IF j < i THEN s[j] ELSE s[j + 1]
  <2> SUFFICES ASSUME NEW j \in 1..Len(s) - 1
               PROVE  (front \o back)[j] = IF j < i THEN s[j] ELSE s[j + 1]
    OBVIOUS
  <2>1. CASE j < i
    <3>1. j \in 1..i - 1 BY <1>1, <2>1
    <3> QED BY <1>2, <1>4, <2>1, <3>1
  <2>2. CASE ~(j < i)
    <3>1. j - (i - 1) \in 1..Len(s) - i /\ i + (j - (i - 1)) = j + 1 /\ ~(j <= i - 1)
      BY <1>1, <2>2
    <3>2. back[j - (i - 1)] = s[j + 1] BY <1>3, <3>1
    <3> QED BY <1>4, <2>2, <3>1, <3>2
  <2> QED BY <2>1, <2>2
<1> QED BY <1>4, <1>5 DEF Appr!RemoveAt, front, back

\* Once an entry is removed, its id is no longer queued, and the others are.
LEMMA WithoutOne ==
    ASSUME approvals \in Seq(Shown), NEW id,
           \A i, j \in DOMAIN approvals : approvals[i].id = approvals[j].id => i = j
    PROVE  LET rest == Appr!Without(id)
           IN  /\ rest \in Seq(Shown)
               /\ \A i, j \in DOMAIN rest : rest[i].id = rest[j].id => i = j
               /\ \A i \in DOMAIN approvals :
                    approvals[i].id # id => \E j \in DOMAIN rest : rest[j] = approvals[i]
<1> DEFINE found == {i \in DOMAIN approvals : approvals[i].id = id}
<1>1. CASE found = {}
  <2>1. Appr!Without(id) = approvals BY <1>1 DEF Appr!Without
  <2> QED BY <2>1
<1>2. CASE found # {}
  <2>1. PICK x : x = CHOOSE i \in found : TRUE OBVIOUS
  <2>2. x \in DOMAIN approvals /\ approvals[x].id = id BY <1>2, <2>1
  <2>3. PICK rest : rest = Appr!Without(id) OBVIOUS
  <2>4. rest = Appr!RemoveAt(approvals, x) BY <1>2, <2>1, <2>3 DEF Appr!Without
  <2>5. DOMAIN approvals = 1..Len(approvals) /\ Len(approvals) \in Nat BY LenProperties
  <2>6. /\ rest \in Seq(Shown) /\ Len(rest) = Len(approvals) - 1
        /\ \A j \in 1..Len(rest) : rest[j] = IF j < x THEN approvals[j] ELSE approvals[j + 1]
    <3>1. x \in 1..Len(approvals) BY <2>2, <2>5
    <3> DEFINE left == Appr!RemoveAt(approvals, x)
    <3>2. /\ left \in Seq(Shown) /\ Len(left) = Len(approvals) - 1
          /\ \A j \in 1..Len(left) : left[j] = IF j < x THEN approvals[j] ELSE approvals[j + 1]
      BY <3>1, Removed
    <3> QED BY <2>4, <3>2
  <2>7. DOMAIN rest = 1..Len(approvals) - 1 BY <2>6, LenProperties
  <2>8. ASSUME NEW i \in DOMAIN rest, NEW j \in DOMAIN rest, rest[i].id = rest[j].id
        PROVE  i = j
    <3>1. PICK k \in DOMAIN approvals : k = (IF i < x THEN i ELSE i + 1) /\ rest[i] = approvals[k]
      BY <2>2, <2>5, <2>6, <2>7
    <3>2. PICK l \in DOMAIN approvals : l = (IF j < x THEN j ELSE j + 1) /\ rest[j] = approvals[l]
      BY <2>2, <2>5, <2>6, <2>7
    <3>3. k = l BY <2>8, <3>1, <3>2
    <3> QED BY <2>2, <2>5, <2>7, <3>1, <3>2, <3>3
  <2>9. ASSUME NEW i \in DOMAIN approvals, approvals[i].id # id
        PROVE  \E j \in DOMAIN rest : rest[j] = approvals[i]
    <3>1. i # x BY <2>2, <2>9
    <3>2. CASE i < x
      <4>1. i \in DOMAIN rest /\ rest[i] = approvals[i] BY <2>2, <2>5, <2>6, <2>7, <3>2
      <4> QED BY <4>1
    <3>3. CASE i > x
      <4>1. i - 1 \in DOMAIN rest /\ rest[i - 1] = approvals[i]
        BY <2>2, <2>5, <2>6, <2>7, <3>3
      <4> QED BY <4>1
    <3> QED BY <3>1, <3>2, <3>3, <2>2, <2>5
  <2> QED BY <2>3, <2>6, <2>8, <2>9
<1> QED BY <1>1, <1>2

\* A list that grows by one keeps its entries.
LEMMA Appended ==
    ASSUME NEW R, NEW s \in Seq(R), NEW e \in R
    PROVE  /\ Append(s, e) \in Seq(R) /\ Len(Append(s, e)) = Len(s) + 1
           /\ DOMAIN Append(s, e) = DOMAIN s \cup {Len(s) + 1}
           /\ \A i \in DOMAIN s : Append(s, e)[i] = s[i] /\ i <= Len(s)
           /\ Append(s, e)[Len(s) + 1] = e
BY AppendProperties, LenProperties

\* And one that is taken from loses its head.
LEMMA Shortened ==
    ASSUME NEW R, NEW s \in Seq(R), s # <<>>
    PROVE  /\ Tail(s) \in Seq(R) /\ Head(s) \in R /\ s[1] = Head(s) /\ 1 \in DOMAIN s
           /\ \A i \in DOMAIN Tail(s) : Tail(s)[i] = s[i + 1] /\ i + 1 \in DOMAIN s /\ i \in Nat
           /\ \A i \in DOMAIN s : i \in Nat /\ (i # 1 => i - 1 \in DOMAIN Tail(s))
BY HeadTailProperties, LenProperties, EmptySeq

LEMMA ApprStarts == Appr!Init => ApprInv
<1> SUFFICES ASSUME Appr!Init PROVE ApprInv OBVIOUS
<1>1. ApprTyped BY DEF Appr!Init, ApprTyped
<1>2. OncePerId /\ OldNews /\ NoRequestStranded
  BY DEF Appr!Init, OncePerId, OldNews, NoRequestStranded, Appr!NoRequestStranded
<1> QED BY <1>1, <1>2 DEF ApprInv

LEMMA AskUserSafe == ASSUME ApprInv, Appr!AskUser PROVE ApprInv'
<1> USE DEF ApprInv
<1>1. PICK method \in Methods, matter \in Matters :
        LET request == [id |-> asked + 1, method |-> method, matter |-> matter]
        IN  /\ server' = server \cup {request}
            /\ net' = Append(net, [kind |-> "request", request |-> request])
  BY DEF Appr!AskUser
<1>2. PICK r : r = [id |-> asked + 1, method |-> method, matter |-> matter] OBVIOUS
<1>3. /\ server' = server \cup {r} /\ net' = Append(net, [kind |-> "request", request |-> r])
      /\ asked' = asked + 1 /\ UNCHANGED <<approvals, apprDialog, answers>>
  BY <1>1, <1>2 DEF Appr!AskUser
<1>4. asked \in Nat /\ r \in Shown /\ r.id = asked + 1 BY <1>2 DEF ApprTyped, Shown
<1>5. ApprTyped'
  <2>1. [kind |-> "request", request |-> r] \in [kind : {"request", "resolved"}, request : Shown]
    BY <1>4
  <2>2. net' \in Seq([kind : {"request", "resolved"}, request : Shown])
    BY <1>3, <2>1, Appended DEF ApprTyped
  <2>3. asked' \in Nat /\ server' \subseteq Shown /\ \A q \in server' : q.id \in 1..asked'
    BY <1>3, <1>4 DEF ApprTyped
  <2> QED BY <1>3, <2>2, <2>3 DEF ApprTyped
<1>6. \A q \in server : q.id # r.id /\ q.id \in 1..asked BY <1>4 DEF ApprTyped
<1>7. OncePerId' BY <1>3, <1>6 DEF OncePerId
<1>8. /\ DOMAIN net' = DOMAIN net \cup {Len(net) + 1}
      /\ \A i \in DOMAIN net : net'[i] = net[i] /\ i <= Len(net)
      /\ net'[Len(net) + 1] = [kind |-> "request", request |-> r]
      /\ Len(net) \in Nat /\ DOMAIN net = 1..Len(net)
  <2>1. [kind |-> "request", request |-> r] \in [kind : {"request", "resolved"}, request : Shown]
    BY <1>4
  <2> QED BY <1>3, <2>1, Appended, LenProperties DEF ApprTyped
<1>9. OldNews'
  <2> SUFFICES ASSUME NEW q \in server', NEW j \in DOMAIN net',
                      net'[j].kind = "resolved", net'[j].request.id = q.id
               PROVE  \E i \in DOMAIN net' : j < i /\ net'[i] = [kind |-> "request", request |-> q]
    BY DEF OldNews, Arrives
  <2>1. j \in DOMAIN net BY <1>8
  <2>2. CASE q = r
    BY <1>8, <2>1, <2>2
  <2>3. CASE q # r
    <3>1. q \in server BY <1>3, <2>3
    <3>2. net[j] = net'[j] BY <1>8, <2>1
    <3>3. PICK i \in DOMAIN net : j < i /\ Arrives(q, i) BY <2>1, <3>1, <3>2 DEF OldNews
    <3> QED BY <3>3, <1>8 DEF Arrives
  <2> QED BY <2>2, <2>3
<1>10. NoRequestStranded'
  <2> SUFFICES ASSUME NEW q \in server'
               PROVE  \/ \E i \in DOMAIN net' : net'[i] = [kind |-> "request", request |-> q]
                      \/ \E i \in DOMAIN approvals : approvals[i].id = q.id
                      \/ apprDialog.id = q.id
                      \/ \E i \in DOMAIN answers : answers[i].shown.id = q.id
    BY <1>3 DEF NoRequestStranded, Appr!NoRequestStranded
  <2>1. CASE q = r BY <1>8, <2>1
  <2>2. CASE q # r
    BY <1>3, <1>8, <2>2 DEF NoRequestStranded, Appr!NoRequestStranded
  <2> QED BY <2>1, <2>2
<1> QED BY <1>5, <1>7, <1>9, <1>10

\* A request the server no longer waits on is reported resolved.
LEMMA ResolvedSafe ==
    ASSUME ApprInv, NEW r \in server, server' = server \ {r},
           net' = Append(net, [kind |-> "resolved", request |-> r]),
           UNCHANGED <<asked, approvals, apprDialog>>,
           answers' \in Seq([shown : Shown, result : [grants : BOOLEAN, scope : {"turn", "session"}]]),
           \A i \in DOMAIN answers : answers[i].shown.id # r.id =>
             \E j \in DOMAIN answers' : answers'[j] = answers[i]
    PROVE  ApprInv'
<1> USE DEF ApprInv
<1>1. [kind |-> "resolved", request |-> r] \in [kind : {"request", "resolved"}, request : Shown]
  BY DEF ApprTyped
<1>2. /\ net' \in Seq([kind : {"request", "resolved"}, request : Shown])
      /\ DOMAIN net' = DOMAIN net \cup {Len(net) + 1}
      /\ \A i \in DOMAIN net : net'[i] = net[i] /\ i <= Len(net)
      /\ net'[Len(net) + 1] = [kind |-> "resolved", request |-> r]
  BY <1>1, Appended DEF ApprTyped
<1>3. ApprTyped' BY <1>2 DEF ApprTyped
<1>4. \A q \in server' : q \in server /\ q.id # r.id BY DEF OncePerId
<1>5. OncePerId' BY DEF OncePerId
<1>6. OldNews'
  <2> SUFFICES ASSUME NEW q \in server', NEW j \in DOMAIN net',
                      net'[j].kind = "resolved", net'[j].request.id = q.id
               PROVE  \E i \in DOMAIN net' : j < i /\ net'[i] = [kind |-> "request", request |-> q]
    BY DEF OldNews, Arrives
  <2>1. j \in DOMAIN net /\ net[j] = net'[j] BY <1>2, <1>4
  <2>2. PICK i \in DOMAIN net : j < i /\ Arrives(q, i) BY <1>4, <2>1 DEF OldNews
  <2> QED BY <2>2, <1>2 DEF Arrives
<1>7. NoRequestStranded'
  <2> SUFFICES ASSUME NEW q \in server'
               PROVE  \/ \E i \in DOMAIN net' : net'[i] = [kind |-> "request", request |-> q]
                      \/ \E i \in DOMAIN approvals : approvals[i].id = q.id
                      \/ apprDialog.id = q.id
                      \/ \E i \in DOMAIN answers' : answers'[i].shown.id = q.id
    BY DEF NoRequestStranded, Appr!NoRequestStranded
  <2>1. q \in server /\ q.id # r.id BY <1>4
  <2>2. CASE \E i \in DOMAIN net : net[i] = [kind |-> "request", request |-> q]
    BY <1>2, <2>2
  <2>3. CASE \E i \in DOMAIN answers : answers[i].shown.id = q.id
    <3>1. PICK i \in DOMAIN answers : answers[i].shown.id = q.id BY <2>3
    <3>2. PICK j \in DOMAIN answers' : answers'[j] = answers[i] BY <2>1, <3>1
    <3> QED BY <3>1, <3>2
  <2> QED BY <2>1, <2>2, <2>3 DEF NoRequestStranded, Appr!NoRequestStranded
<1> QED BY <1>3, <1>5, <1>6, <1>7

LEMMA ResolvedElsewhereSafe == ASSUME ApprInv, Appr!ResolvedElsewhere PROVE ApprInv'
<1>1. PICK r \in server :
        /\ server' = server \ {r}
        /\ net' = Append(net, [kind |-> "resolved", request |-> r])
        /\ UNCHANGED <<asked, approvals, apprDialog, answers>>
  BY DEF Appr!ResolvedElsewhere
<1>2. answers' \in Seq([shown : Shown, result : [grants : BOOLEAN, scope : {"turn", "session"}]])
  BY <1>1 DEF ApprInv, ApprTyped
<1> QED BY <1>1, <1>2, ResolvedSafe

LEMMA TakeAnswerSafe == ASSUME ApprInv, Appr!TakeAnswer PROVE ApprInv'
<1> DEFINE Answers == [shown : Shown, result : [grants : BOOLEAN, scope : {"turn", "session"}]]
<1>1. answers # <<>> /\ answers' = Tail(answers) /\ UNCHANGED <<asked, approvals, apprDialog>>
  BY DEF Appr!TakeAnswer
<1>2. /\ answers' \in Seq(Answers)
      /\ answers[1] = Head(answers)
      /\ \A i \in DOMAIN answers : i # 1 => i - 1 \in DOMAIN answers' /\ answers'[i - 1] = answers[i]
  <2>1. answers \in Seq(Answers) BY DEF ApprInv, ApprTyped
  <2> HIDE DEF Answers
  <2>2. /\ answers' \in Seq(Answers) /\ answers[1] = Head(answers)
        /\ \A i \in DOMAIN answers' : answers'[i] = answers[i + 1]
        /\ \A i \in DOMAIN answers : i \in Nat /\ (i # 1 => i - 1 \in DOMAIN answers')
    BY <1>1, <2>1, Shortened
  <2> QED BY <2>2
<1>3. CASE \E r \in server :
             /\ r.id = Head(answers).shown.id
             /\ server' = server \ {r}
             /\ net' = Append(net, [kind |-> "resolved", request |-> r])
  <2>1. PICK r \in server :
             /\ r.id = Head(answers).shown.id
             /\ server' = server \ {r}
             /\ net' = Append(net, [kind |-> "resolved", request |-> r])
    BY <1>3
  <2>2. ASSUME NEW i \in DOMAIN answers, answers[i].shown.id # r.id
        PROVE  \E j \in DOMAIN answers' : answers'[j] = answers[i]
    BY <1>2, <2>1, <2>2
  <2> QED BY <1>1, <1>2, <2>1, <2>2, ResolvedSafe
<1>4. CASE (\A r \in server : r.id # Head(answers).shown.id) /\ UNCHANGED <<server, net>>
  <2> USE DEF ApprInv
  <2>1. ApprTyped' /\ OncePerId' /\ OldNews'
    BY <1>1, <1>2, <1>4 DEF ApprTyped, OncePerId, OldNews, Arrives
  <2>2. NoRequestStranded'
    <3> SUFFICES ASSUME NEW q \in server
                 PROVE  \/ \E i \in DOMAIN net : net[i] = [kind |-> "request", request |-> q]
                        \/ \E i \in DOMAIN approvals : approvals[i].id = q.id
                        \/ apprDialog.id = q.id
                        \/ \E i \in DOMAIN answers' : answers'[i].shown.id = q.id
      BY <1>1, <1>4 DEF NoRequestStranded, Appr!NoRequestStranded
    <3>1. CASE \E i \in DOMAIN answers : answers[i].shown.id = q.id
      <4>1. PICK i \in DOMAIN answers : answers[i].shown.id = q.id BY <3>1
      <4>2. i # 1 BY <4>1, <1>2, <1>4
      <4> QED BY <4>1, <4>2, <1>2
    <3>2. CASE ~\E i \in DOMAIN answers : answers[i].shown.id = q.id
      BY <3>2 DEF NoRequestStranded, Appr!NoRequestStranded
    <3> QED BY <3>1, <3>2
  <2> QED BY <2>1, <2>2
<1> QED BY <1>3, <1>4 DEF Appr!TakeAnswer

LEMMA LoseConnectionSafe == ASSUME ApprInv, Appr!LoseConnection PROVE ApprInv'
<1> USE DEF ApprInv
<1>1. server' = {} /\ asked' = 0 /\ UNCHANGED <<net, approvals, apprDialog, answers>>
  BY DEF Appr!LoseConnection
<1>2. ApprTyped' /\ OncePerId' BY <1>1 DEF ApprTyped, OncePerId
<1>3. OldNews' BY <1>1 DEF OldNews
<1>4. NoRequestStranded' BY <1>1 DEF NoRequestStranded, Appr!NoRequestStranded
<1> QED BY <1>2, <1>3, <1>4

LEMMA OnRequestSafe == ASSUME ApprInv, Appr!OnRequest PROVE ApprInv'
<1> USE DEF ApprInv
<1> DEFINE News == [kind : {"request", "resolved"}, request : Shown]
<1>1. PICK r : r = Head(net).request OBVIOUS
<1>2. /\ net # <<>> /\ Head(net).kind = "request" /\ net' = Tail(net)
      /\ approvals' = IF \E i \in DOMAIN approvals : approvals[i].id = r.id
                      THEN approvals ELSE Append(approvals, r)
      /\ UNCHANGED <<server, asked, apprDialog, answers>>
  BY <1>1 DEF Appr!OnRequest
<1>3. net \in Seq(News) BY DEF ApprTyped
<1>4. /\ net' \in Seq(News) /\ Head(net) \in News /\ net[1] = Head(net)
      /\ \A i \in DOMAIN net' : net'[i] = net[i + 1] /\ i + 1 \in DOMAIN net /\ i \in Nat
      /\ \A i \in DOMAIN net : i \in Nat /\ (i # 1 => i - 1 \in DOMAIN net')
  <2> HIDE DEF News
  <2> QED BY <1>2, <1>3, Shortened
<1>5. r \in Shown BY <1>1, <1>4
<1>6. /\ approvals' \in Seq(Shown)
      /\ \A i \in DOMAIN approvals : i \in DOMAIN approvals' /\ approvals'[i] = approvals[i]
      /\ \E i \in DOMAIN approvals' : approvals'[i].id = r.id
      /\ \A i, j \in DOMAIN approvals' : approvals'[i].id = approvals'[j].id => i = j
  <2>1. CASE \E i \in DOMAIN approvals : approvals[i].id = r.id
    BY <1>2, <2>1 DEF ApprTyped, OncePerId
  <2>2. CASE ~\E i \in DOMAIN approvals : approvals[i].id = r.id
    <3>1. /\ approvals' \in Seq(Shown)
          /\ DOMAIN approvals' = DOMAIN approvals \cup {Len(approvals) + 1}
          /\ \A i \in DOMAIN approvals : approvals'[i] = approvals[i]
          /\ approvals'[Len(approvals) + 1] = r
      BY <1>2, <1>5, <2>2, Appended DEF ApprTyped
    <3> QED BY <3>1, <2>2 DEF OncePerId
  <2> QED BY <2>1, <2>2
<1>7. ApprTyped' BY <1>2, <1>4, <1>6 DEF ApprTyped
<1>8. OncePerId' BY <1>2, <1>6 DEF OncePerId
<1>9. OldNews'
  <2> SUFFICES ASSUME NEW q \in server, NEW j \in DOMAIN net',
                      net'[j].kind = "resolved", net'[j].request.id = q.id
               PROVE  \E i \in DOMAIN net' : j < i /\ net'[i] = [kind |-> "request", request |-> q]
    BY <1>2 DEF OldNews, Arrives
  <2>1. PICK i \in DOMAIN net : j + 1 < i /\ Arrives(q, i) BY <1>4 DEF OldNews
  <2>2. i \in Nat /\ j \in Nat /\ i - 1 \in DOMAIN net' /\ j < i - 1 BY <1>4, <2>1
  <2>3. net'[i - 1] = net[i] BY <1>4, <2>2
  <2> QED BY <2>1, <2>2, <2>3 DEF Arrives
<1>10. NoRequestStranded'
  <2> SUFFICES ASSUME NEW q \in server
               PROVE  \/ \E i \in DOMAIN net' : net'[i] = [kind |-> "request", request |-> q]
                      \/ \E i \in DOMAIN approvals' : approvals'[i].id = q.id
                      \/ apprDialog.id = q.id
                      \/ \E i \in DOMAIN answers : answers[i].shown.id = q.id
    BY <1>2 DEF NoRequestStranded, Appr!NoRequestStranded
  <2>1. CASE \E i \in DOMAIN net : net[i] = [kind |-> "request", request |-> q]
    <3>1. PICK i \in DOMAIN net : net[i] = [kind |-> "request", request |-> q] BY <2>1
    <3>2. CASE i = 1
      <4>1. r = q BY <1>1, <1>4, <3>1, <3>2
      <4> QED BY <4>1, <1>6
    <3>3. CASE i # 1
      <4>1. i - 1 \in DOMAIN net' /\ net'[i - 1] = net[i] BY <1>4, <3>3
      <4> QED BY <3>1, <4>1
    <3> QED BY <3>2, <3>3
  <2>2. CASE \E i \in DOMAIN approvals : approvals[i].id = q.id BY <2>2, <1>6
  <2> QED BY <2>1, <2>2 DEF NoRequestStranded, Appr!NoRequestStranded
<1> QED BY <1>7, <1>8, <1>9, <1>10

LEMMA OnResolvedSafe == ASSUME ApprInv, Appr!OnResolved PROVE ApprInv'
<1> USE DEF ApprInv
<1> DEFINE News == [kind : {"request", "resolved"}, request : Shown]
<1>1. PICK x : x = Head(net).request.id OBVIOUS
<1>2. /\ net # <<>> /\ Head(net).kind = "resolved" /\ net' = Tail(net)
      /\ approvals' = Appr!Without(x)
      /\ UNCHANGED <<server, asked, apprDialog, answers>>
  BY <1>1 DEF Appr!OnResolved
<1>3. net \in Seq(News) BY DEF ApprTyped
<1>4. /\ net' \in Seq(News) /\ net[1] = Head(net) /\ 1 \in DOMAIN net
      /\ \A i \in DOMAIN net' : net'[i] = net[i + 1] /\ i + 1 \in DOMAIN net /\ i \in Nat
      /\ \A i \in DOMAIN net : i \in Nat /\ (i # 1 => i - 1 \in DOMAIN net')
  <2> HIDE DEF News
  <2> QED BY <1>2, <1>3, Shortened
<1>5. /\ approvals' \in Seq(Shown)
      /\ \A i, j \in DOMAIN approvals' : approvals'[i].id = approvals'[j].id => i = j
      /\ \A i \in DOMAIN approvals :
           approvals[i].id # x => \E j \in DOMAIN approvals' : approvals'[j] = approvals[i]
  BY <1>2, WithoutOne DEF ApprTyped, OncePerId
<1>6. ApprTyped' BY <1>2, <1>4, <1>5 DEF ApprTyped
<1>7. OncePerId' BY <1>2, <1>5 DEF OncePerId
<1>8. OldNews'
  <2> SUFFICES ASSUME NEW q \in server, NEW j \in DOMAIN net',
                      net'[j].kind = "resolved", net'[j].request.id = q.id
               PROVE  \E i \in DOMAIN net' : j < i /\ net'[i] = [kind |-> "request", request |-> q]
    BY <1>2 DEF OldNews, Arrives
  <2>1. PICK i \in DOMAIN net : j + 1 < i /\ Arrives(q, i) BY <1>4 DEF OldNews
  <2>2. i \in Nat /\ j \in Nat /\ i - 1 \in DOMAIN net' /\ j < i - 1 BY <1>4, <2>1
  <2>3. net'[i - 1] = net[i] BY <1>4, <2>2
  <2> QED BY <2>1, <2>2, <2>3 DEF Arrives
<1>9. ASSUME NEW q \in server, NEW i \in DOMAIN net, Arrives(q, i)
      PROVE  \E k \in DOMAIN net' : net'[k] = [kind |-> "request", request |-> q]
  <2>1. i # 1 BY <1>2, <1>4, <1>9 DEF Arrives
  <2>2. i - 1 \in DOMAIN net' /\ net'[i - 1] = net[i] BY <1>4, <2>1
  <2> QED BY <2>2, <1>9 DEF Arrives
<1>10. NoRequestStranded'
  <2> SUFFICES ASSUME NEW q \in server
               PROVE  \/ \E i \in DOMAIN net' : net'[i] = [kind |-> "request", request |-> q]
                      \/ \E i \in DOMAIN approvals' : approvals'[i].id = q.id
                      \/ apprDialog.id = q.id
                      \/ \E i \in DOMAIN answers : answers[i].shown.id = q.id
    BY <1>2 DEF NoRequestStranded, Appr!NoRequestStranded
  <2>1. CASE q.id = x
    <3>1. \E i \in DOMAIN net : 1 < i /\ Arrives(q, i)
      BY <1>1, <1>2, <1>4, <2>1 DEF OldNews
    <3> QED BY <3>1, <1>9
  <2>2. CASE q.id # x
    <3>1. CASE \E i \in DOMAIN approvals : approvals[i].id = q.id
      <4>1. PICK i \in DOMAIN approvals : approvals[i].id = q.id BY <3>1
      <4>2. PICK j \in DOMAIN approvals' : approvals'[j] = approvals[i] BY <1>5, <2>2, <4>1
      <4> QED BY <4>1, <4>2
    <3>2. CASE \E i \in DOMAIN net : Arrives(q, i) BY <3>2, <1>9
    <3> QED BY <3>1, <3>2 DEF NoRequestStranded, Appr!NoRequestStranded, Arrives
  <2> QED BY <2>1, <2>2
<1> QED BY <1>6, <1>7, <1>8, <1>10

\* A request that is answered or shown leaves the queue.
LEMMA AnsweredSafe ==
    ASSUME ApprInv, NEW x, NEW result \in [grants : BOOLEAN, scope : {"turn", "session"}],
           NEW r \in Shown, r.id = x,
           answers' = Append(answers, [shown |-> r, result |-> result]),
           approvals' \in Seq(Shown),
           \A i, j \in DOMAIN approvals' : approvals'[i].id = approvals'[j].id => i = j,
           \A i \in DOMAIN approvals :
             approvals[i].id # x => \E j \in DOMAIN approvals' : approvals'[j] = approvals[i],
           apprDialog' \in {apprDialog, Appr!NoDialog},
           apprDialog' # apprDialog => apprDialog.id = x,
           UNCHANGED <<server, asked, net>>
    PROVE  ApprInv'
<1> USE DEF ApprInv
<1> DEFINE Answers == [shown : Shown, result : [grants : BOOLEAN, scope : {"turn", "session"}]]
<1>1. /\ answers' \in Seq(Answers)
      /\ \A i \in DOMAIN answers : i \in DOMAIN answers' /\ answers'[i] = answers[i]
      /\ \E i \in DOMAIN answers' : answers'[i].shown = r
  <2>1. answers \in Seq(Answers) BY DEF ApprTyped
  <2>2. PICK e : e = [shown |-> r, result |-> result] OBVIOUS
  <2>3. e \in Answers /\ e.shown = r BY <2>2
  <2> HIDE DEF Answers
  <2>4. /\ answers' \in Seq(Answers)
        /\ DOMAIN answers' = DOMAIN answers \cup {Len(answers) + 1}
        /\ \A i \in DOMAIN answers : answers'[i] = answers[i]
        /\ answers'[Len(answers) + 1] = e
    BY <2>1, <2>2, <2>3, Appended
  <2> QED BY <2>3, <2>4
<1>2. ApprTyped' BY <1>1 DEF ApprTyped
<1>3. OncePerId' /\ OldNews' BY DEF OncePerId, OldNews, Arrives
<1>4. NoRequestStranded'
  <2> SUFFICES ASSUME NEW q \in server
               PROVE  \/ \E i \in DOMAIN net : net[i] = [kind |-> "request", request |-> q]
                      \/ \E i \in DOMAIN approvals' : approvals'[i].id = q.id
                      \/ apprDialog'.id = q.id
                      \/ \E i \in DOMAIN answers' : answers'[i].shown.id = q.id
    BY DEF NoRequestStranded, Appr!NoRequestStranded
  <2>1. CASE q.id = x BY <2>1, <1>1
  <2>2. CASE q.id # x
    <3>1. CASE \E i \in DOMAIN approvals : approvals[i].id = q.id
      <4>1. PICK i \in DOMAIN approvals : approvals[i].id = q.id BY <3>1
      <4>2. PICK j \in DOMAIN approvals' : approvals'[j] = approvals[i] BY <2>2, <4>1
      <4> QED BY <4>1, <4>2
    <3>2. CASE \E i \in DOMAIN answers : answers[i].shown.id = q.id BY <3>2, <1>1
    <3>3. CASE apprDialog.id = q.id BY <3>3, <2>2
    <3> QED BY <3>1, <3>2, <3>3 DEF NoRequestStranded, Appr!NoRequestStranded
  <2> QED BY <2>1, <2>2
<1> QED BY <1>2, <1>3, <1>4

LEMMA ResolveApprovalSafe == ASSUME ApprInv, Appr!ResolveApproval PROVE ApprInv'
<1> USE DEF ApprInv
<1>1. PICK decision \in Appr!Decisions, r \in {Head(approvals)} :
        IF Appr!OpensDialog(r, decision)
        THEN apprDialog' = r /\ UNCHANGED <<approvals, answers>>
        ELSE /\ answers' = Append(answers, [shown |-> r, result |-> Appr!Result(r.method, decision)])
             /\ approvals' = Tail(approvals) /\ UNCHANGED apprDialog
  BY DEF Appr!ResolveApproval, Appr!Respond
<1>2. approvals # <<>> /\ UNCHANGED <<server, asked, net>> /\ apprDialog = Appr!NoDialog
  BY DEF Appr!ResolveApproval
<1>3. /\ Tail(approvals) \in Seq(Shown) /\ r \in Shown /\ approvals[1] = r /\ 1 \in DOMAIN approvals
      /\ \A i \in DOMAIN Tail(approvals) :
           Tail(approvals)[i] = approvals[i + 1] /\ i + 1 \in DOMAIN approvals /\ i \in Nat
      /\ \A i \in DOMAIN approvals : i \in Nat /\ (i # 1 => i - 1 \in DOMAIN Tail(approvals))
  BY <1>1, <1>2, Shortened DEF ApprTyped
<1>4. CASE Appr!OpensDialog(r, decision)
  <2>1. apprDialog' = r /\ UNCHANGED <<approvals, answers>> BY <1>1, <1>4
  <2>2. ApprTyped' /\ OncePerId' /\ OldNews'
    BY <1>2, <1>3, <2>1 DEF ApprTyped, OncePerId, OldNews, Arrives
  <2>3. \A q \in server : apprDialog.id # q.id
    BY <1>2 DEF ApprTyped, Appr!NoDialog
  <2>4. NoRequestStranded'
    BY <1>2, <2>1, <2>3 DEF NoRequestStranded, Appr!NoRequestStranded
  <2> QED BY <2>2, <2>4
<1>5. CASE ~Appr!OpensDialog(r, decision)
  <2>1. /\ answers' = Append(answers, [shown |-> r, result |-> Appr!Result(r.method, decision)])
        /\ approvals' = Tail(approvals) /\ UNCHANGED apprDialog
    BY <1>1, <1>5
  <2>2. Appr!Result(r.method, decision) \in [grants : BOOLEAN, scope : {"turn", "session"}]
    BY DEF Appr!Result, Appr!Accepts
  <2>3. \A i \in DOMAIN approvals' : approvals'[i] = approvals[i + 1]
    BY <1>3, <2>1
  <2>4. \A i, j \in DOMAIN approvals' : approvals'[i].id = approvals'[j].id => i = j
    <3> SUFFICES ASSUME NEW i \in DOMAIN approvals', NEW j \in DOMAIN approvals',
                        approvals'[i].id = approvals'[j].id
                 PROVE  i = j
      OBVIOUS
    <3>1. i + 1 = j + 1 BY <1>3, <2>1, <2>3 DEF OncePerId
    <3> QED BY <3>1, <1>3, <2>1
  <2>5. ASSUME NEW i \in DOMAIN approvals, approvals[i].id # r.id
        PROVE  \E j \in DOMAIN approvals' : approvals'[j] = approvals[i]
    <3>1. i # 1 BY <1>3, <2>5
    <3>2. i - 1 \in DOMAIN approvals' /\ approvals'[i - 1] = approvals[i] BY <1>3, <2>1, <3>1
    <3> QED BY <3>2
  <2> QED BY <1>2, <1>3, <2>1, <2>2, <2>4, <2>5, AnsweredSafe
<1> QED BY <1>4, <1>5

LEMMA CloseDialogSafe == ASSUME ApprInv, Appr!CloseDialog PROVE ApprInv'
<1> USE DEF ApprInv
<1>1. PICK submitted \in BOOLEAN :
        answers' = Append(answers, [shown |-> apprDialog,
                                    result |-> [grants |-> submitted, scope |-> "turn"]])
  BY DEF Appr!CloseDialog, Appr!Respond
<1>2. /\ apprDialog # Appr!NoDialog /\ apprDialog' = Appr!NoDialog
      /\ approvals' = Appr!Without(apprDialog.id) /\ UNCHANGED <<server, asked, net>>
  BY DEF Appr!CloseDialog, Appr!AfterDialog
<1>3. apprDialog \in Shown BY <1>2 DEF ApprTyped
<1>4. [grants |-> submitted, scope |-> "turn"] \in [grants : BOOLEAN, scope : {"turn", "session"}]
  OBVIOUS
<1>5. /\ approvals' \in Seq(Shown)
      /\ \A i, j \in DOMAIN approvals' : approvals'[i].id = approvals'[j].id => i = j
      /\ \A i \in DOMAIN approvals :
           approvals[i].id # apprDialog.id => \E j \in DOMAIN approvals' : approvals'[j] = approvals[i]
  BY <1>2, WithoutOne DEF ApprTyped, OncePerId
<1> QED BY <1>1, <1>2, <1>3, <1>4, <1>5, AnsweredSafe

LEMMA ApprSteps == ASSUME ApprInv, [Appr!Next]_Appr!vars PROVE ApprInv'
<1>1. CASE UNCHANGED Appr!vars
  BY <1>1 DEF Appr!vars, ApprInv, ApprTyped, OncePerId, OldNews, Arrives,
              NoRequestStranded, Appr!NoRequestStranded
<1> QED
  BY <1>1, AskUserSafe, ResolvedElsewhereSafe, TakeAnswerSafe, LoseConnectionSafe,
     OnRequestSafe, OnResolvedSafe, ResolveApprovalSafe, CloseDialogSafe DEF Appr!Next

\* Whatever another client resolves while a dialog is open and however
\* connections are lost, a request the server waits on can still be answered
\* (resolve_approval, ui/mod.rs:10908).
THEOREM RequestsAnswerable == Appr!Spec => []NoRequestStranded
<1> QED BY ApprStarts, ApprSteps, PTL DEF Appr!Spec, ApprInv

---------------------------------------------------------------------------
(* The hub's own requests.                                                 *)

ManagedInv ==
    /\ \A r \in pending : DOMAIN r = {"id", "kind", "env", "old"}
    /\ NoRefreshLost

\* A new request joins those that are pending.
LEMMA QueuedToo ==
    ASSUME NEW entries, NEW kind, NEW env, Managed!Queue(entries, kind, env),
           \A r \in entries : DOMAIN r = {"id", "kind", "env", "old"}
    PROVE  /\ \A r \in pending' : DOMAIN r = {"id", "kind", "env", "old"}
           /\ entries \subseteq pending'
           /\ \E r \in pending' : r.kind = kind
<1>1. PICK r : r = [id |-> nextId, kind |-> kind, env |-> env, old |-> FALSE] OBVIOUS
<1>2. pending' = entries \cup {r} BY <1>1 DEF Managed!Queue
<1>3. DOMAIN r = {"id", "kind", "env", "old"} /\ r.kind = kind BY <1>1
<1> QED BY <1>2, <1>3

LEMMA ManagedSteps == ASSUME ManagedInv, [Managed!Next]_Managed!vars PROVE ManagedInv'
<1> USE DEF ManagedInv, NoRefreshLost, Managed!NoRefreshLost, Managed!Refreshing, Managed!IsRefresh
<1>1. CASE UNCHANGED Managed!vars BY <1>1 DEF Managed!vars
<1>2. CASE Managed!Refresh
  <2>1. CASE Managed!Refreshing BY <1>2, <2>1 DEF Managed!Refresh
  <2>2. CASE ~Managed!Refreshing
    <3>1. Managed!Queue(pending, "status", NoEnv) BY <1>2, <2>2 DEF Managed!Refresh
    <3> QED BY <3>1, QueuedToo
  <2> QED BY <2>1, <2>2
<1>3. CASE Managed!Revoke
  <2>1. Managed!Queue(pending, "revoke", NoEnv) /\ UNCHANGED <<up, owed>>
    BY <1>3 DEF Managed!Revoke
  <2> QED BY <2>1, QueuedToo
<1>4. CASE Managed!Answer \/ Managed!Change
  <2>1. UNCHANGED <<up, pending, owed>>
    <3>1. CASE Managed!Answer BY <3>1 DEF Managed!Answer
    <3>2. CASE Managed!Change BY <3>2 DEF Managed!Change
    <3> QED BY <1>4, <3>1, <3>2
  <2> QED BY <2>1
<1>5. CASE Managed!OnAnswer
  <2>1. PICK f : f = Head(frames) OBVIOUS
  <2>2. CASE ~\E r \in pending : r.id = f.id
    BY <1>5, <2>1, <2>2 DEF Managed!OnAnswer
  <2>3. CASE \E r \in pending : r.id = f.id
    <3>1. PICK r : r = CHOOSE x \in pending : x.id = f.id OBVIOUS
    <3>2. r \in pending BY <2>3, <3>1
    <3>3. CASE /\ Managed!Queue(pending \ {r}, "clients", f.env) /\ UNCHANGED <<up, owed>>
      BY <3>3, QueuedToo
    <3>4. CASE Managed!Settled(r, pending \ {r}) /\ UNCHANGED up
      BY <3>4 DEF Managed!Settled
    <3> QED BY <1>5, <2>1, <2>3, <3>1, <3>3, <3>4 DEF Managed!OnAnswer
  <2> QED BY <2>2, <2>3
<1>6. CASE Managed!OnChanged
  <2>1. CASE Managed!Covered(pending) BY <1>6, <2>1 DEF Managed!OnChanged
  <2>2. CASE ~Managed!Covered(pending)
    <3>1. Managed!Queue(pending, "status", NoEnv) BY <1>6, <2>2 DEF Managed!OnChanged
    <3> QED BY <3>1, QueuedToo
  <2> QED BY <2>1, <2>2
<1>7. CASE Managed!Heartbeat
  <2>1. PICK gone : gone = {r \in pending : r.old} OBVIOUS
  <2>2. /\ pending' = {[r EXCEPT !.old = TRUE] : r \in pending \ gone}
        /\ owed' = (owed /\ ~\E r \in gone : r.kind \in {"status", "clients"}) /\ UNCHANGED up
    BY <1>7, <2>1 DEF Managed!Heartbeat, Managed!Expired
  <2>3. \A r \in pending : /\ DOMAIN [r EXCEPT !.old = TRUE] = DOMAIN r
                           /\ [r EXCEPT !.old = TRUE].kind = r.kind
    OBVIOUS
  <2>4. \A r \in pending' : DOMAIN r = {"id", "kind", "env", "old"} BY <2>2, <2>3
  <2>5. NoRefreshLost'
    <3> SUFFICES ASSUME up, owed' PROVE \E r \in pending' : r.kind \in {"status", "clients"}
      BY <2>2
    <3>1. PICK r \in pending : r.kind \in {"status", "clients"} /\ r \notin gone BY <2>2
    <3> QED BY <3>1, <2>2, <2>3
  <2> QED BY <2>4, <2>5
<1>8. CASE Managed!Disconnect BY <1>8 DEF Managed!Disconnect
<1>9. CASE Managed!Connect
  <2>1. PICK r : r = [id |-> 0, kind |-> "status", env |-> NoEnv, old |-> FALSE] OBVIOUS
  <2>2. pending' = {r} BY <1>9, <2>1 DEF Managed!Connect
  <2>3. DOMAIN r = {"id", "kind", "env", "old"} /\ r.kind = "status" BY <2>1
  <2> QED BY <2>2, <2>3
<1> QED
  BY <1>1, <1>2, <1>3, <1>4, <1>5, <1>6, <1>7, <1>8, <1>9 DEF Managed!Next

\* A status the window waits for is being asked for, whatever answers come
\* late, expire or are coalesced (expire_managed_remote_requests, backend.rs:870).
THEOREM RefreshesAsked == Managed!Spec => []NoRefreshLost
<1>1. Managed!Init => ManagedInv
  BY DEF Managed!Init, ManagedInv, NoRefreshLost, Managed!NoRefreshLost
<1> QED BY <1>1, ManagedSteps, PTL DEF Managed!Spec, ManagedInv

---------------------------------------------------------------------------
(* Account profiles.                                                       *)

Owners == Profiles \cup {NoTask}

\* The tasks of the profile the window is attached to.
Here == {t \in Tasks : born[t] = hub}

ProfileTyped ==
    /\ born \in [Tasks -> Owners] /\ owner \in [Tasks -> Owners]
    /\ \A t \in kept : t \in Tasks /\ born[t] # NoTask
    /\ hub = profileActive /\ hub \in Profiles /\ profiles \subseteq Profiles

\* A row that the index knows no owner of is a task of the attached profile.
RowsLead == \A t \in profileRows : t \in Tasks /\ (owner[t] = NoTask => t \in Here)

\* What the window acts on is a task of the attached profile.
ActsHere ==
    /\ selected \subseteq Here
    /\ profileOpen \in Here \cup {NoTask}
    /\ \A r \in profilePending : r[2] \in Here \cup {NoTask}

ProfileInv == ProfileTyped /\ RowsLead /\ ActsHere /\ Isolated

\* The profile stays: tasks are made and recorded in it, and asked about.
LEMMA StaysHere ==
    ASSUME ProfileInv, UNCHANGED <<hub, profileActive>>, profiles' \subseteq Profiles,
           born' \in [Tasks -> Owners], \A t \in Tasks : born[t] # NoTask => born'[t] = born[t],
           owner' \in [Tasks -> Owners],
           \A t \in Tasks : owner'[t] = owner[t] \/ (owner'[t] = hub /\ t \in Here'),
           \A t \in kept' : t \in Tasks /\ born'[t] # NoTask,
           \A t \in profileRows' :
             t \in profileRows \/ (t \in Tasks /\ (t \in Here' \/ owner'[t] # NoTask)),
           ActsHere'
    PROVE  ProfileInv'
<1> USE DEF ProfileInv
<1>1. hub # NoTask BY PartsAssumption DEF ProfileTyped
<1>2. ProfileTyped' BY DEF ProfileTyped
<1>3. Here \subseteq Here' BY <1>1 DEF Here
<1>4. RowsLead'
  <2> SUFFICES ASSUME NEW t \in profileRows' PROVE t \in Tasks /\ (owner'[t] = NoTask => t \in Here')
    BY DEF RowsLead
  <2>1. CASE t \in profileRows BY <2>1, <1>1, <1>3 DEF RowsLead
  <2>2. CASE t \notin profileRows BY <2>2
  <2> QED BY <2>1, <2>2
<1>5. Isolated'
  <2>1. \A t \in Tasks : owner'[t] \in {NoTask, born'[t]}
    <3> SUFFICES ASSUME NEW t \in Tasks PROVE owner'[t] \in {NoTask, born'[t]} OBVIOUS
    <3>1. owner[t] \in {NoTask, born[t]} BY DEF Isolated, Profile!Isolated
    <3> QED BY <3>1 DEF Here
  <2> QED BY <2>1 DEF ActsHere, Here, Isolated, Profile!Isolated
<1> QED BY <1>2, <1>4, <1>5

\* The window is attached anew: nothing it acted on is left.
LEMMA AttachedAnew ==
    ASSUME ProfileInv, NEW p \in Profiles, profiles' \subseteq Profiles,
           hub' = p, profileActive' = p, profileRows' = {}, profileOpen' = NoTask,
           profilePending' = {}, selected' = {}, UNCHANGED <<born, kept, owner>>
    PROVE  ProfileInv'
<1> USE DEF ProfileInv
<1>1. ProfileTyped' BY DEF ProfileTyped
<1>2. RowsLead' /\ ActsHere' BY DEF RowsLead, ActsHere
<1>3. Isolated' BY DEF Isolated, Profile!Isolated
<1> QED BY <1>1, <1>2, <1>3

LEMMA ActivateSafe ==
    ASSUME ProfileInv, NEW p \in Profiles, NEW then, Profile!Activate(p, then),
           profiles' \subseteq Profiles
    PROVE  ProfileInv'
BY AttachedAnew DEF Profile!Activate, Profile!AttachTo, Profile!FreshState, Profile!server

LEMMA SwitchSafe ==
    ASSUME ProfileInv, Profile!SwitchProfile \/ Profile!AddProfile \/ Profile!Restart
    PROVE  ProfileInv'
<1>1. profiles \subseteq Profiles /\ profileActive = hub /\ hub \in Profiles
  BY DEF ProfileInv, ProfileTyped
<1>2. CASE Profile!SwitchProfile
  BY <1>1, <1>2, ActivateSafe DEF Profile!SwitchProfile
<1>3. CASE Profile!AddProfile
  <2>1. PICK p \in Profiles \ profiles :
          /\ profiles' = profiles \cup {p}
          /\ \/ /\ Profile!FinishFirst
                /\ UNCHANGED <<Profile!server, Profile!link, profileActive, owner, Profile!state,
                               Profile!view>>
             \/ Profile!Activate(p, deferred)
    BY <1>3 DEF Profile!AddProfile
  <2>2. profiles' \subseteq Profiles BY <1>1, <2>1
  <2>3. CASE UNCHANGED <<Profile!server, Profile!link, profileActive, owner, Profile!state,
                         Profile!view>>
    <3>1. UNCHANGED <<born, kept, hub, profileActive, owner, profileRows, profileOpen,
                      profilePending, selected>>
      BY <2>3 DEF Profile!server, Profile!link, Profile!state, Profile!view
    <3>2. ProfileTyped' /\ RowsLead' /\ ActsHere' /\ Isolated'
      BY <2>2, <3>1 DEF ProfileInv, ProfileTyped, RowsLead, ActsHere, Here, Isolated,
                        Profile!Isolated
    <3> QED BY <3>2 DEF ProfileInv
  <2> QED BY <2>1, <2>2, <2>3, ActivateSafe
<1>4. CASE Profile!Restart
  <2>1. /\ hub' = profileActive /\ profileRows' = {} /\ profileOpen' = NoTask
        /\ profilePending' = {} /\ selected' = {}
        /\ UNCHANGED <<born, kept, owner, profiles, profileActive>>
    BY <1>4 DEF Profile!Restart, Profile!AttachTo, Profile!FreshState, Profile!server,
                Profile!stored
  <2> QED BY <1>1, <2>1, AttachedAnew
<1> QED BY <1>2, <1>3, <1>4

\* The tasks of the profile, the index and the rows stay: only requests, the
\* open task and the selection change, or rows go.
LEMMA OnlyActs ==
    ASSUME ProfileInv, UNCHANGED <<born, hub, profiles, profileActive, owner>>,
           kept' \subseteq kept, profileRows' \subseteq profileRows,
           selected' \subseteq Here, profileOpen' \in Here \cup {NoTask},
           \A r \in profilePending' : r[2] \in Here \cup {NoTask}
    PROVE  ProfileInv'
<1>1. ActsHere' BY DEF ActsHere, Here
<1>2. /\ \A t \in kept' : t \in Tasks /\ born'[t] # NoTask
      /\ profiles' \subseteq Profiles
      /\ born' \in [Tasks -> Owners] /\ owner' \in [Tasks -> Owners]
  BY DEF ProfileInv, ProfileTyped
<1> QED BY <1>1, <1>2, StaysHere

LEMMA ConnectionSafe ==
    ASSUME ProfileInv, Profile!Ready \/ Profile!Disconnect \/ Profile!Failed
    PROVE  ProfileInv'
<1> DEFINE Opened == IF profileOpen # NoTask THEN {<<"open", profileOpen>>} ELSE {}
<1>1. /\ UNCHANGED <<born, kept, hub, profiles, profileActive, owner, profileRows, profileOpen, selected>>
      /\ profilePending' \subseteq profilePending \cup {<<"list", NoTask>>} \cup Opened
  <2>1. CASE Profile!Ready
    BY <2>1 DEF Profile!Ready, Profile!server, Profile!stored
  <2>2. CASE Profile!Disconnect
    BY <2>2 DEF Profile!Disconnect, Profile!view, Profile!stored
  <2>3. CASE Profile!Failed
    BY <2>3 DEF Profile!Failed, Profile!server, Profile!link, Profile!view, Profile!stored
  <2> QED BY <2>1, <2>2, <2>3
<1>2. \A r \in profilePending' : r[2] \in Here \cup {NoTask}
  BY <1>1 DEF ProfileInv, ActsHere
<1> QED BY <1>1, <1>2, OnlyActs DEF ProfileInv, ActsHere

\* A row that may be ours is of the attached profile.
LEMMA OursHere ==
    ASSUME ProfileInv, NEW t \in profileRows, Profile!MayBeOurs(t)
    PROVE  t \in Here
<1>1. t \in Tasks /\ profileActive = hub /\ (owner[t] = NoTask => t \in Here)
  BY DEF ProfileInv, ProfileTyped, RowsLead
<1>2. owner[t] \in {NoTask, born[t]} BY <1>1 DEF ProfileInv, Isolated, Profile!Isolated
<1>3. owner[t] \in {NoTask, hub} BY <1>1 DEF Profile!MayBeOurs
<1> QED BY <1>1, <1>2, <1>3 DEF Here

\* A user who asks about one task, or none.
LEMMA AsksSafe ==
    ASSUME ProfileInv, Profile!NewTask \/ Profile!ActOnOpen \/ Profile!Search
    PROVE  ProfileInv'
<1>1. /\ UNCHANGED <<born, kept, hub, profiles, profileActive, owner, profileRows, selected>>
      /\ profileOpen' \in {profileOpen, NoTask}
      /\ \A r \in profilePending' : r \in profilePending \/ r[2] \in {NoTask, profileOpen}
  <2>1. CASE Profile!NewTask
    BY <2>1 DEF Profile!NewTask, Profile!Ask, Profile!server, Profile!link, Profile!stored, Profile!view
  <2>2. CASE Profile!ActOnOpen
    BY <2>2 DEF Profile!ActOnOpen, Profile!Ask, Profile!server, Profile!link, Profile!stored, Profile!view
  <2>3. CASE Profile!Search
    BY <2>3 DEF Profile!Search, Profile!Ask, Profile!server, Profile!link, Profile!stored, Profile!view
  <2> QED BY <2>1, <2>2, <2>3
<1> QED BY <1>1, OnlyActs DEF ProfileInv, ActsHere

LEMMA RowSafe == ASSUME ProfileInv, Profile!OpenTimelineThread PROVE ProfileInv'
<1>1. PICK t \in profileRows : Profile!OpenRow(t) BY DEF Profile!OpenTimelineThread
<1>2. CASE Profile!Activate(owner[t], t) /\ owner[t] \in profiles /\ UNCHANGED profiles
  BY <1>2, ActivateSafe DEF ProfileInv, ProfileTyped
<1>3. CASE /\ deferred' = NoTask
           /\ UNCHANGED <<Profile!server, Profile!link, Profile!stored, Profile!state, selecting,
                          selected>>
  <2>1. UNCHANGED <<born, kept, hub, profiles, profileActive, owner, profileRows, profileOpen,
                    profilePending, selected>>
    BY <1>3 DEF Profile!server, Profile!link, Profile!stored, Profile!state
  <2> QED BY <2>1, OnlyActs DEF ProfileInv, ActsHere
<1>4. CASE Profile!MayBeOurs(t) /\ Profile!OpenHere(t)
  <2>1. t \in Here BY <1>4, OursHere
  <2>2. /\ UNCHANGED <<born, kept, hub, profiles, profileActive, owner, profileRows, selected>>
        /\ profileOpen' = t /\ profilePending' = profilePending \cup {<<"open", t>>}
    BY <1>4 DEF Profile!OpenHere, Profile!Ask, Profile!server, Profile!link, Profile!stored,
                Profile!view
  <2>3. \A r \in profilePending' : r[2] \in Here \cup {NoTask}
    BY <2>1, <2>2 DEF ProfileInv, ActsHere
  <2> QED BY <2>1, <2>2, <2>3, OnlyActs DEF ProfileInv, ActsHere
<1> QED BY <1>1, <1>2, <1>3, <1>4 DEF Profile!OpenRow

LEMMA SelectSafe ==
    ASSUME ProfileInv, Profile!SelectionMode \/ Profile!ToggleTask \/ Profile!ToggleAll
    PROVE  ProfileInv'
<1>1. UNCHANGED <<Profile!server, Profile!link, Profile!stored, Profile!state>>
  BY DEF Profile!SelectionMode, Profile!ToggleTask, Profile!ToggleAll
<1>2. UNCHANGED <<born, kept, hub, profiles, profileActive, owner, profileRows, profileOpen,
                  profilePending>>
  BY <1>1 DEF Profile!server, Profile!link, Profile!stored, Profile!state
<1>3. selected \subseteq Here BY DEF ProfileInv, ActsHere
<1>4. selected' \subseteq Here
  <2>1. CASE Profile!SelectionMode BY <1>3, <2>1 DEF Profile!SelectionMode
  <2>2. CASE Profile!ToggleTask
    <3>1. PICK t \in profileRows :
            /\ Profile!MayBeOurs(t)
            /\ selected' = IF t \in selected THEN selected \ {t} ELSE selected \cup {t}
      BY <2>2 DEF Profile!ToggleTask
    <3> QED BY <1>3, <3>1, OursHere
  <2>3. CASE Profile!ToggleAll
    <3>1. PICK ours : ours = {t \in profileRows : Profile!MayBeOurs(t)} OBVIOUS
    <3>2. selected' = IF ours \subseteq selected THEN selected \ ours ELSE selected \cup ours
      BY <2>3, <3>1 DEF Profile!ToggleAll
    <3>3. ours \subseteq Here BY <3>1, OursHere
    <3> QED BY <1>3, <3>2, <3>3
  <2> QED BY <2>1, <2>2, <2>3
<1> QED BY <1>2, <1>4, OnlyActs DEF ProfileInv, ActsHere

LEMMA BulkSafe == ASSUME ProfileInv, Profile!BulkMutation PROVE ProfileInv'
<1>1. PICK kind \in Profile!Bulk, chosen \in {Profile!selected_existing_task_ids} :
        Profile!start_bulk_task_mutation(kind, chosen)
  BY DEF Profile!BulkMutation
<1>2. chosen \subseteq Here
  BY <1>1 DEF Profile!selected_existing_task_ids, ProfileInv, ActsHere
<1>3. /\ UNCHANGED <<born, kept, hub, profiles, profileActive, owner, profileRows, profileOpen>>
      /\ selected' = {}
      /\ profilePending' = profilePending \cup {<<kind, t>> : t \in chosen}
  BY <1>1 DEF Profile!start_bulk_task_mutation, Profile!server, Profile!link, Profile!stored
<1>4. \A r \in profilePending' : r[2] \in Here \cup {NoTask}
  BY <1>2, <1>3 DEF ProfileInv, ActsHere
<1> QED BY <1>3, <1>4, OnlyActs DEF ProfileInv, ActsHere

\* What the answers record is of the attached profile.
LEMMA RecordedHere ==
    ASSUME ProfileInv, NEW ts, Profile!record_shared_tasks(ts),
           \A t \in ts : t \in Here
    PROVE  /\ owner' \in [Tasks -> Owners]
           /\ \A t \in Tasks : owner'[t] = owner[t] \/ (owner'[t] = hub /\ t \in Here)
           /\ \A t \in ts : owner'[t] = hub
<1>1. /\ owner \in [Tasks -> Owners] /\ profileActive = hub /\ hub \in Profiles
      /\ ts \subseteq Tasks
  BY DEF ProfileInv, ProfileTyped, Here
<1>2. owner' = [t \in Tasks |-> IF t \in ts THEN hub ELSE owner[t]]
  BY <1>1 DEF Profile!record_shared_tasks
<1> QED BY <1>1, <1>2 DEF Owners

LEMMA ThereHere == ASSUME ProfileInv PROVE Profile!There \subseteq Here
BY DEF Profile!There, Here, ProfileInv, ProfileTyped

\* A row another profile owns keeps its owner, but for what is recorded.
LEMMA ElsewhereOwned ==
    ASSUME ProfileInv, NEW t \in Profile!shared_tasks_except,
           \A u \in Tasks : owner'[u] = owner[u] \/ owner'[u] = hub
    PROVE  t \in Tasks /\ owner'[t] # NoTask
BY PartsAssumption DEF Profile!shared_tasks_except, ProfileInv, ProfileTyped

LEMMA ListSafe == ASSUME ProfileInv, Profile!ListAnswered PROVE ProfileInv'
<1>1. PICK ts \in SUBSET Profile!There :
        LET r == <<"list", NoTask>>
            now == Profile!set_threads(ts) \cup (Profile!shared_tasks_except \ ts)
            jump == Profile!open_deferred_shared_thread(ts, now)
        IN  /\ Profile!record_shared_tasks(ts)
            /\ profileRows' = now
            /\ profileOpen' \in IF jump = {} THEN {profileOpen} ELSE jump
            /\ profilePending' = (profilePending \ {r}) \cup {<<"open", t>> : t \in jump}
            /\ UNCHANGED <<Profile!server, Profile!link, profiles, profileActive, selected>>
  BY DEF Profile!ListAnswered
<1> DEFINE now == Profile!set_threads(ts) \cup (Profile!shared_tasks_except \ ts)
<1>2. PICK jump : jump = Profile!open_deferred_shared_thread(ts, now) OBVIOUS
<1>3. ts \subseteq Here BY ThereHere
<1>4. /\ owner' \in [Tasks -> Owners]
      /\ \A t \in Tasks : owner'[t] = owner[t] \/ (owner'[t] = hub /\ t \in Here)
  BY <1>1, <1>3, RecordedHere
<1>5. UNCHANGED <<born, kept, hub, profiles, profileActive, selected>>
  BY <1>1 DEF Profile!server, Profile!link
<1>6. jump \subseteq Here
  <2> SUFFICES ASSUME NEW t \in jump PROVE t \in Here OBVIOUS
  <2>1. t \in now /\ (t \in ts \/ owner[t] = profileActive)
    BY <1>2 DEF Profile!open_deferred_shared_thread
  <2>2. CASE t \in ts BY <1>3, <2>2
  <2>3. CASE t \notin ts
    <3>1. owner[t] = hub /\ profileActive = hub
      BY <2>1, <2>3 DEF ProfileInv, ProfileTyped
    <3>2. t \in profileRows \/ t \in Profile!shared_tasks_except
      BY <2>1, <2>3 DEF Profile!set_threads
    <3>3. t \in profileRows BY <3>1, <3>2 DEF Profile!shared_tasks_except
    <3> QED BY <3>1, <3>3, OursHere DEF Profile!MayBeOurs
  <2> QED BY <2>2, <2>3
<1>7. \A t \in profileRows' :
        t \in profileRows \/ (t \in Tasks /\ (t \in Here' \/ owner'[t] # NoTask))
  <2> SUFFICES ASSUME NEW t \in profileRows', t \notin profileRows
               PROVE  t \in Tasks /\ (t \in Here' \/ owner'[t] # NoTask)
    OBVIOUS
  <2>1. t \in ts \/ t \in Profile!shared_tasks_except BY <1>1 DEF Profile!set_threads
  <2>2. CASE t \in ts BY <2>2, <1>3, <1>5 DEF Here
  <2>3. CASE t \in Profile!shared_tasks_except BY <2>3, <1>4, ElsewhereOwned
  <2> QED BY <2>1, <2>2, <2>3
<1>8. profileOpen' \in IF jump = {} THEN {profileOpen} ELSE jump
  BY <1>1, <1>2
<1>9. profilePending' = (profilePending \ {<<"list", NoTask>>}) \cup {<<"open", t>> : t \in jump}
  BY <1>1, <1>2
<1>10. ActsHere'
  <2>1. profileOpen' \in Here \cup {NoTask} BY <1>6, <1>8 DEF ProfileInv, ActsHere
  <2>2. \A r \in profilePending' : r[2] \in Here \cup {NoTask}
    BY <1>6, <1>9 DEF ProfileInv, ActsHere
  <2> QED BY <1>5, <2>1, <2>2 DEF ActsHere, Here, ProfileInv
<1>11. \A t \in Tasks : owner'[t] = owner[t] \/ (owner'[t] = hub /\ t \in Here')
  BY <1>4, <1>5 DEF Here
<1> QED BY <1>4, <1>5, <1>7, <1>10, <1>11, StaysHere DEF ProfileInv, ProfileTyped

LEMMA SearchSafe == ASSUME ProfileInv, Profile!SearchAnswered PROVE ProfileInv'
<1>1. PICK ts \in SUBSET Profile!There :
        /\ Profile!record_shared_tasks(ts)
        /\ profileRows' = profileRows \cup ts \cup Profile!shared_tasks_except
        /\ profilePending' = profilePending \ {<<"search", NoTask>>}
        /\ UNCHANGED <<Profile!server, Profile!link, profiles, profileActive, profileOpen,
                       Profile!view>>
  BY DEF Profile!SearchAnswered
<1>2. ts \subseteq Here BY ThereHere
<1>3. /\ owner' \in [Tasks -> Owners]
      /\ \A t \in Tasks : owner'[t] = owner[t] \/ (owner'[t] = hub /\ t \in Here)
  BY <1>1, <1>2, RecordedHere
<1>4. UNCHANGED <<born, kept, hub, profiles, profileActive, profileOpen, selected>>
  BY <1>1 DEF Profile!server, Profile!link, Profile!view
<1>5. Here' = Here BY <1>4 DEF Here
<1>6. \A t \in profileRows' :
        t \in profileRows \/ (t \in Tasks /\ (t \in Here' \/ owner'[t] # NoTask))
  <2> SUFFICES ASSUME NEW t \in profileRows', t \notin profileRows
               PROVE  t \in Tasks /\ (t \in Here' \/ owner'[t] # NoTask)
    OBVIOUS
  <2>1. CASE t \in ts BY <2>1, <1>2, <1>5 DEF Here
  <2>2. CASE t \in Profile!shared_tasks_except BY <2>2, <1>3, ElsewhereOwned
  <2> QED BY <1>1, <2>1, <2>2
<1>7. ActsHere' BY <1>1, <1>4, <1>5 DEF ProfileInv, ActsHere
<1> QED BY <1>3, <1>4, <1>5, <1>6, <1>7, StaysHere DEF ProfileInv, ProfileTyped

\* A task that nobody has yet is made in the attached profile.
LEMMA MadeHere ==
    ASSUME ProfileInv, NEW t \in Tasks, born[t] = NoTask, born' = [born EXCEPT ![t] = hub],
           UNCHANGED hub
    PROVE  /\ born' \in [Tasks -> Owners]
           /\ \A u \in Tasks : born[u] # NoTask => born'[u] = born[u]
           /\ Here \subseteq Here' /\ t \in Here'
           /\ \A u \in kept \cup {t} : u \in Tasks /\ born'[u] # NoTask
<1>1. /\ born \in [Tasks -> Owners] /\ hub \in Profiles /\ hub # NoTask
      /\ \A u \in kept : u \in Tasks /\ born[u] # NoTask
  BY PartsAssumption DEF ProfileInv, ProfileTyped
<1>2. born' \in [Tasks -> Owners] /\ born'[t] = hub /\ \A u \in Tasks \ {t} : born'[u] = born[u]
  BY <1>1 DEF Owners
<1> QED BY <1>1, <1>2 DEF Here

LEMMA MadeSafe == ASSUME ProfileInv, Profile!TaskMade PROVE ProfileInv'
<1>1. PICK t \in Tasks, r \in profilePending :
        /\ born[t] = NoTask /\ born' = [born EXCEPT ![t] = hub] /\ kept' = kept \cup {t}
        /\ Profile!record_shared_tasks({t})
        /\ profileRows' = profileRows \cup {t} /\ profileOpen' = t
        /\ profilePending' = (profilePending \ {r})
                             \cup (IF r[1] = "start" THEN {<<"send", t>>} ELSE {})
        /\ UNCHANGED <<Profile!link, profiles, profileActive, Profile!view>>
  BY DEF Profile!TaskMade
<1>2. UNCHANGED <<hub, profiles, profileActive, selected>>
  BY <1>1 DEF Profile!link, Profile!view
<1>3. /\ born' \in [Tasks -> Owners]
      /\ \A u \in Tasks : born[u] # NoTask => born'[u] = born[u]
      /\ Here \subseteq Here' /\ t \in Here'
      /\ \A u \in kept' : u \in Tasks /\ born'[u] # NoTask
  BY <1>1, <1>2, MadeHere
<1>4. owner \in [Tasks -> Owners] /\ profileActive = hub /\ hub \in Profiles
  BY DEF ProfileInv, ProfileTyped
<1>5. owner' = [u \in Tasks |-> IF u \in {t} THEN hub ELSE owner[u]]
  BY <1>1, <1>4 DEF Profile!record_shared_tasks
<1>6. owner' \in [Tasks -> Owners] BY <1>4, <1>5 DEF Owners
<1>7. \A u \in Tasks : owner'[u] = owner[u] \/ (owner'[u] = hub /\ u \in Here')
  BY <1>3, <1>5
<1>8. ActsHere'
  <2>1. selected' \subseteq Here' /\ profileOpen' \in Here' \cup {NoTask}
    BY <1>1, <1>2, <1>3 DEF ProfileInv, ActsHere
  <2>2. \A q \in profilePending' : q[2] \in Here' \cup {NoTask}
    BY <1>1, <1>3 DEF ProfileInv, ActsHere
  <2> QED BY <2>1, <2>2 DEF ActsHere
<1>9. \A u \in profileRows' :
        u \in profileRows \/ (u \in Tasks /\ (u \in Here' \/ owner'[u] # NoTask))
  BY <1>1, <1>3
<1> QED BY <1>2, <1>3, <1>6, <1>7, <1>8, <1>9, StaysHere DEF ProfileInv, ProfileTyped

LEMMA StartedSafe == ASSUME ProfileInv, Profile!ThreadStarted PROVE ProfileInv'
<1>1. PICK t \in Tasks :
        /\ born[t] = NoTask /\ born' = [born EXCEPT ![t] = hub] /\ kept' = kept \cup {t}
        /\ profileRows' = profileRows \cup {t}
        /\ UNCHANGED <<Profile!link, Profile!stored, profileOpen, profilePending, Profile!view>>
  BY DEF Profile!ThreadStarted
<1>2. UNCHANGED <<hub, profiles, profileActive, owner, selected, profileOpen, profilePending>>
  BY <1>1 DEF Profile!link, Profile!view, Profile!stored
<1>3. /\ born' \in [Tasks -> Owners]
      /\ \A u \in Tasks : born[u] # NoTask => born'[u] = born[u]
      /\ Here \subseteq Here' /\ t \in Here'
      /\ \A u \in kept' : u \in Tasks /\ born'[u] # NoTask
  BY <1>1, <1>2, MadeHere
<1>4. ActsHere' BY <1>2, <1>3 DEF ProfileInv, ActsHere
<1>5. \A u \in profileRows' :
        u \in profileRows \/ (u \in Tasks /\ (u \in Here' \/ owner'[u] # NoTask))
  BY <1>1, <1>3
<1> QED BY <1>2, <1>3, <1>4, <1>5, StaysHere DEF ProfileInv, ProfileTyped

LEMMA OpenedSafe == ASSUME ProfileInv, Profile!OpenAnswered PROVE ProfileInv'
<1>1. PICK r \in profilePending :
        /\ r[2] \in Profile!There
        /\ Profile!record_shared_tasks({r[2]})
        /\ profileRows' = profileRows \cup {r[2]}
        /\ profilePending' = profilePending \ {r}
        /\ UNCHANGED <<Profile!server, Profile!link, profiles, profileActive, profileOpen,
                       Profile!view>>
  BY DEF Profile!OpenAnswered
<1>2. \A t \in {r[2]} : t \in Here BY <1>1, ThereHere
<1>3. /\ owner' \in [Tasks -> Owners]
      /\ \A t \in Tasks : owner'[t] = owner[t] \/ (owner'[t] = hub /\ t \in Here)
  BY <1>1, <1>2, RecordedHere
<1>4. UNCHANGED <<born, kept, hub, profiles, profileActive, profileOpen, selected>>
  BY <1>1 DEF Profile!server, Profile!link, Profile!view
<1>5. Here' = Here BY <1>4 DEF Here
<1>6. \A t \in profileRows' :
        t \in profileRows \/ (t \in Tasks /\ (t \in Here' \/ owner'[t] # NoTask))
  BY <1>1, <1>2, <1>5 DEF Here
<1>7. ActsHere' BY <1>1, <1>4, <1>5 DEF ProfileInv, ActsHere
<1> QED BY <1>3, <1>4, <1>5, <1>6, <1>7, StaysHere DEF ProfileInv, ProfileTyped

LEMMA EndsSafe ==
    ASSUME ProfileInv, Profile!SendAnswered \/ Profile!GoneAnswered \/ Profile!TurnCompleted
    PROVE  ProfileInv'
<1>1. CASE Profile!SendAnswered
  <2>1. /\ UNCHANGED <<born, kept, hub, profiles, profileActive, owner, profileRows, profileOpen,
                       selected>>
        /\ profilePending' \subseteq profilePending
    BY <1>1 DEF Profile!SendAnswered, Profile!link, Profile!stored, Profile!view
  <2> QED BY <2>1, OnlyActs DEF ProfileInv, ActsHere
<1>2. CASE Profile!GoneAnswered
  <2>1. /\ UNCHANGED <<born, hub, profiles, profileActive, owner, selected>>
        /\ kept' \subseteq kept /\ profileRows' \subseteq profileRows
        /\ profileOpen' \in {profileOpen, NoTask}
        /\ profilePending' \subseteq profilePending \cup {<<"list", NoTask>>}
    BY <1>2 DEF Profile!GoneAnswered, Profile!link, Profile!stored, Profile!view
  <2> QED BY <2>1, OnlyActs DEF ProfileInv, ActsHere
<1>3. CASE Profile!TurnCompleted
  <2>1. UNCHANGED <<born, kept, hub, profiles, profileActive, owner, profileRows, profileOpen,
                    selected, profilePending>>
    BY <1>3 DEF Profile!TurnCompleted, Profile!link, Profile!stored, Profile!view
  <2> QED BY <2>1, OnlyActs DEF ProfileInv, ActsHere
<1> QED BY <1>1, <1>2, <1>3

LEMMA ProfileSteps == ASSUME ProfileInv, [Profile!Next]_Profile!vars PROVE ProfileInv'
<1>1. CASE UNCHANGED Profile!vars
  <2>1. UNCHANGED <<born, kept, hub, profiles, profileActive, owner, profileRows, profileOpen,
                    selected, profilePending>>
    BY <1>1 DEF Profile!vars, Profile!server, Profile!link, Profile!stored, Profile!state,
                Profile!view
  <2> QED BY <2>1, OnlyActs DEF ProfileInv, ActsHere
<1> QED
  BY <1>1, SwitchSafe, ConnectionSafe, AsksSafe, RowSafe, SelectSafe, BulkSafe, ListSafe,
     SearchSafe, MadeSafe, StartedSafe, OpenedSafe, EndsSafe DEF Profile!Next

\* Nothing of one account reaches another, whatever the user switches, opens,
\* selects and changes, and however answers and outages come between
\* (activate_account_profile, ui/mod.rs:6115).
THEOREM AccountsApart == Profile!Spec => []Isolated
<1>1. Profile!Init => ProfileInv
  <2> SUFFICES ASSUME Profile!Init PROVE ProfileInv OBVIOUS
  <2>1. First \in Profiles BY PartsAssumption
  <2>2. ProfileTyped BY <2>1 DEF Profile!Init, ProfileTyped, Owners
  <2>3. RowsLead /\ ActsHere /\ Isolated
    BY DEF Profile!Init, RowsLead, ActsHere, Isolated, Profile!Isolated
  <2> QED BY <2>2, <2>3 DEF ProfileInv
<1> QED BY <1>1, ProfileSteps, PTL DEF Profile!Spec, ProfileInv

---------------------------------------------------------------------------
(* The goal of a task.                                                     *)

Known == {"active", "complete", "none"} \cup Goal!Stopped
Says == Known \cup BOOLEAN
Tidings ==
    [kind : {"updated", "answer"}, status : Says] \cup [kind : {"cleared", "started", "error"}]
    \cup [kind : {"completed"}, failed : BOOLEAN]

GoalTyped ==
    /\ goalConnected \in BOOLEAN /\ goalTurn \in BOOLEAN
    /\ serverGoal \in Known
    /\ goalStream \in Seq(Tidings)
    /\ goalAsked \in {<<>>} \cup [kind : {"open", "read", "goal", "status"}, status : Known]

\* A request is answered once, while it is in flight on a connection.
Reply(i) == i \in DOMAIN goalStream /\ goalStream[i].kind \in {"answer", "error"}
Replied ==
    /\ goalAsked # <<>> => goalConnected
    /\ \A i, j \in DOMAIN goalStream : Reply(i) /\ Reply(j) => i = j
    /\ \A i \in DOMAIN goalStream : Reply(i) => goalAsked # <<>>
    /\ \A i \in DOMAIN goalStream : goalStream[i].kind = "error" => goalAsked.kind = "status"

\* What is on its way that sets the window's copy, and to what.
Sets(i) ==
    /\ i \in DOMAIN goalStream
    /\ \/ goalStream[i].kind \in {"updated", "cleared"}
       \/ goalStream[i].kind = "answer" /\ goalAsked.kind # "open"
To(i) == IF goalStream[i].kind = "cleared" THEN "none" ELSE goalStream[i].status

\* The goal is still to be read at the server.
ToRead ==
    /\ goalAsked # <<>>
    /\ goalAsked.kind = "open" \/ (goalAsked.kind = "read" /\ \A i \in DOMAIN goalStream : ~Reply(i))

Agrees ==
    goal = serverGoal \/ (serverGoal = "active" /\ goal \in Goal!Stopped /\ reason # "none")

\* Unless it is still to be read, the last that sets the copy sets it to what
\* the server has, and the copy is right when there is none.
Told ==
    goalConnected /\ ~ToRead =>
      /\ (\A i \in DOMAIN goalStream : ~Sets(i)) => Agrees
      /\ \A i \in DOMAIN goalStream :
           Sets(i) /\ (\A j \in DOMAIN goalStream : Sets(j) => j <= i) => To(i) = serverGoal

GoalInv == GoalTyped /\ Replied /\ Told

LEMMA ToldIsTrue == GoalInv => GoalTrue
<1> SUFFICES ASSUME GoalInv, Goal!Settled PROVE Goal!GoalTrue
  BY DEF GoalTrue, Goal!GoalTrue
<1>1. goalConnected /\ goalStream = <<>> /\ goalAsked = <<>> BY DEF Goal!Settled
<1>2. Agrees BY <1>1 DEF GoalInv, Told, ToRead, Sets
<1> QED BY <1>2 DEF Agrees, Goal!GoalTrue, Goal!render_goal_selector, Goal!None

\* Something new sets the copy to what the server has.
LEMMA LastSets ==
    ASSUME goalStream' \in Seq(Tidings), NEW k \in DOMAIN goalStream',
           Sets(k)', To(k)' = serverGoal', \A j \in DOMAIN goalStream' : Sets(j)' => j <= k
    PROVE  Told'
<1>1. \A j \in DOMAIN goalStream' : j \in Int BY LenProperties
<1> QED BY <1>1 DEF Told

\* Nothing new sets the copy.
LEMMA NothingSets ==
    ASSUME Told, \A j : Sets(j)' <=> Sets(j), \A j : Sets(j) => To(j)' = To(j),
           ToRead => ToRead', Agrees => Agrees', UNCHANGED <<serverGoal, goalConnected>>
    PROVE  Told'
<1> SUFFICES ASSUME goalConnected', ~ToRead'
             PROVE  /\ (\A i \in DOMAIN goalStream' : ~Sets(i)') => Agrees'
                    /\ \A i \in DOMAIN goalStream' :
                         Sets(i)' /\ (\A j \in DOMAIN goalStream' : Sets(j)' => j <= i)
                         => To(i)' = serverGoal'
  BY DEF Told
<1>1. goalConnected /\ ~ToRead OBVIOUS
<1>2. \A j : (Sets(j) => j \in DOMAIN goalStream) /\ (Sets(j)' => j \in DOMAIN goalStream')
  BY DEF Sets
<1> QED BY <1>1, <1>2 DEF Told

\* The user asks for another goal.
LEMMA GoalAskSafe ==
    ASSUME GoalInv, NEW kind \in {"goal", "status"}, NEW aim \in Known,
           Goal!Ask(kind, aim)
    PROVE  GoalInv'
<1> USE DEF GoalInv
<1>1. /\ goalConnected /\ goalAsked = <<>> /\ goalAsked' = [kind |-> kind, status |-> aim]
      /\ UNCHANGED <<serverGoal, goalTurn, goalStream, goalConnected, goal, reason>>
  BY DEF Goal!Ask, Goal!server, Goal!window
<1>2. goalAsked' # <<>> /\ goalAsked'.kind = kind BY <1>1
<1>3. GoalTyped' BY <1>1 DEF GoalTyped
<1>4. \A i : ~Reply(i) /\ ~Reply(i)' BY <1>1 DEF Replied, Reply
<1>5. \A i \in DOMAIN goalStream : goalStream[i].kind # "error" BY <1>4 DEF Reply
<1>6. Replied' BY <1>1, <1>4, <1>5 DEF Replied
<1>7. \A i : Sets(i)' <=> Sets(i) BY <1>1, <1>4 DEF Sets, Reply
<1>8. (\A i : To(i)' = To(i)) /\ (Agrees => Agrees') BY <1>1 DEF To, Agrees
<1>9. ~ToRead BY <1>1 DEF ToRead
<1>10. Told' BY <1>1, <1>7, <1>8, <1>9, NothingSets
<1> QED BY <1>3, <1>6, <1>10

LEMMA StatusesKnown == Goal!Statuses \cup {Goal!None, "paused", "active", "complete"} \subseteq Known
BY PartsAssumption DEF Goal!Statuses, Goal!None, Goal!Stopped, Known

LEMMA GoalUserSafe ==
    ASSUME GoalInv, Goal!goal_dialog \/ Goal!confirm_clear_goal \/ Goal!set_goal_status
    PROVE  GoalInv'
<1>1. CASE Goal!goal_dialog BY <1>1, GoalAskSafe, StatusesKnown DEF Goal!goal_dialog
<1>2. CASE Goal!confirm_clear_goal
  BY <1>2, GoalAskSafe, StatusesKnown DEF Goal!confirm_clear_goal
<1>3. CASE Goal!set_goal_status BY <1>3, GoalAskSafe, StatusesKnown DEF Goal!set_goal_status
<1> QED BY <1>1, <1>2, <1>3

\* A change of the goal that every client is told of, and an answer.
LEMMA ChangedTells ==
    ASSUME NEW aim \in Known
    PROVE  /\ Goal!Changed(aim) \in Tidings
           /\ Goal!Changed(aim).kind \in {"updated", "cleared"}
           /\ aim = IF Goal!Changed(aim).kind = "cleared" THEN "none"
                       ELSE Goal!Changed(aim).status
<1>1. CASE aim = "none"
  BY <1>1 DEF Goal!Changed, Goal!None, Tidings
<1>2. CASE aim # "none"
  BY <1>2 DEF Goal!Changed, Goal!None, Tidings, Says
<1> QED BY <1>1, <1>2

LEMMA AnswerTells ==
    ASSUME NEW aim \in Says
    PROVE  /\ Goal!Answer(aim) \in Tidings
           /\ Goal!Answer(aim).kind = "answer" /\ Goal!Answer(aim).status = aim
BY DEF Goal!Answer, Tidings

\* Something that is no reply is put on the stream, with or without a change
\* of the goal.
LEMMA ToldOfNothing ==
    ASSUME GoalInv, goalConnected, NEW e \in Tidings, e.kind \in {"started", "completed"},
           goalStream' = goalStream \o <<e>>,
           UNCHANGED <<serverGoal, goalAsked, goalConnected, goal, reason>>
    PROVE  goalStream' \in Seq(Tidings) /\ Replied' /\ Told'
<1> USE DEF GoalInv
<1>1. /\ goalStream' \in Seq(Tidings) /\ DOMAIN goalStream' = DOMAIN goalStream \cup {Len(goalStream) + 1}
      /\ \A i \in DOMAIN goalStream : goalStream'[i] = goalStream[i]
      /\ goalStream'[Len(goalStream) + 1] = e
  BY OneMore DEF GoalTyped
<1>2. \A i : Reply(i)' <=> Reply(i) BY <1>1 DEF Reply
<1>3. Replied' BY <1>1, <1>2 DEF Replied, Reply
<1>4. \A i : Sets(i)' <=> Sets(i) BY <1>1 DEF Sets
<1>5. \A i : Sets(i) => To(i)' = To(i) BY <1>1 DEF Sets, To
<1>6. (ToRead => ToRead') /\ (Agrees => Agrees')
  <2>1. \A i : Reply(i) => i \in DOMAIN goalStream BY DEF Reply
  <2>2. (\A i \in DOMAIN goalStream : ~Reply(i)) => \A i \in DOMAIN goalStream' : ~Reply(i)'
    BY <1>2, <2>1
  <2>3. ToRead => ToRead' BY <2>2 DEF ToRead
  <2>4. Agrees => Agrees' BY DEF Agrees
  <2> QED BY <2>3, <2>4
<1>7. Told' BY <1>4, <1>5, <1>6, NothingSets
<1> QED BY <1>1, <1>3, <1>7

\* A change of the goal is told alone.
LEMMA ToldOfChange ==
    ASSUME GoalInv, goalConnected, NEW aim \in Known, serverGoal' = aim,
           goalStream' = goalStream \o <<Goal!Changed(aim)>>,
           UNCHANGED <<goalAsked, goalConnected>>
    PROVE  goalStream' \in Seq(Tidings) /\ Replied' /\ Told'
<1> USE DEF GoalInv
<1>1. PICK e \in Tidings :
        /\ e.kind \in {"updated", "cleared"} /\ e = Goal!Changed(aim)
        /\ aim = IF e.kind = "cleared" THEN "none" ELSE e.status
  BY ChangedTells
<1>2. PICK tip : tip = Len(goalStream) + 1 OBVIOUS
<1>3. /\ goalStream' \in Seq(Tidings) /\ DOMAIN goalStream' = DOMAIN goalStream \cup {tip}
      /\ \A i \in DOMAIN goalStream : goalStream'[i] = goalStream[i] /\ i <= tip
      /\ goalStream'[tip] = e /\ tip <= tip
  BY <1>1, <1>2, OneMore DEF GoalTyped
<1>4. \A i : Reply(i)' <=> Reply(i) BY <1>1, <1>3 DEF Reply
<1>5. Replied' BY <1>1, <1>3, <1>4 DEF Replied, Reply
<1>6. Sets(tip)' /\ To(tip)' = serverGoal' BY <1>1, <1>3 DEF Sets, To
<1>7. Told' BY <1>3, <1>6, LastSets
<1> QED BY <1>3, <1>5, <1>7

\* The end of a turn and a change of the goal are told together.
LEMMA ToldOfBoth ==
    ASSUME GoalInv, goalConnected, NEW e \in Tidings, e.kind = "completed",
           NEW aim \in Known, serverGoal' = aim,
           goalStream' = goalStream \o <<e, Goal!Changed(aim)>>,
           UNCHANGED <<goalAsked, goalConnected>>
    PROVE  goalStream' \in Seq(Tidings) /\ Replied' /\ Told'
<1> USE DEF GoalInv
<1>1. PICK f \in Tidings :
        /\ f.kind \in {"updated", "cleared"} /\ f = Goal!Changed(aim)
        /\ aim = IF f.kind = "cleared" THEN "none" ELSE f.status
  BY ChangedTells
<1>2. PICK n : n = Len(goalStream) OBVIOUS
<1>3. /\ goalStream' \in Seq(Tidings) /\ DOMAIN goalStream' = DOMAIN goalStream \cup {n + 1, n + 2}
      /\ \A i \in DOMAIN goalStream : goalStream'[i] = goalStream[i] /\ i <= n + 2
      /\ goalStream'[n + 1] = e /\ goalStream'[n + 2] = f /\ n + 1 <= n + 2 /\ n + 2 <= n + 2
  BY <1>1, <1>2, TwoMore DEF GoalTyped
<1>4. \A i : Reply(i)' <=> Reply(i) BY <1>1, <1>3 DEF Reply
<1>5. Replied' BY <1>1, <1>3, <1>4 DEF Replied, Reply
<1>6. Sets(n + 2)' /\ To(n + 2)' = serverGoal' BY <1>1, <1>3 DEF Sets, To
<1>7. Told' BY <1>3, <1>6, LastSets
<1> QED BY <1>3, <1>5, <1>7

\* While there is no connection nothing is told.
LEMMA Unconnected ==
    ASSUME GoalInv, ~goalConnected, UNCHANGED <<goalStream, goalAsked, goalConnected>>
    PROVE  goalStream' \in Seq(Tidings) /\ Replied' /\ Told'
<1>1. goalStream' \in Seq(Tidings) BY DEF GoalInv, GoalTyped
<1>2. Replied' BY DEF GoalInv, Replied, Reply
<1> QED BY <1>1, <1>2 DEF Told

LEMMA ChangeSafe == ASSUME GoalInv, Goal!ChangeElsewhere PROVE GoalInv'
<1>1. PICK s \in Known :
        /\ serverGoal' = s /\ Goal!Tell(<<Goal!Changed(s)>>)
        /\ UNCHANGED <<goalTurn, goalAsked, goalConnected>>
  BY StatusesKnown DEF Goal!ChangeElsewhere
<1>2. goalStream' \in Seq(Tidings) /\ Replied' /\ Told'
  BY <1>1, ToldOfChange, Unconnected DEF Goal!Tell
<1> QED BY <1>1, <1>2 DEF GoalInv, GoalTyped

LEMMA GoalTurnSafe == ASSUME GoalInv, Goal!StartTurn PROVE GoalInv'
<1>1. [kind |-> "started"] \in Tidings BY DEF Tidings
<1>2. PICK e \in Tidings : e.kind = "started" /\ e = [kind |-> "started"] BY <1>1
<1>3. /\ Goal!Tell(<<e>>) /\ goalTurn' = TRUE
      /\ UNCHANGED <<serverGoal, goalAsked, goalConnected, goal, reason>>
  BY <1>2 DEF Goal!StartTurn, Goal!window
<1>4. goalStream' \in Seq(Tidings) /\ Replied' /\ Told'
  BY <1>2, <1>3, ToldOfNothing, Unconnected DEF Goal!Tell
<1> QED BY <1>3, <1>4 DEF GoalInv, GoalTyped

LEMMA GoalEndSafe == ASSUME GoalInv, Goal!EndTurn PROVE GoalInv'
<1>1. PICK failed \in BOOLEAN, s \in {serverGoal} \cup Stops :
        /\ goalTurn' = FALSE /\ serverGoal' = s
        /\ Goal!Tell(<<[kind |-> "completed", failed |-> failed]>> \o
                     (IF s = serverGoal THEN <<>> ELSE <<Goal!Changed(s)>>))
        /\ UNCHANGED <<goalAsked, goalConnected, goal, reason>>
  BY DEF Goal!EndTurn, Goal!window
<1>2. [kind |-> "completed", failed |-> failed] \in Tidings BY DEF Tidings
<1>3. PICK e \in Tidings : e.kind = "completed" /\ e = [kind |-> "completed", failed |-> failed]
  BY <1>2
<1>4. s \in Known BY StatusesKnown DEF Goal!Statuses, GoalInv, GoalTyped
<1>5. goalStream' \in Seq(Tidings) /\ Replied' /\ Told'
  <2>1. CASE ~goalConnected BY <1>1, <2>1, Unconnected DEF Goal!Tell
  <2>2. CASE goalConnected /\ s = serverGoal
    <3>1. <<e>> \o <<>> = <<e>> OBVIOUS
    <3> QED BY <1>1, <1>3, <2>2, <3>1, ToldOfNothing DEF Goal!Tell
  <2>3. CASE goalConnected /\ s # serverGoal
    <3>1. PICK c \in Tidings : c = Goal!Changed(s) BY <1>4, ChangedTells
    <3>2. <<e>> \o <<c>> = <<e, c>>
      <4>1. PICK t, u : t = <<e>> \o <<c>> /\ u = <<e, c>> OBVIOUS
      <4>2. <<e>> \in Seq(Tidings) /\ Len(<<e>>) = 1 /\ <<e>>[1] = e OBVIOUS
      <4>3. t \in Seq(Tidings) /\ DOMAIN t = {1, 2} /\ t[1] = e /\ t[2] = c
        <5>1. DOMAIN <<e>> = {1} BY <4>2, LenProperties
        <5> QED BY <4>1, <4>2, <5>1, OneMore
      <4>4. u \in Seq(Tidings) /\ DOMAIN u = {1, 2} /\ u[1] = e /\ u[2] = c
        <5>1. <<e, c>> \in Seq(Tidings) /\ Len(<<e, c>>) = 2 /\ <<e, c>>[1] = e /\ <<e, c>>[2] = c
          OBVIOUS
        <5>2. DOMAIN u = {1, 2} BY <4>1, <5>1, LenProperties
        <5> QED BY <4>1, <5>1, <5>2
      <4>5. t = [i \in {1, 2} |-> t[i]] /\ u = [i \in {1, 2} |-> u[i]] BY <4>3, <4>4
      <4> QED BY <4>1, <4>3, <4>4, <4>5
    <3> QED BY <1>1, <1>3, <1>4, <2>3, <3>1, <3>2, ToldOfBoth DEF Goal!Tell
  <2> QED BY <2>1, <2>2, <2>3
<1> QED BY <1>1, <1>4, <1>5 DEF GoalInv, GoalTyped

\* The server answers a request.
LEMMA ReplyGiven ==
    ASSUME GoalInv, goalAsked # <<>>, \A i \in DOMAIN goalStream : ~Reply(i),
           NEW s \in Seq(Tidings), goalStream' = s, UNCHANGED <<goalAsked, goalConnected>>,
           DOMAIN goalStream \subseteq DOMAIN s,
           \A i \in DOMAIN goalStream : s[i] = goalStream[i],
           \A i, j \in DOMAIN s :
             /\ i \notin DOMAIN goalStream /\ s[i].kind = "error" => goalAsked.kind = "status"
             /\ i \notin DOMAIN goalStream /\ j \notin DOMAIN goalStream
                /\ s[i].kind \in {"answer", "error"} /\ s[j].kind \in {"answer", "error"} => i = j
    PROVE  Replied'
<1> USE DEF GoalInv
<1>1. \A i \in DOMAIN goalStream : s[i].kind \notin {"answer", "error"} BY DEF Reply
<1>2. goalAsked' # <<>> => goalConnected' BY DEF Replied
<1>3. \A i : Reply(i)' <=> i \in DOMAIN s /\ s[i].kind \in {"answer", "error"} BY DEF Reply
<1>4. \A i, j \in DOMAIN goalStream' : Reply(i)' /\ Reply(j)' => i = j BY <1>1, <1>3
<1>5. \A i \in DOMAIN goalStream' : goalStream'[i].kind = "error" => goalAsked'.kind = "status"
  BY <1>1
<1> QED BY <1>2, <1>4, <1>5 DEF Replied

LEMMA GoalTakeSafe == ASSUME GoalInv, Goal!Take PROVE GoalInv'
<1> USE DEF GoalInv
<1>1. /\ goalAsked # <<>> /\ goalConnected
      /\ UNCHANGED <<goalTurn, goalAsked, goalConnected, goal, reason>>
  BY DEF Goal!Take, Goal!window, Replied
<1>2. goalAsked \in [kind : {"open", "read", "goal", "status"}, status : Known]
  BY <1>1 DEF GoalTyped
<1>3. \A i \in DOMAIN goalStream : ~Reply(i)
  <2>1. DOMAIN goalStream = 1..Len(goalStream) BY LenProperties DEF GoalTyped
  <2> QED BY <2>1 DEF Goal!Take, Reply
<1>4. PICK n : n = Len(goalStream) OBVIOUS
<1>5. n + 1 \notin DOMAIN goalStream /\ n + 2 \notin DOMAIN goalStream /\ n \in Nat
  <2>1. DOMAIN goalStream = 1..n /\ n \in Nat BY <1>4, LenProperties DEF GoalTyped
  <2> QED BY <2>1
\* One reply is put on the stream.
<1>6. ASSUME NEW e \in Tidings, e.kind \in {"answer", "error"}, goalStream' = goalStream \o <<e>>,
             e.kind = "error" => goalAsked.kind = "status"
      PROVE  /\ goalStream' \in Seq(Tidings) /\ Replied'
             /\ DOMAIN goalStream' = DOMAIN goalStream \cup {n + 1}
             /\ \A i \in DOMAIN goalStream : goalStream'[i] = goalStream[i] /\ i <= n + 1
             /\ goalStream'[n + 1] = e
  <2>1. PICK s \in Seq(Tidings) : s = goalStream \o <<e>> BY OneMore DEF GoalTyped
  <2>2. /\ DOMAIN s = DOMAIN goalStream \cup {n + 1}
        /\ \A i \in DOMAIN goalStream : s[i] = goalStream[i] /\ i <= n + 1
        /\ s[n + 1] = e
    BY <1>4, <2>1, OneMore DEF GoalTyped
  <2>3. Replied' BY <1>1, <1>3, <1>6, <2>1, <2>2, ReplyGiven
  <2> QED BY <1>6, <2>1, <2>2, <2>3
<1>7. CASE goalAsked.kind \in {"open", "read"}
  <2>1. PICK v \in Says :
          /\ goalStream' = Append(goalStream, Goal!Answer(v)) /\ UNCHANGED serverGoal
          /\ goalAsked.kind = "read" => v = serverGoal
    BY <1>7 DEF Goal!Take, Says, GoalTyped
  <2>2. PICK e \in Tidings : e.kind = "answer" /\ e.status = v /\ e = Goal!Answer(v)
    BY AnswerTells
  <2>3. goalStream' = goalStream \o <<e>> BY <2>1, <2>2, AppendIsConcat DEF GoalTyped
  <2>4. /\ goalStream' \in Seq(Tidings) /\ Replied'
        /\ DOMAIN goalStream' = DOMAIN goalStream \cup {n + 1}
        /\ \A i \in DOMAIN goalStream : goalStream'[i] = goalStream[i] /\ i <= n + 1
        /\ goalStream'[n + 1] = e
    BY <1>6, <2>2, <2>3
  <2>5. Told'
    <3>1. CASE goalAsked.kind = "open" BY <1>1, <3>1 DEF Told, ToRead
    <3>2. CASE goalAsked.kind = "read"
      <4>1. Sets(n + 1)' /\ To(n + 1)' = serverGoal' BY <1>1, <2>1, <2>2, <2>4, <3>2 DEF Sets, To
      <4> QED BY <1>5, <2>4, <4>1, LastSets
    <3> QED BY <1>7, <3>1, <3>2
  <2> QED BY <1>1, <2>1, <2>4, <2>5 DEF GoalTyped
<1>8. CASE /\ goalAsked.kind = "status" /\ UNCHANGED serverGoal
           /\ goalStream' = Append(goalStream, [kind |-> "error"])
  <2>1. [kind |-> "error"] \in Tidings BY DEF Tidings
  <2>2. PICK e \in Tidings : e.kind = "error" /\ e = [kind |-> "error"] BY <2>1
  <2>3. goalStream' = goalStream \o <<e>> BY <1>8, <2>2, AppendIsConcat DEF GoalTyped
  <2>4. /\ goalStream' \in Seq(Tidings) /\ Replied'
        /\ DOMAIN goalStream' = DOMAIN goalStream \cup {n + 1}
        /\ \A i \in DOMAIN goalStream : goalStream'[i] = goalStream[i] /\ i <= n + 1
        /\ goalStream'[n + 1] = e
    BY <1>6, <1>8, <2>2, <2>3
  <2>5. \A i : Sets(i)' <=> Sets(i) BY <1>1, <1>5, <2>2, <2>4 DEF Sets
  <2>6. \A i : Sets(i) => To(i)' = To(i) BY <2>4 DEF Sets, To
  <2>7. (ToRead => ToRead') /\ (Agrees => Agrees') BY <1>1, <1>8 DEF ToRead, Agrees
  <2>8. Told' BY <1>1, <1>8, <2>5, <2>6, <2>7, NothingSets
  <2> QED BY <1>1, <1>8, <2>4, <2>8 DEF GoalTyped
<1>9. CASE goalAsked.kind \in {"goal", "status"} /\ Goal!TakeGoal
  <2>1. PICK s \in Known :
          /\ serverGoal' = s
          /\ \/ goalStream' = goalStream \o <<Goal!Answer(s), Goal!Changed(s)>>
             \/ goalStream' = goalStream \o <<Goal!Changed(s), Goal!Answer(s)>>
    BY <1>2, <1>9, StatusesKnown DEF Goal!TakeGoal, Goal!Statuses
  <2>2. PICK a \in Tidings : a.kind = "answer" /\ a.status = s /\ a = Goal!Answer(s)
    BY AnswerTells DEF Says
  <2>3. PICK c \in Tidings :
          /\ c.kind \in {"updated", "cleared"} /\ c = Goal!Changed(s)
          /\ s = IF c.kind = "cleared" THEN "none" ELSE c.status
    BY ChangedTells
  <2>4. PICK b \in Tidings, d \in Tidings :
          /\ goalStream' = goalStream \o <<b, d>> /\ {b, d} = {a, c}
          /\ (b = a /\ d = c) \/ (b = c /\ d = a)
    BY <2>1, <2>2, <2>3
  <2>5. PICK t \in Seq(Tidings) : t = goalStream \o <<b, d>> BY TwoMore DEF GoalTyped
  <2>6. /\ DOMAIN t = DOMAIN goalStream \cup {n + 1, n + 2}
        /\ \A i \in DOMAIN goalStream : t[i] = goalStream[i] /\ i <= n + 2
        /\ t[n + 1] = b /\ t[n + 2] = d /\ n + 1 <= n + 2 /\ n + 2 <= n + 2
    BY <1>4, <1>5, <2>5, TwoMore DEF GoalTyped
  <2>7. Replied'
    <3>1. \A i, j \in DOMAIN t :
             /\ i \notin DOMAIN goalStream /\ t[i].kind = "error" => goalAsked.kind = "status"
             /\ i \notin DOMAIN goalStream /\ j \notin DOMAIN goalStream
                /\ t[i].kind \in {"answer", "error"} /\ t[j].kind \in {"answer", "error"} => i = j
      BY <2>2, <2>3, <2>4, <2>6
    <3> QED BY <1>1, <1>3, <2>4, <2>5, <2>6, <3>1, ReplyGiven
  <2>8. Sets(n + 2)' /\ To(n + 2)' = serverGoal'
    BY <1>1, <1>9, <2>1, <2>2, <2>3, <2>4, <2>5, <2>6 DEF Sets, To
  <2>9. Told' BY <2>4, <2>5, <2>6, <2>8, LastSets
  <2> QED BY <1>1, <2>1, <2>4, <2>5, <2>7, <2>9 DEF GoalTyped
<1> QED BY <1>7, <1>8, <1>9 DEF Goal!Take

\* The window takes in what comes first: the request in flight stays unless
\* that was its reply, what is left sets the copy as before, and the copy is
\* set as it says.
LEMMA OneLess ==
    ASSUME GoalInv, goalConnected, goalStream # <<>>, goalStream' = Tail(goalStream),
           UNCHANGED <<serverGoal, goalTurn, goalConnected>>,
           Reply(1) \/ goalAsked' = goalAsked,
           Reply(1) => /\ goalAsked.kind = "open"
                          => goalAsked'.kind = "read" /\ goalAsked' # <<>>
                       /\ goalAsked.kind # "open" => goalAsked' = <<>>,
           goalAsked' \in {<<>>} \cup [kind : {"open", "read", "goal", "status"}, status : Known],
           Sets(1) => goal' = To(1),
           ~Sets(1) /\ Agrees => Agrees'
    PROVE  GoalInv'
<1> USE DEF GoalInv
<1>1. PICK s \in Seq(Tidings) : s = goalStream /\ s # <<>> BY DEF GoalTyped
<1>2. PICK t \in Seq(Tidings) : t = Tail(s) BY <1>1, Taken
<1>3. /\ 1 \in DOMAIN s /\ DOMAIN s \subseteq Nat
      /\ \A i \in DOMAIN t : i \in Nat /\ i >= 1 /\ i + 1 \in DOMAIN s /\ t[i] = s[i + 1]
      /\ \A i \in DOMAIN s : i = 1 \/ i - 1 \in DOMAIN t
  BY <1>1, <1>2, Taken
<1>4. goalStream' = t BY <1>1, <1>2
<1>5. GoalTyped' BY <1>4 DEF GoalTyped
<1>6. \A i \in DOMAIN t : Reply(i)' => Reply(i + 1) BY <1>1, <1>3, <1>4 DEF Reply
<1>7. \A i \in DOMAIN t : Reply(i)' => ~Reply(1)
  <2> SUFFICES ASSUME NEW i \in DOMAIN t, Reply(i)', Reply(1) PROVE FALSE OBVIOUS
  <2>1. Reply(i + 1) /\ i + 1 \in DOMAIN goalStream /\ 1 \in DOMAIN goalStream
    BY <1>1, <1>3, <1>6
  <2>2. i + 1 = 1 BY <2>1 DEF Replied
  <2> QED BY <1>3, <2>2
<1>8. \A i : Reply(i)' => i \in DOMAIN t BY <1>4 DEF Reply
<1>9. Replied'
  <2>1. goalAsked' # <<>> => goalConnected'
    OBVIOUS
  <2>2. \A i, j \in DOMAIN goalStream' : Reply(i)' /\ Reply(j)' => i = j
    <3> SUFFICES ASSUME NEW i \in DOMAIN t, NEW j \in DOMAIN t, Reply(i)', Reply(j)' PROVE i = j
      BY <1>4
    <3>1. i + 1 = j + 1 BY <1>1, <1>3, <1>6 DEF Replied
    <3>2. i \in Nat /\ j \in Nat BY <1>3
    <3> QED BY <3>1, <3>2
  <2>3. \A i \in DOMAIN goalStream' : Reply(i)' => goalAsked' # <<>>
    <3> SUFFICES ASSUME NEW i \in DOMAIN t, Reply(i)' PROVE goalAsked' # <<>> BY <1>4
    <3>1. goalAsked' = goalAsked BY <1>7
    <3>2. goalAsked # <<>> BY <1>1, <1>3, <1>6 DEF Replied
    <3> QED BY <3>1, <3>2
  <2>4. \A i \in DOMAIN goalStream' : goalStream'[i].kind = "error" => goalAsked'.kind = "status"
    <3> SUFFICES ASSUME NEW i \in DOMAIN t, t[i].kind = "error" PROVE goalAsked'.kind = "status"
      BY <1>4
    <3>1. goalAsked' = goalAsked BY <1>4, <1>7 DEF Reply
    <3>2. goalAsked.kind = "status" BY <1>1, <1>3 DEF Replied
    <3> QED BY <3>1, <3>2
  <2> QED BY <2>1, <2>2, <2>3, <2>4 DEF Replied
<1>10. \A i \in DOMAIN t : (Sets(i)' <=> Sets(i + 1)) /\ To(i)' = To(i + 1)
  <2> SUFFICES ASSUME NEW i \in DOMAIN t PROVE (Sets(i)' <=> Sets(i + 1)) /\ To(i)' = To(i + 1)
    OBVIOUS
  <2>1. t[i] = s[i + 1] /\ i + 1 \in DOMAIN s BY <1>3
  <2>2. t[i].kind = "answer" => goalAsked' = goalAsked BY <1>4, <1>7 DEF Reply
  <2>3. Sets(i)' <=> Sets(i + 1) BY <1>1, <1>4, <2>1, <2>2 DEF Sets
  <2>4. To(i)' = To(i + 1) BY <1>1, <1>4, <2>1 DEF To
  <2> QED BY <2>3, <2>4
<1>11. ToRead => ToRead'
  <2> SUFFICES ASSUME ToRead PROVE ToRead' OBVIOUS
  <2>1. CASE Reply(1)
    <3>1. goalAsked.kind = "open" BY <1>1, <1>3, <2>1 DEF ToRead
    <3>2. goalAsked'.kind = "read" /\ goalAsked' # <<>> BY <2>1, <3>1
    <3>3. \A i \in DOMAIN goalStream' : ~Reply(i)' BY <1>4, <1>7, <2>1
    <3> QED BY <3>2, <3>3 DEF ToRead
  <2>2. CASE ~Reply(1)
    <3>1. goalAsked' = goalAsked BY <2>2
    <3>2. (\A i \in DOMAIN goalStream : ~Reply(i)) => \A i \in DOMAIN goalStream' : ~Reply(i)'
      BY <1>1, <1>3, <1>4, <1>6
    <3> QED BY <3>1, <3>2 DEF ToRead
  <2> QED BY <2>1, <2>2
<1>12. Told'
  <2> SUFFICES ASSUME ~ToRead
               PROVE  /\ (\A i \in DOMAIN goalStream' : ~Sets(i)') => Agrees'
                      /\ \A i \in DOMAIN goalStream' :
                           Sets(i)' /\ (\A j \in DOMAIN goalStream' : Sets(j)' => j <= i)
                           => To(i)' = serverGoal'
    BY <1>11 DEF Told
  <2>1. ASSUME \A i \in DOMAIN goalStream' : ~Sets(i)' PROVE Agrees'
    <3>1. \A i \in DOMAIN s : i = 1 \/ ~Sets(i)
      <4> SUFFICES ASSUME NEW i \in DOMAIN s, i # 1 PROVE ~Sets(i) OBVIOUS
      <4>1. i - 1 \in DOMAIN t /\ (i - 1) + 1 = i BY <1>3
      <4>2. ~Sets(i - 1)' BY <1>4, <2>1, <4>1
      <4> QED BY <1>10, <4>1, <4>2
    <3>2. CASE Sets(1)
      <4>1. \A j \in DOMAIN goalStream : Sets(j) => j <= 1 BY <1>1, <3>1
      <4>2. To(1) = serverGoal BY <1>1, <1>3, <3>2, <4>1 DEF Told
      <4> QED BY <3>2, <4>2 DEF Agrees
    <3>3. CASE ~Sets(1)
      <4>1. \A j \in DOMAIN goalStream : ~Sets(j) BY <1>1, <3>1, <3>3
      <4>2. Agrees BY <4>1 DEF Told
      <4> QED BY <3>3, <4>2
    <3> QED BY <3>2, <3>3
  <2>2. ASSUME NEW i \in DOMAIN t, Sets(i)', \A j \in DOMAIN t : Sets(j)' => j <= i
        PROVE  To(i)' = serverGoal'
    <3>1. Sets(i + 1) /\ i + 1 \in DOMAIN s /\ To(i)' = To(i + 1) BY <1>3, <1>10, <2>2
    <3>2. ASSUME NEW j \in DOMAIN s, Sets(j) PROVE j <= i + 1
      <4>1. CASE j = 1 BY <1>3, <4>1
      <4>2. CASE j # 1
        <5>1. j - 1 \in DOMAIN t /\ (j - 1) + 1 = j /\ j \in Nat BY <1>3, <4>2
        <5>2. Sets(j - 1)' BY <1>10, <3>2, <5>1
        <5>3. j - 1 <= i BY <2>2, <5>1, <5>2
        <5> QED BY <1>3, <5>1, <5>3
      <4> QED BY <4>1, <4>2
    <3>3. To(i + 1) = serverGoal BY <1>1, <3>1, <3>2 DEF Told
    <3> QED BY <3>1, <3>3
  <2> QED BY <1>4, <2>1, <2>2
<1> QED BY <1>5, <1>9, <1>12

LEMMA GoalReceiveSafe == ASSUME GoalInv, Goal!Receive PROVE GoalInv'
<1>1. /\ goalConnected /\ goalStream # <<>> /\ goalStream' = Tail(goalStream)
      /\ UNCHANGED <<serverGoal, goalTurn, goalConnected>>
  BY DEF Goal!Receive, Goal!server
<1>2. PICK e \in Tidings : e = Head(goalStream) /\ e = goalStream[1] /\ 1 \in DOMAIN goalStream
  BY <1>1, Taken DEF GoalInv, GoalTyped
<1>3. (e.kind \in {"answer", "error"} <=> Reply(1)) /\ (e.kind = "error" => goalAsked.kind = "status")
      /\ (e.kind \in {"answer", "error"} => goalAsked # <<>>)
  BY <1>2 DEF Reply, GoalInv, Replied
<1>4. /\ Sets(1) <=> e.kind \in {"updated", "cleared"} \/ (e.kind = "answer" /\ goalAsked.kind # "open")
      /\ To(1) = IF e.kind = "cleared" THEN "none" ELSE e.status
  BY <1>2 DEF Sets, To
<1>5. goalAsked \in {<<>>} \cup [kind : {"open", "read", "goal", "status"}, status : Known]
  BY DEF GoalInv, GoalTyped
<1>6. Goal!Stopped = {"paused", "blocked", "usageLimited", "budgetLimited"} /\ Goal!None = "none"
  BY DEF Goal!Stopped, Goal!None
<1>7. CASE e.kind = "updated" /\ Goal!OnUpdated(e.status)
  <2>1. goalAsked' = goalAsked /\ goal' = e.status BY <1>7 DEF Goal!OnUpdated
  <2> QED BY <1>1, <1>3, <1>4, <1>5, <1>7, <2>1, OneLess
<1>8. CASE e.kind = "cleared" /\ Goal!OnCleared
  <2>1. goalAsked' = goalAsked /\ goal' = "none" BY <1>6, <1>8 DEF Goal!OnCleared
  <2> QED BY <1>1, <1>3, <1>4, <1>5, <1>8, <2>1, OneLess
<1>9. CASE e.kind = "started" /\ Goal!OnStarted
  <2>1. goalAsked' = goalAsked /\ goal' = goal /\ (goal # "active" => reason' = reason)
    BY <1>9 DEF Goal!OnStarted
  <2>2. Agrees => Agrees' BY <1>1, <1>6, <2>1 DEF Agrees
  <2> QED BY <1>1, <1>3, <1>4, <1>5, <1>9, <2>1, <2>2, OneLess
<1>10. CASE e.kind = "completed" /\ Goal!OnCompleted(e.failed)
  <2>1. /\ goalAsked' = goalAsked
        /\ \/ goal = "active" /\ goal' \in Stops /\ reason' = "failed"
           \/ UNCHANGED <<goal, reason>>
    BY <1>10 DEF Goal!OnCompleted, Goal!turn_goal_stop_reason
  <2>2. Agrees => Agrees'
    <3>1. Stops \subseteq Goal!Stopped BY <1>6, PartsAssumption
    <3> QED BY <1>1, <1>6, <2>1, <3>1 DEF Agrees
  <2> QED BY <1>1, <1>3, <1>4, <1>5, <1>10, <2>1, <2>2, OneLess
<1>11. CASE e.kind = "answer" /\ Goal!OnAnswer(e.status)
  <2>1. CASE goalAsked.kind = "open" /\ Goal!OnOpened(e.status)
    <3>1. /\ goalAsked' = [kind |-> "read", status |-> "none"]
          /\ UNCHANGED <<goal, reason>>
      BY <1>6, <2>1 DEF Goal!OnOpened
    <3>2. /\ goalAsked' \in {<<>>} \cup [kind : {"open", "read", "goal", "status"}, status : Known]
          /\ goalAsked'.kind = "read"
      BY <3>1 DEF Known
    <3>3. goalAsked' # <<>> BY <3>1
    <3>4. (Agrees => Agrees') BY <1>1, <3>1 DEF Agrees
    <3> QED BY <1>1, <1>3, <1>4, <1>11, <2>1, <3>2, <3>3, <3>4, OneLess
  <2>2. CASE goalAsked.kind # "open" /\ goal' = e.status /\ goalAsked' = <<>>
    BY <1>1, <1>3, <1>4, <1>11, <2>2, OneLess
  <2> QED BY <1>11, <2>1, <2>2 DEF Goal!OnAnswer
<1>12. CASE e.kind = "error" /\ goalAsked' = <<>> /\ UNCHANGED <<goal, reason>>
  <2>1. (Agrees => Agrees') BY <1>1, <1>12 DEF Agrees
  <2> QED BY <1>1, <1>3, <1>4, <1>12, <2>1, OneLess
<1> QED BY <1>2, <1>7, <1>8, <1>9, <1>10, <1>11, <1>12 DEF Goal!Receive, Goal!window

\* After an outage the goal is read again.
LEMMA OutageSafe == ASSUME GoalInv, Goal!Outage PROVE GoalInv'
<1> USE DEF GoalInv
<1>1. /\ goalConnected' = FALSE /\ goalStream' = <<>> /\ goalAsked' = <<>>
      /\ goalTurn' \in {goalTurn, FALSE} /\ serverGoal' = serverGoal
  BY DEF Goal!Outage
<1>2. GoalTyped'
  <2>1. PICK empty \in Seq(Tidings) : empty = <<>> BY EmptySeq
  <2> QED BY <1>1, <2>1 DEF GoalTyped
<1>3. Replied'
  <2>1. DOMAIN goalStream' = {} BY <1>1
  <2> QED BY <1>1, <2>1 DEF Replied
<1> QED BY <1>1, <1>2, <1>3 DEF Told

LEMMA ReconnectSafe == ASSUME GoalInv, Goal!Reconnect PROVE GoalInv'
<1> USE DEF GoalInv
<1>1. /\ goalConnected = FALSE /\ goalConnected' = TRUE
      /\ goalAsked' = [kind |-> "open", status |-> "none"]
      /\ UNCHANGED <<serverGoal, goalTurn, goalStream>>
  BY DEF Goal!Reconnect, Goal!server, Goal!None, GoalTyped
<1>2. goalAsked' # <<>> /\ goalAsked'.kind = "open" BY <1>1
<1>3. GoalTyped' BY <1>1 DEF GoalTyped, Known
<1>4. goalAsked = <<>> BY <1>1 DEF Replied
<1>5. \A i : ~Reply(i) /\ ~Reply(i)' BY <1>1, <1>4 DEF Replied, Reply
<1>6. \A i \in DOMAIN goalStream : goalStream[i].kind # "error" BY <1>5 DEF Reply
<1>7. Replied' BY <1>1, <1>5, <1>6 DEF Replied
<1>8. Told' BY <1>2 DEF Told, ToRead
<1> QED BY <1>3, <1>7, <1>8

LEMMA GoalSteps == ASSUME GoalInv, [Goal!Next]_Goal!vars PROVE GoalInv'
<1>1. CASE UNCHANGED Goal!vars
  BY <1>1 DEF Goal!vars, Goal!server, Goal!window, GoalInv, GoalTyped, Replied, Reply, Told, ToRead, Sets, To, Agrees
<1>2. CASE Goal!goal_dialog \/ Goal!confirm_clear_goal \/ Goal!set_goal_status
  BY <1>2, GoalUserSafe
<1>3. CASE Goal!Take BY <1>3, GoalTakeSafe
<1>4. CASE Goal!ChangeElsewhere BY <1>4, ChangeSafe
<1>5. CASE Goal!StartTurn BY <1>5, GoalTurnSafe
<1>6. CASE Goal!EndTurn BY <1>6, GoalEndSafe
<1>7. CASE Goal!Receive BY <1>7, GoalReceiveSafe
<1>8. CASE Goal!Disconnect \/ Goal!Restart
  BY <1>8, OutageSafe DEF Goal!Disconnect, Goal!Restart
<1>9. CASE Goal!Reconnect BY <1>9, ReconnectSafe
<1> QED
  BY <1>1, <1>2, <1>3, <1>4, <1>5, <1>6, <1>7, <1>8, <1>9 DEF Goal!Next

\* Once everything is answered the goal selector agrees with the server,
\* whatever was asked, told, lost or failed before (render_goal_selector,
\* observe_goal_lifecycle).
THEOREM GoalsAgree == Goal!Spec => []GoalTrue
<1>1. Goal!Init => GoalInv
  <2> SUFFICES ASSUME Goal!Init PROVE GoalInv OBVIOUS
  <2>1. /\ goalConnected = TRUE /\ goalTurn = FALSE /\ goalStream = <<>>
        /\ goalAsked = [kind |-> "open", status |-> "none"] /\ serverGoal \in {"none", "active"}
    BY DEF Goal!Init, Goal!None
  <2>2. GoalTyped
    <3>1. PICK empty \in Seq(Tidings) : empty = <<>> BY EmptySeq
    <3> QED BY <2>1, <3>1 DEF GoalTyped, Known
  <2>3. DOMAIN goalStream = {} BY <2>1
  <2>4. Replied BY <2>1, <2>3 DEF Replied
  <2>5. Told BY <2>1 DEF Told, ToRead
  <2> QED BY <2>2, <2>4, <2>5 DEF GoalInv
<1> QED BY <1>1, GoalSteps, ToldIsTrue, PTL DEF Goal!Spec

---------------------------------------------------------------------------
(* A scheduled task.                                                       *)

Shaped(s) == s = [file |-> s.file, timer |-> s.timer, unseen |-> s.unseen]

\* No timer runs, or its disable failed unseen.
Halted(s) == s.timer = "none" \/ s.unseen

\* What is reported done is what systemd runs.
Right(o) ==
    Shaped(o.to) /\ (o.report # "failed" => o.to.timer = o.report \/ (o.report = "none" /\ Halted(o.to)))

\* Before the item is made systemd has no timer of it.
TimerInv ==
    /\ edits \in Nat /\ Shaped(systemd)
    /\ edits = 0 => Halted(systemd)
    /\ TimerRunsStored

LEMMA InstallRuns ==
    ASSUME NEW s, Shaped(s), NEW schedule, NEW enabled \in BOOLEAN, enabled \/ Halted(s),
           NEW o \in Automation!Installs(s, schedule, enabled)
    PROVE  Right(o)
<1> DEFINE written == [file |-> schedule, timer |-> s.timer, unseen |-> s.unseen]
           loaded  == [file |-> schedule, timer |-> IF s.timer = "none" THEN s.timer ELSE schedule,
                       unseen |-> s.unseen]
           begun   == [file |-> schedule, timer |-> schedule, unseen |-> s.unseen]
<1>1. /\ [s EXCEPT !.file = schedule] = written
      /\ [written EXCEPT !.timer = IF @ = "none" THEN @ ELSE schedule] = loaded
      /\ [loaded EXCEPT !.timer = schedule] = begun
  BY DEF Shaped
<1>2. o \in {Automation!Failed(s), Automation!Failed(written)} \cup
        IF enabled THEN {Automation!Failed(loaded), Automation!Done(begun, schedule)}
        ELSE {Automation!Done(loaded, "none")}
  BY <1>1 DEF Automation!Installs, Automation!NoSchedule
<1>3. Shaped(written) /\ Shaped(loaded) /\ Shaped(begun) BY DEF Shaped
<1>4. ASSUME NEW d, Shaped(d), o = Automation!Failed(d) PROVE Right(o)
  <2>1. o.to = d /\ o.report = "failed" BY <1>4 DEF Automation!Failed
  <2> QED BY <1>4, <2>1 DEF Right
<1>5. CASE enabled /\ o = Automation!Done(begun, schedule)
  <2>1. o.to = begun /\ o.report = schedule BY <1>5 DEF Automation!Done
  <2>2. o.to.timer = o.report BY <2>1
  <2> QED BY <1>3, <2>1, <2>2 DEF Right
<1>6. CASE ~enabled /\ o = Automation!Done(loaded, "none")
  <2>1. o.to = loaded /\ o.report = "none" BY <1>6 DEF Automation!Done
  <2>2. Halted(s) BY <1>6
  <2>3. Halted(loaded) BY <2>2 DEF Halted
  <2> QED BY <1>3, <2>1, <2>3 DEF Right
<1> HIDE DEF written, loaded, begun
<1> QED BY <1>2, <1>3, <1>4, <1>5, <1>6

LEMMA RemovalQuiet ==
    ASSUME NEW s, Shaped(s), NEW o \in Automation!Removals(s)
    PROVE  Right(o) /\ Shaped(o.to) /\ Halted(o.to)
<1> DEFINE disabled == [file |-> s.file, timer |-> "none", unseen |-> FALSE]
           stays    == [s EXCEPT !.unseen = s.timer # "none"]
<1>0. PICK f, v, c : s = [file |-> f, timer |-> v, unseen |-> c] BY DEF Shaped
<1>1. PICK b \in BOOLEAN : b = (v # "none") OBVIOUS
<1>2. PICK d \in {disabled, stays} :
        o \in {Automation!Failed(d), Automation!Failed([d EXCEPT !.file = "none"]),
               Automation!Done([d EXCEPT !.file = "none"], "none"),
               Automation!Done([[d EXCEPT !.file = "none"] EXCEPT !.timer = "none"], "none")}
  BY DEF Automation!Removals, Automation!NoSchedule
<1>3. PICK t, u : d = [file |-> f, timer |-> t, unseen |-> u] /\ (t = "none" \/ u = TRUE)
  <2>1. disabled = [file |-> f, timer |-> "none", unseen |-> FALSE] BY <1>0
  <2>2. stays = [file |-> f, timer |-> v, unseen |-> b]
    <3>1. (s.timer # "none") = b BY <1>0, <1>1
    <3>2. stays = [s EXCEPT !.unseen = b] BY <3>1
    <3> QED BY <1>0, <3>2
  <2>3. v = "none" \/ b = TRUE BY <1>1
  <2> HIDE DEF disabled, stays
  <2>4. CASE d = disabled BY <2>1, <2>4
  <2>5. CASE d = stays BY <2>2, <2>3, <2>5
  <2> QED BY <1>2, <2>4, <2>5
<1> HIDE DEF disabled, stays
<1>4. /\ [d EXCEPT !.file = "none"] = [file |-> "none", timer |-> t, unseen |-> u]
      /\ [[d EXCEPT !.file = "none"] EXCEPT !.timer = "none"] = [file |-> "none", timer |-> "none", unseen |-> u]
  <2>1. [d EXCEPT !.file = "none"] = [file |-> "none", timer |-> t, unseen |-> u] BY <1>3
  <2>2. [[file |-> "none", timer |-> t, unseen |-> u] EXCEPT !.timer = "none"]
          = [file |-> "none", timer |-> "none", unseen |-> u]
    OBVIOUS
  <2> QED BY <2>1, <2>2
<1>5. ASSUME NEW g, NEW w, w = "none" \/ u = TRUE, NEW e, e = [file |-> g, timer |-> w, unseen |-> u]
      PROVE  Shaped(e) /\ Halted(e)
  BY <1>5 DEF Shaped, Halted
<1>6. PICK e : o \in {Automation!Failed(e), Automation!Done(e, "none")} /\ Shaped(e) /\ Halted(e)
  <2>1. Shaped(d) /\ Halted(d) BY <1>3, <1>5
  <2>2. Shaped([d EXCEPT !.file = "none"]) /\ Halted([d EXCEPT !.file = "none"]) BY <1>3, <1>4, <1>5
  <2>3. /\ Shaped([[d EXCEPT !.file = "none"] EXCEPT !.timer = "none"])
        /\ Halted([[d EXCEPT !.file = "none"] EXCEPT !.timer = "none"])
    BY <1>4, <1>5
  <2> QED BY <1>2, <2>1, <2>2, <2>3
<1>7. o.to = e /\ o.report \in {"failed", "none"} BY <1>6 DEF Automation!Failed, Automation!Done
<1> QED BY <1>6, <1>7 DEF Right

\* An operation all of whose outcomes are right.
LEMMA EditRight ==
    ASSUME TimerInv, NEW i, NEW outcomes, \A o \in outcomes : Right(o), Automation!Edit(i, outcomes)
    PROVE  TimerInv'
<1>1. edits \in Nat /\ edits' = edits + 1 BY DEF Automation!Edit, TimerInv
<1>2. CASE claim' = "failed" /\ UNCHANGED <<saved, systemd>>
  BY <1>1, <1>2 DEF TimerInv, TimerRunsStored, Automation!TimerRunsStored
<1>3. CASE \E o \in outcomes : systemd' = o.to /\ claim' = o.report
  BY <1>1, <1>3 DEF TimerInv, TimerRunsStored, Automation!TimerRunsStored, Automation!NoSchedule, Right, Halted
<1> QED BY <1>2, <1>3 DEF Automation!Edit

LEMMA TimerSteps == ASSUME TimerInv, [Automation!Next]_Automation!vars PROVE TimerInv'
<1>0. Shaped(systemd) /\ edits \in Nat /\ (edits = 0 => Halted(systemd)) BY DEF TimerInv
<1>1. CASE UNCHANGED <<systemd, claim, edits>>
  BY <1>1 DEF TimerInv, TimerRunsStored, Automation!TimerRunsStored
<1>2. CASE Automation!CreateItem
  <2>1. PICK schedule \in Schedules, enabled \in BOOLEAN :
          /\ edits = 0
          /\ Automation!Edit([stored |-> TRUE, enabled |-> enabled, schedule |-> schedule],
                             Automation!Installs(systemd, schedule, enabled))
    BY <1>2 DEF Automation!CreateItem
  <2>2. \A o \in Automation!Installs(systemd, schedule, enabled) : Right(o)
    BY <1>0, <2>1, InstallRuns
  <2> QED BY <2>1, <2>2, EditRight
<1>3. CASE Automation!Toggle
  <2>1. PICK outcomes :
          /\ Automation!Edit([item EXCEPT !.enabled = ~@], outcomes)
          /\ outcomes \in {Automation!Removals(systemd), Automation!Installs(systemd, item.schedule, TRUE)}
    BY <1>3 DEF Automation!Toggle
  <2>2. \A o \in Automation!Installs(systemd, item.schedule, TRUE) : Right(o) BY <1>0, InstallRuns
  <2>3. \A o \in Automation!Removals(systemd) : Right(o) BY <1>0, RemovalQuiet
  <2> QED BY <2>1, <2>2, <2>3, EditRight
<1>4. CASE Automation!EditItem
  <2>1. PICK schedule \in Schedules, enabled \in BOOLEAN :
          Automation!Edit([stored |-> TRUE, enabled |-> enabled, schedule |-> schedule],
            UNION {Automation!Installs(r.to, schedule, enabled) : r \in Automation!Removals(systemd)})
    BY <1>4 DEF Automation!EditItem
  <2>2. ASSUME NEW r \in Automation!Removals(systemd), NEW o \in Automation!Installs(r.to, schedule, enabled)
        PROVE  Right(o)
    BY <1>0, <2>2, RemovalQuiet, InstallRuns
  <2> QED BY <2>1, <2>2, EditRight
<1>5. CASE Automation!DeleteItem
  <2>1. Automation!Edit([stored |-> FALSE, enabled |-> FALSE, schedule |-> item.schedule],
                        Automation!Removals(systemd))
    BY <1>5 DEF Automation!DeleteItem
  <2>2. \A o \in Automation!Removals(systemd) : Right(o) BY <1>0, RemovalQuiet
  <2> QED BY <2>1, <2>2, EditRight
<1>6. CASE Automation!StartRun \/ Automation!LoadItem \/ Automation!LoadHistory
           \/ Automation!SaveHistory \/ Automation!EndRun \/ Automation!LoseRun
  <2>1. UNCHANGED Automation!Unit
    BY <1>6 DEF Automation!StartRun, Automation!LoadItem, Automation!LoadHistory,
                Automation!SaveHistory, Automation!EndRun, Automation!LoseRun
  <2> QED BY <1>1, <2>1 DEF Automation!Unit
<1> QED
  BY <1>1, <1>2, <1>3, <1>4, <1>5, <1>6 DEF Automation!Next, Automation!vars

\* Whatever failed in an operation or before it, a schedule reported done is
\* what systemd runs, and after the report of a disabled or deleted item no
\* timer runs but one whose disable failed unseen (install_systemd_units,
\* remove_systemd_units, automation.rs:164 and 187).
THEOREM TimersStored == Automation!Spec => []TimerRunsStored
<1>1. Automation!Init => TimerInv
  BY DEF Automation!Init, Automation!NoSchedule, TimerInv, TimerRunsStored, Shaped, Halted,
         Automation!TimerRunsStored
<1> QED BY <1>1, TimerSteps, PTL DEF Automation!Spec, TimerInv

Records == UNION {[D -> {"running", "ended"}] : D \in SUBSET Nat}
Gone == {"ended", "gone"}
Run == [pc : Gone \cup {"schedule", "manual", "starting", "recording", "running", "done", "ending"},
        copy : Records]

\* The history as it is, or none if it could not be read.
Copied(copy, records, lost) == copy = records \/ (lost /\ copy = Automation!NoRecords)

\* Without an overlap one process is alive, and it alone writes the history.
RunsInv ==
    /\ runs \in Seq(Run) /\ history \in Records
    /\ ~overlapped =>
         /\ \A n, m \in DOMAIN runs : runs[n].pc \notin Gone /\ runs[m].pc \notin Gone => n = m
         /\ \A n \in DOMAIN runs : runs[n].pc \in {"recording", "ending"} => Copied(runs[n].copy, history, misread)
    /\ EndedRunsRecorded

\* A process that is alive moves on.
LEMMA RunMoves ==
    ASSUME RunsInv, NEW n \in DOMAIN runs, runs[n].pc \notin Gone,
           NEW r \in Run, runs' = [runs EXCEPT ![n] = r], UNCHANGED overlapped,
           history' \in Records, misread => misread',
           \A m \in DOMAIN history : m # n => m \in DOMAIN history' \/ misread',
           \A m \in DOMAIN history' : m # n => m \in DOMAIN history /\ history'[m] = history[m],
           r.pc = "ended" => n \in DOMAIN history' /\ history'[n] = "ended",
           r.pc \in {"recording", "ending"} => Copied(r.copy, history', misread')
    PROVE  RunsInv'
<1> USE DEF RunsInv
<1>1. runs' \in Seq(Run) /\ DOMAIN runs' = DOMAIN runs
  BY ExceptSeq
<1>2. \A m \in DOMAIN runs : runs'[m] = IF m = n THEN r ELSE runs[m] OBVIOUS
<1>3. ASSUME ~overlapped
      PROVE  /\ \A m \in DOMAIN runs' : runs'[m].pc \notin Gone => m = n
             /\ \A m \in DOMAIN runs' :
                  runs'[m].pc \in {"recording", "ending"} => Copied(runs'[m].copy, history', misread')
  <2>1. \A m \in DOMAIN runs : runs[m].pc \notin Gone => m = n BY <1>3
  <2>2. \A m \in DOMAIN runs : runs[m].pc \in {"recording", "ending"} => m = n BY <2>1 DEF Gone
  <2>3. ASSUME NEW m \in DOMAIN runs', runs'[m].pc \in {"recording", "ending"} PROVE Copied(runs'[m].copy, history', misread')
    <3>1. m = n /\ runs'[m] = r BY <1>1, <1>2, <2>2, <2>3
    <3> QED BY <2>3, <3>1
  <2> QED BY <1>1, <1>2, <2>1, <2>3
<1>4. EndedRunsRecorded'
  BY <1>1, <1>2 DEF EndedRunsRecorded, Automation!EndedRunsRecorded
<1> QED BY <1>1, <1>3, <1>4

LEMMA NoneRecorded == Automation!NoRecords \in Records
<1>1. Automation!NoRecords \in [{} -> {"running", "ended"}] BY DEF Automation!NoRecords
<1> QED BY <1>1 DEF Records

LEMMA RunStarts == ASSUME RunsInv, Automation!StartRun PROVE RunsInv'
<1> USE DEF RunsInv
<1>1. PICK trigger \in {"schedule", "manual"} :
        /\ runs' = Append(runs, [pc |-> trigger, copy |-> Automation!NoRecords])
        /\ overlapped' = (overlapped \/ Automation!Alive # {}) /\ UNCHANGED <<history, misread>>
  BY DEF Automation!StartRun
<1>2. Automation!NoRecords \in Records BY NoneRecorded
<1>3. PICK r \in Run : r = [pc |-> trigger, copy |-> Automation!NoRecords] /\ r.pc = trigger
  <2>1. [pc |-> trigger, copy |-> Automation!NoRecords] \in Run BY <1>2 DEF Run
  <2> QED BY <2>1
<1>4. PICK n : n = Len(runs) + 1 OBVIOUS
<1>5. /\ runs' \in Seq(Run) /\ DOMAIN runs' = DOMAIN runs \cup {n} /\ runs'[n] = r
      /\ \A i \in DOMAIN runs : runs'[i] = runs[i]
  BY <1>1, <1>3, <1>4, OneMore, AppendIsConcat
<1>6. ~overlapped' => ~overlapped /\ \A i \in DOMAIN runs : runs[i].pc \in Gone
  BY <1>1 DEF Automation!Alive, Gone
<1>7. EndedRunsRecorded'
  BY <1>1, <1>3, <1>5, <1>6 DEF EndedRunsRecorded, Automation!EndedRunsRecorded
<1>8. ASSUME ~overlapped'
      PROVE  /\ \A i, j \in DOMAIN runs' : runs'[i].pc \notin Gone /\ runs'[j].pc \notin Gone => i = j
             /\ \A i \in DOMAIN runs' : runs'[i].pc \notin {"recording", "ending"}
  BY <1>3, <1>5, <1>6, <1>8 DEF Gone
<1> QED BY <1>1, <1>5, <1>7, <1>8

LEMMA RunGoesOn ==
    ASSUME RunsInv, NEW n \in DOMAIN runs
    PROVE  \A pc : [runs EXCEPT ![n].pc = pc] = [runs EXCEPT ![n] = [pc |-> pc, copy |-> runs[n].copy]]
<1> SUFFICES ASSUME NEW pc
             PROVE  [runs EXCEPT ![n].pc = pc] = [runs EXCEPT ![n] = [pc |-> pc, copy |-> runs[n].copy]]
  OBVIOUS
<1>1. runs[n] \in Run BY ElementOfSeq DEF RunsInv
<1>2. [runs[n] EXCEPT !.pc = pc] = [pc |-> pc, copy |-> runs[n].copy] BY <1>1 DEF Run
<1> QED BY <1>2

LEMMA RunsSteps == ASSUME RunsInv, [Automation!Next]_Automation!vars PROVE RunsInv'
<1>1. CASE UNCHANGED <<runs, history, overlapped, misread>>
  BY <1>1 DEF RunsInv, Copied, EndedRunsRecorded, Automation!EndedRunsRecorded
<1>2. CASE Automation!CreateItem \/ Automation!Toggle \/ Automation!EditItem
           \/ Automation!DeleteItem
  BY <1>1, <1>2 DEF Automation!CreateItem, Automation!Toggle, Automation!EditItem,
                    Automation!DeleteItem, Automation!Edit
<1>3. ASSUME NEW n \in DOMAIN runs PROVE runs[n] \in Run /\ runs[n].copy \in Records
  <2>1. runs[n] \in Run BY ElementOfSeq DEF RunsInv
  <2> QED BY <2>1 DEF Run
<1>4. CASE Automation!LoadItem
  <2>1. PICK n \in DOMAIN runs, pc \in {"starting", "gone"} :
          /\ runs[n].pc \in {"schedule", "manual"} /\ runs' = [runs EXCEPT ![n].pc = pc]
          /\ UNCHANGED <<history, overlapped, misread>>
    BY <1>4 DEF Automation!LoadItem
  <2>2. PICK r \in Run : r.pc = pc /\ runs' = [runs EXCEPT ![n] = r]
    <3>1. [pc |-> pc, copy |-> runs[n].copy] \in Run BY <1>3 DEF Run, Gone
    <3> QED BY <2>1, <3>1, RunGoesOn
  <2> QED BY <2>1, <2>2, RunMoves DEF Gone, RunsInv
<1>5. CASE Automation!LoadHistory
  <2>1. PICK n \in DOMAIN runs, copy \in {history, Automation!NoRecords} :
          /\ runs[n].pc \in {"starting", "done"}
          /\ runs' = [runs EXCEPT ![n] = [pc |-> IF @.pc = "starting" THEN "recording" ELSE "ending",
                                          copy |-> copy]]
          /\ misread' = (misread \/ copy # history) /\ UNCHANGED <<history, overlapped>>
    BY <1>5 DEF Automation!LoadHistory
  <2>2. PICK pc \in {"recording", "ending"} : runs' = [runs EXCEPT ![n] = [pc |-> pc, copy |-> copy]]
    BY <2>1
  <2>3. PICK r \in Run : r.pc = pc /\ r.copy = copy /\ runs' = [runs EXCEPT ![n] = r]
    <3>1. [pc |-> pc, copy |-> copy] \in Run BY <2>1, NoneRecorded DEF Run, RunsInv
    <3> QED BY <2>2, <3>1
  <2>4. Copied(r.copy, history', misread') BY <2>1, <2>3 DEF Copied
  <2>5. runs[n].pc \notin Gone BY <2>1 DEF Gone
  <2>6. history' \in Records /\ r.pc # "ended" BY <2>1, <2>3 DEF RunsInv
  <2> QED BY <2>1, <2>3, <2>4, <2>5, <2>6, RunMoves
<1>6. CASE Automation!SaveHistory
  <2>1. PICK n \in DOMAIN runs :
          /\ runs[n].pc \in {"recording", "ending"} /\ UNCHANGED <<overlapped, misread>>
          /\ history' = Automation!Upsert(runs[n].copy, n, Automation!Recorded(runs[n].pc))
          /\ runs' = [runs EXCEPT ![n] = [pc |-> IF @.pc = "recording" THEN "running" ELSE "ended",
                                          copy |-> Automation!NoRecords]]
    BY <1>6 DEF Automation!SaveHistory
  <2>2. PICK pc \in {"running", "ended"} :
          /\ pc = (IF runs[n].pc = "recording" THEN "running" ELSE "ended")
          /\ runs' = [runs EXCEPT ![n] = [pc |-> pc, copy |-> Automation!NoRecords]]
    BY <2>1
  <2>3. PICK r \in Run : r.pc = pc /\ runs' = [runs EXCEPT ![n] = r]
    <3>1. [pc |-> pc, copy |-> Automation!NoRecords] \in Run BY NoneRecorded DEF Run, Gone
    <3> QED BY <2>2, <3>1
  <2>4. PICK now \in {"running", "ended"} :
          /\ now = Automation!Recorded(runs[n].pc) /\ (pc = "ended" => now = "ended")
    BY <2>1, <2>2 DEF Automation!Recorded
  <2>5. history' = [m \in DOMAIN runs[n].copy \cup {n} |-> IF m = n THEN now ELSE runs[n].copy[m]]
    BY <2>1, <2>4 DEF Automation!Upsert
  <2>6. history' \in Records
    <3>1. n \in Nat
      BY LenProperties DEF RunsInv
    <3>2. PICK D \in SUBSET Nat : runs[n].copy \in [D -> {"running", "ended"}] BY <1>3 DEF Records
    <3>3. history' \in [D \cup {n} -> {"running", "ended"}] BY <2>5, <3>2
    <3> QED BY <3>1, <3>2, <3>3 DEF Records
  <2>7. CASE overlapped
    <3>1. runs' \in Seq(Run) BY <2>3, ExceptSeq DEF RunsInv
    <3> QED BY <2>1, <2>6, <2>7, <3>1 DEF RunsInv, EndedRunsRecorded, Automation!EndedRunsRecorded
  <2>8. CASE ~overlapped
    <3>1. runs[n].copy = history \/ (misread' /\ DOMAIN runs[n].copy = {})
      <4>1. Copied(runs[n].copy, history, misread) BY <2>1, <2>8 DEF RunsInv
      <4>2. DOMAIN Automation!NoRecords = {} BY DEF Automation!NoRecords
      <4> QED BY <2>1, <4>1, <4>2 DEF Copied
    <3>2. /\ \A m \in DOMAIN history : m # n => m \in DOMAIN history' \/ misread'
          /\ \A m \in DOMAIN history' : m # n => m \in DOMAIN history /\ history'[m] = history[m]
      BY <2>5, <3>1
    <3>3. n \in DOMAIN history' /\ history'[n] = now BY <2>5
    <3>4. r.pc \notin {"recording", "ending"} BY <2>2, <2>3
    <3>5. r.pc = "ended" => history'[n] = "ended" BY <2>2, <2>3, <2>4, <3>3
    <3>6. runs[n].pc \notin Gone /\ UNCHANGED <<overlapped, misread>> BY <2>1 DEF Gone
    <3> QED BY <2>3, <2>6, <3>2, <3>3, <3>4, <3>5, <3>6, RunMoves
  <2> QED BY <2>7, <2>8
<1>7. CASE Automation!EndRun
  <2>1. PICK n \in DOMAIN runs :
          /\ runs[n].pc = "running" /\ runs' = [runs EXCEPT ![n].pc = "done"]
          /\ UNCHANGED <<history, overlapped, misread>>
    BY <1>7 DEF Automation!EndRun
  <2>2. PICK r \in Run : r.pc = "done" /\ runs' = [runs EXCEPT ![n] = r]
    <3>1. [pc |-> "done", copy |-> runs[n].copy] \in Run BY <1>3 DEF Run
    <3> QED BY <2>1, <3>1, RunGoesOn
  <2> QED BY <2>1, <2>2, RunMoves DEF Gone, RunsInv
<1>8. CASE Automation!LoseRun
  <2>1. PICK n \in DOMAIN runs :
          /\ runs[n].pc \notin Gone
          /\ runs' = [runs EXCEPT ![n] = [pc |-> "gone", copy |-> Automation!NoRecords]]
          /\ UNCHANGED <<history, overlapped, misread>>
    BY <1>8 DEF Automation!LoseRun, Automation!Alive, Gone
  <2>2. PICK r \in Run : r.pc = "gone" /\ runs' = [runs EXCEPT ![n] = r]
    <3>1. [pc |-> "gone", copy |-> Automation!NoRecords] \in Run BY NoneRecorded DEF Run, Gone
    <3> QED BY <2>1, <3>1
  <2> QED BY <2>1, <2>2, RunMoves DEF RunsInv
<1> QED
  BY <1>1, <1>2, <1>4, <1>5, <1>6, <1>7, <1>8, RunStarts DEF Automation!Next, Automation!vars

\* Without overlapping processes a run that reached its end is recorded as
\* ended, for any number of runs, or its record is gone after a process could
\* not read the history (update_history, automation.rs:317).
THEOREM RunsRecorded == Automation!Spec => []EndedRunsRecorded
<1>1. Automation!Init => RunsInv
  <2> SUFFICES ASSUME Automation!Init PROVE RunsInv OBVIOUS
  <2>1. runs = <<>> /\ history = Automation!NoRecords BY DEF Automation!Init
  <2>2. history \in [{} -> {"running", "ended"}] BY <2>1 DEF Automation!NoRecords
  <2>3. runs \in Seq(Run) BY <2>1, EmptySeq
  <2>4. DOMAIN runs = {} BY <2>1
  <2> QED BY <2>2, <2>3, <2>4 DEF RunsInv, Records, EndedRunsRecorded, Automation!EndedRunsRecorded
<1> QED BY <1>1, RunsSteps, PTL DEF Automation!Spec, RunsInv

---------------------------------------------------------------------------
(* Turns of Buddy models.                                                  *)

Statuses == {"inProgress", "completed", "failed"}
TurnSets == UNION {[D -> Statuses] : D \in SUBSET Nat}
Report == [task : Tasks, turn : Nat, kind : {"progress", "completed", "failed"}]

BuddyTyped ==
    /\ active \in Tasks \cup {NoTask} /\ listed \subseteq Tasks /\ external \subseteq Tasks
    /\ shown \in [Tasks -> TurnSets] /\ stored \in [Tasks -> TurnSets]
    /\ host \subseteq [task : Tasks, turn : Nat] /\ events \in Seq(Report) /\ started \in Nat
    /\ progress \in [Tasks -> Nat]

\* A delegate's last word on its way.
Ending(i) == i \in DOMAIN events /\ events[i].kind # "progress"

\* A delegate is at work, or its last word is on its way.
Live(t, n) ==
    \/ [task |-> t, turn |-> n] \in host
    \/ \E i \in DOMAIN events : Ending(i) /\ events[i].task = t /\ events[i].turn = n

\* One delegate works for a task.
OneDelegate ==
    /\ \A j, k \in host : j.task = k.task => j = k
    /\ \A i, k \in DOMAIN events :
         Ending(i) /\ Ending(k) /\ events[i].task = events[k].task => i = k
    /\ \A j \in host : \A i \in DOMAIN events : Ending(i) => events[i].task # j.task

\* The turn of a delegate is where its answer will look for it.
Awaited ==
    \A t \in Tasks : \A n \in Nat :
      Live(t, n) => t \in listed \cap external /\ n \in DOMAIN shown[t] \cap DOMAIN stored[t]

\* What is said to be in progress is.
Working ==
    \A t \in Tasks : \A n \in Nat :
      /\ n \in DOMAIN shown[t] /\ shown[t][n] = "inProgress" => Live(t, n)
      /\ n \in DOMAIN stored[t] /\ stored[t][n] = "inProgress" => Live(t, n)

BuddyInv == BuddyTyped /\ OneDelegate /\ Awaited /\ Working

LEMMA TurnSetKnown ==
    ASSUME NEW s \in TurnSets
    PROVE  DOMAIN s \subseteq Nat /\ \A n \in DOMAIN s : s[n] \in Statuses
BY DEF TurnSets

LEMMA MergeKnown ==
    ASSUME NEW s \in TurnSets, NEW u \in TurnSets PROVE Buddy!Merge(s, u) \in TurnSets
<1>1. DOMAIN s \cup DOMAIN u \in SUBSET Nat /\ \A n \in DOMAIN s : s[n] \in Statuses
  BY TurnSetKnown
<1>2. \A n \in DOMAIN u : u[n] \in Statuses BY TurnSetKnown
<1>3. Buddy!Merge(s, u) \in [DOMAIN s \cup DOMAIN u -> Statuses]
  BY <1>1, <1>2 DEF Buddy!Merge
<1> QED BY <1>1, <1>3 DEF TurnSets

LEMMA PutKnown ==
    ASSUME NEW s \in TurnSets, NEW n \in Nat, NEW value \in Statuses
    PROVE  Buddy!Put(s, n, value) \in TurnSets
<1>1. DOMAIN s \cup {n} \in SUBSET Nat /\ \A m \in DOMAIN s : s[m] \in Statuses
  BY TurnSetKnown
<1>2. Buddy!Put(s, n, value) \in [DOMAIN s \cup {n} -> Statuses] BY <1>1 DEF Buddy!Put
<1> QED BY <1>1, <1>2 DEF TurnSets

LEMMA NoTurnsKnown == Buddy!NoTurns \in TurnSets /\ DOMAIN Buddy!NoTurns = {}
<1>1. Buddy!NoTurns \in [{} -> Statuses] BY DEF Buddy!NoTurns, Statuses
<1> QED BY <1>1 DEF TurnSets

\* While no delegate comes or goes, it is enough that what is shown and saved
\* keeps the turns of those at work, and says nothing new in progress.
LEMMA SameDelegates ==
    ASSUME BuddyInv, BuddyTyped', UNCHANGED host,
           \A i \in DOMAIN events' : Ending(i)' =>
             \E k \in DOMAIN events : Ending(k) /\ events[k] = events'[i],
           \A i \in DOMAIN events : Ending(i) =>
             \E k \in DOMAIN events' : Ending(k)' /\ events'[k] = events[i],
           \A i, k \in DOMAIN events' : Ending(i)' /\ Ending(k)' /\ events'[i].task = events'[k].task
             => i = k,
           \A t \in Tasks : \A n \in Nat : Live(t, n) =>
             t \in listed' \cap external' /\ n \in DOMAIN shown'[t] \cap DOMAIN stored'[t],
           \A t \in Tasks : \A n \in Nat :
             /\ n \in DOMAIN shown'[t] /\ shown'[t][n] = "inProgress" => Live(t, n)
             /\ n \in DOMAIN stored'[t] /\ stored'[t][n] = "inProgress" => Live(t, n)
    PROVE  BuddyInv'
<1>1. \A t, n : Live(t, n)' <=> Live(t, n)
  <2> SUFFICES ASSUME NEW t, NEW n PROVE Live(t, n)' <=> Live(t, n) OBVIOUS
  <2>1. (\E i \in DOMAIN events : Ending(i) /\ events[i].task = t /\ events[i].turn = n)
        <=> \E i \in DOMAIN events' : Ending(i)' /\ events'[i].task = t /\ events'[i].turn = n
    OBVIOUS
  <2> QED BY <2>1 DEF Live
<1>2. OneDelegate' BY DEF BuddyInv, OneDelegate
<1>3. Awaited' BY <1>1 DEF Awaited
<1>4. Working' BY <1>1 DEF Working
<1> QED BY <1>2, <1>3, <1>4 DEF BuddyInv

LEMMA SameQueue ==
    ASSUME BuddyInv, BuddyTyped', UNCHANGED <<host, events>>,
           \A t \in Tasks : \A n \in Nat : Live(t, n) =>
             t \in listed' \cap external' /\ n \in DOMAIN shown'[t] \cap DOMAIN stored'[t],
           \A t \in Tasks : \A n \in Nat :
             /\ n \in DOMAIN shown'[t] /\ shown'[t][n] = "inProgress" => Live(t, n)
             /\ n \in DOMAIN stored'[t] /\ stored'[t][n] = "inProgress" => Live(t, n)
    PROVE  BuddyInv'
<1>1. \A i : Ending(i)' <=> Ending(i) BY DEF Ending
<1>2. \A i, k \in DOMAIN events' : Ending(i)' /\ Ending(k)' /\ events'[i].task = events'[k].task => i = k
  BY <1>1 DEF BuddyInv, OneDelegate
<1> QED BY <1>1, <1>2, SameDelegates

LEMMA StartBuddySafe == ASSUME BuddyInv, Buddy!StartBuddyTurn PROVE BuddyInv'
<1> USE DEF BuddyInv
<1>0. PICK n : n = started + 1 OBVIOUS
<1>1. /\ n \in Nat
      /\ shown' = [shown EXCEPT ![active] = Buddy!Put(@, n, "inProgress")]
      /\ stored' = [stored EXCEPT ![active] = Buddy!Put(@, n, "inProgress")]
      /\ external' = external \cup {active} /\ progress' = [progress EXCEPT ![active] = n]
      /\ host' = host \cup {[task |-> active, turn |-> n]} /\ started' = n
      /\ UNCHANGED <<active, listed, events>>
  BY <1>0 DEF Buddy!StartBuddyTurn, BuddyTyped
<1>2. active \in listed /\ active \in Tasks /\ Buddy!At(active) = {}
  BY DEF Buddy!StartBuddyTurn, BuddyTyped
<1>3. /\ \A j \in host : j.task # active
      /\ \A i \in DOMAIN events : events[i].task # active
  BY <1>2 DEF Buddy!At
<1>4. PICK x \in TurnSets, y \in TurnSets, v \in Statuses :
        x = shown[active] /\ y = stored[active] /\ v = "inProgress"
  BY <1>2 DEF BuddyTyped, Statuses
<1>5. PICK s \in TurnSets :
        /\ s = Buddy!Put(shown[active], n, "inProgress") /\ DOMAIN s = DOMAIN shown[active] \cup {n}
        /\ \A m \in DOMAIN s : s[m] = IF m = n THEN "inProgress" ELSE shown[active][m]
  <2>1. PICK s : s = Buddy!Put(x, n, v) OBVIOUS
  <2>2. s \in TurnSets BY <1>1, <2>1, PutKnown
  <2>3. /\ DOMAIN s = DOMAIN x \cup {n}
        /\ \A m \in DOMAIN x \cup {n} : s[m] = IF m = n THEN v ELSE x[m]
    BY <2>1 DEF Buddy!Put
  <2> QED BY <1>4, <2>1, <2>2, <2>3
<1>6. PICK u \in TurnSets :
        /\ u = Buddy!Put(stored[active], n, "inProgress") /\ DOMAIN u = DOMAIN stored[active] \cup {n}
        /\ \A m \in DOMAIN u : u[m] = IF m = n THEN "inProgress" ELSE stored[active][m]
  <2>1. PICK u : u = Buddy!Put(y, n, v) OBVIOUS
  <2>2. u \in TurnSets BY <1>1, <2>1, PutKnown
  <2>3. /\ DOMAIN u = DOMAIN y \cup {n}
        /\ \A m \in DOMAIN y \cup {n} : u[m] = IF m = n THEN v ELSE y[m]
    BY <2>1 DEF Buddy!Put
  <2> QED BY <1>4, <2>1, <2>2, <2>3
<1>7. /\ \A t \in Tasks : shown'[t] = IF t = active THEN s ELSE shown[t]
      /\ \A t \in Tasks : stored'[t] = IF t = active THEN u ELSE stored[t]
      /\ shown' \in [Tasks -> TurnSets] /\ stored' \in [Tasks -> TurnSets]
  BY <1>1, <1>2, <1>5, <1>6 DEF BuddyTyped
<1>8. PICK mine \in [task : Tasks, turn : Nat] :
        mine = [task |-> active, turn |-> n] /\ mine.task = active /\ mine.turn = n
  <2>1. [task |-> active, turn |-> n] \in [task : Tasks, turn : Nat] BY <1>1, <1>2
  <2> QED BY <2>1
<1>9. host' = host \cup {mine} BY <1>1, <1>8
<1>10. BuddyTyped' BY <1>1, <1>2, <1>7, <1>9 DEF BuddyTyped
<1>11. \A i : Ending(i)' <=> Ending(i) BY <1>1 DEF Ending
<1>12. \A t \in Tasks : \A m \in Nat : Live(t, m)' <=> Live(t, m) \/ (t = active /\ m = n)
  <2> SUFFICES ASSUME NEW t \in Tasks, NEW m \in Nat
               PROVE  Live(t, m)' <=> Live(t, m) \/ (t = active /\ m = n)
    OBVIOUS
  <2>1. [task |-> t, turn |-> m] = mine <=> t = active /\ m = n BY <1>8
  <2> QED BY <1>1, <1>9, <1>11, <2>1 DEF Live
<1>13. OneDelegate' BY <1>1, <1>3, <1>8, <1>9, <1>11 DEF OneDelegate
<1>14. Awaited' BY <1>1, <1>2, <1>5, <1>6, <1>7, <1>12 DEF Awaited
<1>15. Working' BY <1>5, <1>6, <1>7, <1>12 DEF Working
<1> QED BY <1>10, <1>13, <1>14, <1>15

LEMMA ReportSafe == ASSUME BuddyInv, Buddy!Report PROVE BuddyInv'
<1> USE DEF BuddyInv
<1>1. PICK j \in host, kind \in {"progress", "completed", "failed"} :
        /\ events' = Append(events, [task |-> j.task, turn |-> j.turn, kind |-> kind])
        /\ host' = IF kind = "progress" THEN host ELSE host \ {j}
        /\ UNCHANGED <<active, shown, listed, external, progress, stored, started>>
  BY DEF Buddy!Report
<1>2. j \in [task : Tasks, turn : Nat] /\ j = [task |-> j.task, turn |-> j.turn] BY DEF BuddyTyped
<1>3. PICK e \in Report :
        /\ e = [task |-> j.task, turn |-> j.turn, kind |-> kind]
        /\ e.task = j.task /\ e.turn = j.turn /\ e.kind = kind
  <2>1. [task |-> j.task, turn |-> j.turn, kind |-> kind] \in Report BY <1>2 DEF Report
  <2> QED BY <2>1
<1>4. PICK k : k = Len(events) + 1 OBVIOUS
<1>5. /\ events' \in Seq(Report) /\ DOMAIN events' = DOMAIN events \cup {k} /\ events'[k] = e
      /\ \A i \in DOMAIN events : events'[i] = events[i] /\ i # k
  <2>1. events' = events \o <<e>> BY <1>1, <1>3, AppendIsConcat DEF BuddyTyped
  <2>2. Len(events) \in Nat /\ DOMAIN events = 1..Len(events) BY LenProperties DEF BuddyTyped
  <2> QED BY <1>4, <2>1, <2>2, OneMore DEF BuddyTyped
<1>6. BuddyTyped' BY <1>1, <1>5 DEF BuddyTyped
<1>7. \A i : Ending(i)' <=> Ending(i) \/ (i = k /\ kind # "progress") BY <1>3, <1>5 DEF Ending
<1>8. CASE kind = "progress"
  <2>1. \A i : Ending(i)' <=> Ending(i) BY <1>7, <1>8
  <2>2. \A i : Ending(i) => i \in DOMAIN events BY DEF Ending
  <2>3. \A i, l \in DOMAIN events' : Ending(i)' /\ Ending(l)' /\ events'[i].task = events'[l].task
          => i = l
    BY <1>5, <2>1, <2>2 DEF OneDelegate
  <2>4. \A i \in DOMAIN events' : Ending(i)' => \E l \in DOMAIN events : Ending(l) /\ events[l] = events'[i]
    BY <1>5, <2>1, <2>2
  <2>5. \A i \in DOMAIN events : Ending(i) => \E l \in DOMAIN events' : Ending(l)' /\ events'[l] = events[i]
    BY <1>5, <2>1, <2>2
  <2>6. \A t \in Tasks : \A n \in Nat : Live(t, n) =>
          t \in listed' \cap external' /\ n \in DOMAIN shown'[t] \cap DOMAIN stored'[t]
    BY <1>1 DEF Awaited
  <2>7. \A t \in Tasks : \A n \in Nat :
          /\ n \in DOMAIN shown'[t] /\ shown'[t][n] = "inProgress" => Live(t, n)
          /\ n \in DOMAIN stored'[t] /\ stored'[t][n] = "inProgress" => Live(t, n)
    BY <1>1 DEF Working
  <2> QED BY <1>1, <1>6, <1>8, <2>3, <2>4, <2>5, <2>6, <2>7, SameDelegates
<1>9. CASE kind # "progress"
  <2>1. host' = host \ {j} BY <1>1, <1>9
  <2>2. \A t \in Tasks : \A n \in Nat : Live(t, n)' <=> Live(t, n)
    <3> SUFFICES ASSUME NEW t \in Tasks, NEW n \in Nat PROVE Live(t, n)' <=> Live(t, n) OBVIOUS
    <3>1. [task |-> t, turn |-> n] = j <=> t = j.task /\ n = j.turn BY <1>2
    <3>2. Live(t, n)' => Live(t, n) BY <1>3, <1>5, <1>7, <2>1, <3>1 DEF Live
    <3>3. (\E i \in DOMAIN events : Ending(i) /\ events[i].task = t /\ events[i].turn = n) => Live(t, n)'
      BY <1>5, <1>7 DEF Live
    <3>4. t = j.task /\ n = j.turn => Live(t, n)' BY <1>3, <1>5, <1>7, <1>9 DEF Live
    <3>5. [task |-> t, turn |-> n] \in host => Live(t, n)' BY <2>1, <3>1, <3>4 DEF Live
    <3> QED BY <3>2, <3>3, <3>5 DEF Live
  <2>3. OneDelegate'
    <3>1. \A i \in DOMAIN events : Ending(i) => events[i].task # j.task BY DEF OneDelegate
    <3>2. \A i : Ending(i) => i \in DOMAIN events BY DEF Ending
    <3>3. \A i, l \in DOMAIN events' : Ending(i)' /\ Ending(l)' /\ events'[i].task = events'[l].task
            => i = l
      BY <1>3, <1>5, <1>7, <3>1, <3>2 DEF OneDelegate
    <3>4. \A d \in host' : d.task # j.task BY <2>1 DEF OneDelegate
    <3>5. \A d \in host' : \A i \in DOMAIN events' : Ending(i)' => events'[i].task # d.task
      BY <1>3, <1>5, <1>7, <2>1, <3>2, <3>4 DEF OneDelegate
    <3> QED BY <2>1, <3>3, <3>5 DEF OneDelegate
  <2>4. Awaited' BY <1>1, <2>2 DEF Awaited
  <2>5. Working' BY <1>1, <2>2 DEF Working
  <2> QED BY <1>6, <2>3, <2>4, <2>5
<1> QED BY <1>8, <1>9

\* What is said of a turn at work is stored as it is shown.
LEMMA ProgressSafe == ASSUME BuddyInv, Buddy!UpdateBuddyProgress PROVE BuddyInv'
<1> USE DEF BuddyInv
<1>1. /\ events # <<>> /\ Head(events).kind = "progress" /\ events' = Tail(events)
      /\ UNCHANGED <<active, shown, listed, external, progress, host, started>>
  BY DEF Buddy!UpdateBuddyProgress, Buddy!Received
<1>2. PICK e \in Report : e = Head(events) /\ e = events[1] /\ e.kind = "progress"
  BY <1>1, Taken DEF BuddyTyped
<1>3. e.task \in Tasks /\ e.turn \in Nat BY DEF Report
<1>4. /\ stored' \in [Tasks -> TurnSets]
      /\ \A t \in Tasks : DOMAIN stored[t] \subseteq DOMAIN stored'[t]
      /\ \A t \in Tasks : \A n \in DOMAIN stored'[t] :
           \/ n \in DOMAIN stored[t] /\ stored'[t][n] = stored[t][n]
           \/ n \in DOMAIN shown[t] /\ stored'[t][n] = shown[t][n]
  <2>1. CASE stored' = stored BY <2>1 DEF BuddyTyped
  <2>2. CASE /\ e.turn \in DOMAIN shown[e.task]
             /\ stored' = [stored EXCEPT ![e.task] = Buddy!Put(@, e.turn, shown[e.task][e.turn])]
    <3>1. PICK x \in TurnSets, y \in TurnSets, n \in Nat :
            x = shown[e.task] /\ y = stored[e.task] /\ n = e.turn
      BY <1>3 DEF BuddyTyped
    <3>2. n \in DOMAIN x BY <2>2, <3>1
    <3>3. PICK v \in Statuses : v = x[n] BY <3>2, TurnSetKnown
    <3>4. PICK u : u = Buddy!Put(y, n, v) OBVIOUS
    <3>5. u \in TurnSets BY <3>4, PutKnown
    <3>6. /\ DOMAIN u = DOMAIN y \cup {n}
          /\ \A m \in DOMAIN y \cup {n} : u[m] = IF m = n THEN v ELSE y[m]
      BY <3>4 DEF Buddy!Put
    <3>7. stored' = [stored EXCEPT ![e.task] = u] BY <2>2, <3>1, <3>3, <3>4
    <3> QED BY <1>3, <3>1, <3>2, <3>3, <3>5, <3>6, <3>7 DEF BuddyTyped
  <2> QED BY <1>2, <2>1, <2>2 DEF Buddy!UpdateBuddyProgress
<1>5. /\ events' \in Seq(Report) /\ DOMAIN events \subseteq Nat
      /\ \A i \in DOMAIN events' : i \in Nat /\ i + 1 \in DOMAIN events /\ events'[i] = events[i + 1]
      /\ \A i \in DOMAIN events : i = 1 \/ i - 1 \in DOMAIN events'
  BY <1>1, Taken DEF BuddyTyped
<1>6. BuddyTyped' BY <1>1, <1>4, <1>5 DEF BuddyTyped
<1>7. \A i \in DOMAIN events' : Ending(i)' => Ending(i + 1) BY <1>5 DEF Ending
<1>8. ~Ending(1) BY <1>2 DEF Ending
<1>9. \A i \in DOMAIN events' : Ending(i)' =>
        \E k \in DOMAIN events : Ending(k) /\ events[k] = events'[i]
  BY <1>5, <1>7
<1>10. \A i \in DOMAIN events : Ending(i) =>
         \E k \in DOMAIN events' : Ending(k)' /\ events'[k] = events[i]
  <2> SUFFICES ASSUME NEW i \in DOMAIN events, Ending(i)
               PROVE  \E k \in DOMAIN events' : Ending(k)' /\ events'[k] = events[i]
    OBVIOUS
  <2>1. i - 1 \in DOMAIN events' /\ (i - 1) + 1 = i BY <1>5, <1>8
  <2>2. events'[i - 1] = events[i] BY <1>5, <2>1
  <2> QED BY <2>1, <2>2 DEF Ending
<1>11. \A i, k \in DOMAIN events' : Ending(i)' /\ Ending(k)' /\ events'[i].task = events'[k].task
         => i = k
  <2> SUFFICES ASSUME NEW i \in DOMAIN events', NEW k \in DOMAIN events', Ending(i)', Ending(k)',
                      events'[i].task = events'[k].task
               PROVE  i = k
    OBVIOUS
  <2>1. i + 1 = k + 1 BY <1>5, <1>7 DEF OneDelegate
  <2> QED BY <1>5, <2>1
<1>12. \A t \in Tasks : \A n \in Nat : Live(t, n) =>
         t \in listed' \cap external' /\ n \in DOMAIN shown'[t] \cap DOMAIN stored'[t]
  BY <1>1, <1>4 DEF Awaited
<1>13. \A t \in Tasks : \A n \in Nat :
         /\ n \in DOMAIN shown'[t] /\ shown'[t][n] = "inProgress" => Live(t, n)
         /\ n \in DOMAIN stored'[t] /\ stored'[t][n] = "inProgress" => Live(t, n)
  BY <1>1, <1>4 DEF Working
<1> QED BY <1>1, <1>6, <1>9, <1>10, <1>11, <1>12, <1>13, SameDelegates

\* The answer finds its turn, so that it reaches the disk.
LEMMA FinishSafe == ASSUME BuddyInv, Buddy!FinishBuddyTurn PROVE BuddyInv'
<1> USE DEF BuddyInv
<1>1. /\ events # <<>> /\ Head(events).kind \in {"completed", "failed"} /\ events' = Tail(events)
      /\ UNCHANGED <<active, listed, host, started>>
  BY DEF Buddy!FinishBuddyTurn, Buddy!Received
<1>2. PICK e \in Report :
        e = Head(events) /\ e = events[1] /\ e.kind \in {"completed", "failed"} /\ 1 \in DOMAIN events
  BY <1>1, Taken DEF BuddyTyped
<1>3. e.task \in Tasks /\ e.turn \in Nat BY DEF Report
<1>4. Ending(1) /\ Live(e.task, e.turn) BY <1>2 DEF Ending, Live
<1>5. e.task \in listed /\ e.turn \in DOMAIN shown[e.task] BY <1>3, <1>4 DEF Awaited
<1>6. /\ external' = external \ {e.task} /\ progress' = [progress EXCEPT ![e.task] = 0]
      /\ shown' = [shown EXCEPT ![e.task][e.turn] = e.kind]
      /\ stored' = [stored EXCEPT ![e.task] = Buddy!Put(@, e.turn, e.kind)]
  BY <1>2, <1>5 DEF Buddy!FinishBuddyTurn
<1>7. shown[e.task] \in TurnSets /\ stored[e.task] \in TurnSets /\ e.kind \in Statuses
  BY <1>2, <1>3 DEF BuddyTyped, Statuses
<1>8. PICK s \in TurnSets :
        /\ s = [shown[e.task] EXCEPT ![e.turn] = e.kind] /\ DOMAIN s = DOMAIN shown[e.task]
        /\ \A m \in DOMAIN s : s[m] = IF m = e.turn THEN e.kind ELSE shown[e.task][m]
  <2>1. PICK s : s = [shown[e.task] EXCEPT ![e.turn] = e.kind] OBVIOUS
  <2>2. PICK D \in SUBSET Nat : shown[e.task] \in [D -> Statuses] BY <1>7 DEF TurnSets
  <2>3. s \in [D -> Statuses] /\ \A m \in D : s[m] = IF m = e.turn THEN e.kind ELSE shown[e.task][m]
    BY <1>7, <2>1, <2>2
  <2>4. s \in TurnSets BY <2>3 DEF TurnSets
  <2> QED BY <2>1, <2>2, <2>3, <2>4
<1>9. PICK u \in TurnSets :
        /\ u = Buddy!Put(stored[e.task], e.turn, e.kind) /\ DOMAIN u = DOMAIN stored[e.task] \cup {e.turn}
        /\ \A m \in DOMAIN u : u[m] = IF m = e.turn THEN e.kind ELSE stored[e.task][m]
  <2>1. PICK y \in TurnSets, n \in Nat, v \in Statuses : y = stored[e.task] /\ n = e.turn /\ v = e.kind
    BY <1>3, <1>7
  <2>2. PICK u : u = Buddy!Put(y, n, v) OBVIOUS
  <2>3. u \in TurnSets BY <2>2, PutKnown
  <2>4. /\ DOMAIN u = DOMAIN y \cup {n}
        /\ \A m \in DOMAIN y \cup {n} : u[m] = IF m = n THEN v ELSE y[m]
    BY <2>2 DEF Buddy!Put
  <2> QED BY <2>1, <2>2, <2>3, <2>4
<1>10. /\ \A t \in Tasks : shown'[t] = IF t = e.task THEN s ELSE shown[t]
       /\ \A t \in Tasks : stored'[t] = IF t = e.task THEN u ELSE stored[t]
       /\ shown' \in [Tasks -> TurnSets] /\ stored' \in [Tasks -> TurnSets]
  BY <1>3, <1>6, <1>8, <1>9 DEF BuddyTyped
<1>11. /\ events' \in Seq(Report) /\ DOMAIN events \subseteq Nat
       /\ \A i \in DOMAIN events' : i \in Nat /\ i >= 1 /\ i + 1 \in DOMAIN events
                                    /\ events'[i] = events[i + 1]
       /\ \A i \in DOMAIN events : i = 1 \/ i - 1 \in DOMAIN events'
  BY <1>1, Taken DEF BuddyTyped
<1>12. BuddyTyped' BY <1>1, <1>6, <1>10, <1>11 DEF BuddyTyped
<1>13. \A i \in DOMAIN events' : Ending(i)' => Ending(i + 1) /\ events[i + 1].task # e.task
  <2> SUFFICES ASSUME NEW i \in DOMAIN events', Ending(i)'
               PROVE  Ending(i + 1) /\ events[i + 1].task # e.task
    OBVIOUS
  <2>1. Ending(i + 1) /\ i + 1 \in DOMAIN events BY <1>11 DEF Ending
  <2>2. i + 1 # 1 BY <1>11
  <2> QED BY <1>2, <1>4, <2>1, <2>2 DEF OneDelegate
<1>14. \A j \in host : j.task # e.task BY <1>2, <1>4 DEF OneDelegate
<1>15. \A t \in Tasks : \A n \in Nat : Live(t, n)' => Live(t, n) /\ t # e.task
  <2> SUFFICES ASSUME NEW t \in Tasks, NEW n \in Nat, Live(t, n)' PROVE Live(t, n) /\ t # e.task
    OBVIOUS
  <2>1. CASE [task |-> t, turn |-> n] \in host BY <1>14, <2>1 DEF Live
  <2>2. CASE [task |-> t, turn |-> n] \notin host
    <3>1. PICK i \in DOMAIN events' : Ending(i)' /\ events'[i].task = t /\ events'[i].turn = n
      BY <1>1, <2>2 DEF Live
    <3> QED BY <1>11, <1>13, <3>1 DEF Live
  <2> QED BY <2>1, <2>2
<1>16. \A t \in Tasks : \A n \in Nat : Live(t, n) /\ (t # e.task \/ n # e.turn) => Live(t, n)'
  <2> SUFFICES ASSUME NEW t \in Tasks, NEW n \in Nat, Live(t, n), t # e.task \/ n # e.turn
               PROVE  Live(t, n)'
    OBVIOUS
  <2>1. CASE [task |-> t, turn |-> n] \in host BY <1>1, <2>1 DEF Live
  <2>2. CASE [task |-> t, turn |-> n] \notin host
    <3>1. PICK i \in DOMAIN events : Ending(i) /\ events[i].task = t /\ events[i].turn = n
      BY <2>2 DEF Live
    <3>2. i # 1 BY <1>2, <3>1
    <3>3. i - 1 \in DOMAIN events' /\ (i - 1) + 1 = i BY <1>11, <3>2
    <3>4. events'[i - 1] = events[i] BY <1>11, <3>3
    <3> QED BY <3>1, <3>3, <3>4 DEF Ending, Live
  <2> QED BY <2>1, <2>2
<1>17. OneDelegate'
  <2>1. \A i, k \in DOMAIN events' : Ending(i)' /\ Ending(k)' /\ events'[i].task = events'[k].task
          => i = k
    <3> SUFFICES ASSUME NEW i \in DOMAIN events', NEW k \in DOMAIN events', Ending(i)', Ending(k)',
                        events'[i].task = events'[k].task
                 PROVE  i = k
      OBVIOUS
    <3>1. i + 1 = k + 1 BY <1>11, <1>13 DEF OneDelegate
    <3> QED BY <1>11, <3>1
  <2>2. \A j \in host' : \A i \in DOMAIN events' : Ending(i)' => events'[i].task # j.task
    BY <1>1, <1>11, <1>13 DEF OneDelegate
  <2> QED BY <1>1, <2>1, <2>2 DEF OneDelegate
<1>18. Awaited' BY <1>1, <1>6, <1>10, <1>15 DEF Awaited
<1>19. Working'
  <2>1. "inProgress" # e.kind BY <1>2
  <2>2. \A t \in Tasks : \A n \in Nat :
          n \in DOMAIN shown'[t] /\ shown'[t][n] = "inProgress" => Live(t, n)'
    BY <1>8, <1>10, <1>16, <2>1 DEF Working
  <2>3. \A t \in Tasks : \A n \in Nat :
          n \in DOMAIN stored'[t] /\ stored'[t][n] = "inProgress" => Live(t, n)'
    BY <1>9, <1>10, <1>16, <2>1 DEF Working
  <2> QED BY <2>2, <2>3 DEF Working
<1> QED BY <1>12, <1>17, <1>18, <1>19

LEMMA OpenTaskSafe == ASSUME BuddyInv, Buddy!OpenTask PROVE BuddyInv'
<1> USE DEF BuddyInv
<1>1. PICK t \in listed :
        /\ active' = t
        /\ shown' = [Buddy!ActivateThread(t) EXCEPT ![t] = Buddy!Merge(@, stored[t])]
        /\ UNCHANGED <<listed, external, progress, stored, host, events, started>>
  BY DEF Buddy!OpenTask
<1>2. t \in Tasks BY DEF BuddyTyped
<1>3. PICK rest \in [Tasks -> TurnSets] :
        /\ rest = Buddy!ActivateThread(t)
        /\ \A u \in Tasks : rest[u] = IF u = t \/ u \in external THEN shown[u] ELSE Buddy!NoTurns
  <2>1. PICK rest : rest = Buddy!ActivateThread(t) OBVIOUS
  <2>2. rest = [u \in Tasks |-> IF u = t \/ u \in external THEN shown[u] ELSE Buddy!NoTurns]
    BY <2>1 DEF Buddy!ActivateThread
  <2>3. rest \in [Tasks -> TurnSets] BY <2>2, NoTurnsKnown DEF BuddyTyped
  <2> QED BY <2>1, <2>2, <2>3
<1>4. PICK x \in TurnSets, y \in TurnSets : x = shown[t] /\ y = stored[t] /\ rest[t] = x
  BY <1>2, <1>3 DEF BuddyTyped
<1>5. PICK s : s = Buddy!Merge(x, y) OBVIOUS
<1>6. /\ s \in TurnSets /\ DOMAIN s = DOMAIN shown[t] \cup DOMAIN stored[t]
      /\ \A n \in DOMAIN s : (n \in DOMAIN shown[t] /\ s[n] = shown[t][n])
                             \/ (n \in DOMAIN stored[t] /\ s[n] = stored[t][n])
  <2>1. s \in TurnSets BY <1>5, MergeKnown
  <2>2. /\ DOMAIN s = DOMAIN x \cup DOMAIN y
        /\ \A n \in DOMAIN x \cup DOMAIN y :
             (n \in DOMAIN x /\ s[n] = x[n]) \/ (n \in DOMAIN y /\ s[n] = y[n])
    BY <1>5 DEF Buddy!Merge
  <2> QED BY <1>4, <2>1, <2>2
<1>7. shown' = [rest EXCEPT ![t] = s] BY <1>1, <1>3, <1>4, <1>5
<1>8. /\ shown' \in [Tasks -> TurnSets]
      /\ \A u \in Tasks : shown'[u] = IF u = t THEN s ELSE rest[u]
  BY <1>2, <1>6, <1>7
<1>9. BuddyTyped' BY <1>1, <1>2, <1>8 DEF BuddyTyped
<1>10. \A u \in Tasks : \A n \in Nat : Live(u, n) =>
         u \in listed' \cap external' /\ n \in DOMAIN shown'[u] \cap DOMAIN stored'[u]
  BY <1>1, <1>3, <1>6, <1>8 DEF Awaited
<1>11. \A u \in Tasks : \A n \in Nat :
         /\ n \in DOMAIN shown'[u] /\ shown'[u][n] = "inProgress" => Live(u, n)
         /\ n \in DOMAIN stored'[u] /\ stored'[u][n] = "inProgress" => Live(u, n)
  <2> SUFFICES ASSUME NEW u \in Tasks, NEW n \in Nat, n \in DOMAIN shown'[u],
                      shown'[u][n] = "inProgress"
               PROVE  Live(u, n)
    BY <1>1 DEF Working
  <2>1. CASE u = t BY <1>6, <1>8, <2>1 DEF Working
  <2>2. CASE u # t
    <3>1. rest[u] = shown[u] BY <1>3, <1>8, <2>2, NoTurnsKnown
    <3> QED BY <1>8, <2>2, <3>1 DEF Working
  <2> QED BY <2>1, <2>2
<1> QED BY <1>1, <1>9, <1>10, <1>11, SameQueue

LEMMA SetThreadsSafe == ASSUME BuddyInv, Buddy!SetThreads PROVE BuddyInv'
<1> USE DEF BuddyInv
<1>0. PICK rest : rest = [t \in Tasks |-> IF t = active THEN shown[t] ELSE Buddy!NoTurns] OBVIOUS
<1>1. PICK S \in SUBSET Tasks :
        /\ shown' = [t \in Tasks |-> Buddy!Merge(rest[t], stored[t])]
        /\ listed' = S \cup (IF active \in listed THEN {active} ELSE {})
                       \cup {t \in Tasks : stored[t] # Buddy!NoTurns}
        /\ UNCHANGED <<active, external, progress, stored, host, events, started>>
  BY <1>0 DEF Buddy!SetThreads
<1>2. \A t \in Tasks : rest[t] \in TurnSets /\ stored[t] \in TurnSets
  BY <1>0, NoTurnsKnown DEF BuddyTyped
<1>3. ASSUME NEW t \in Tasks
      PROVE  /\ shown'[t] \in TurnSets /\ DOMAIN shown'[t] = DOMAIN rest[t] \cup DOMAIN stored[t]
             /\ \A n \in DOMAIN rest[t] \cup DOMAIN stored[t] :
                  \/ n \in DOMAIN rest[t] /\ shown'[t][n] = rest[t][n]
                  \/ n \in DOMAIN stored[t] /\ shown'[t][n] = stored[t][n]
  <2>1. PICK x \in TurnSets, y \in TurnSets : x = rest[t] /\ y = stored[t] BY <1>2
  <2>2. PICK s : s = Buddy!Merge(x, y) OBVIOUS
  <2>3. s \in TurnSets BY <2>2, MergeKnown
  <2>4. /\ DOMAIN s = DOMAIN x \cup DOMAIN y
        /\ \A n \in DOMAIN x \cup DOMAIN y :
             (n \in DOMAIN x /\ s[n] = x[n]) \/ (n \in DOMAIN y /\ s[n] = y[n])
    BY <2>2 DEF Buddy!Merge
  <2>5. shown'[t] = s BY <1>1, <2>1, <2>2
  <2> QED BY <2>1, <2>3, <2>4, <2>5
<1>4. shown' \in [Tasks -> TurnSets]
  <2>1. shown' = [t \in Tasks |-> shown'[t]] BY <1>1
  <2> QED BY <1>3, <2>1
<1>5. BuddyTyped' BY <1>1, <1>4 DEF BuddyTyped
<1>6. \A t \in Tasks : \A n \in Nat : Live(t, n) =>
        t \in listed' \cap external' /\ n \in DOMAIN shown'[t] \cap DOMAIN stored'[t]
  <2> SUFFICES ASSUME NEW t \in Tasks, NEW n \in Nat, Live(t, n)
               PROVE  t \in listed' \cap external' /\ n \in DOMAIN shown'[t] \cap DOMAIN stored'[t]
    OBVIOUS
  <2>1. t \in external /\ n \in DOMAIN stored[t] BY DEF Awaited
  <2>2. stored[t] # Buddy!NoTurns BY <2>1, NoTurnsKnown
  <2> QED BY <1>1, <1>3, <2>1, <2>2
<1>7. \A t \in Tasks : \A n \in Nat :
        /\ n \in DOMAIN shown'[t] /\ shown'[t][n] = "inProgress" => Live(t, n)
        /\ n \in DOMAIN stored'[t] /\ stored'[t][n] = "inProgress" => Live(t, n)
  <2> SUFFICES ASSUME NEW t \in Tasks, NEW n \in Nat, n \in DOMAIN shown'[t],
                      shown'[t][n] = "inProgress"
               PROVE  Live(t, n)
    BY <1>1 DEF Working
  <2>1. CASE n \in DOMAIN stored[t] /\ shown'[t][n] = stored[t][n] BY <2>1 DEF Working
  <2>2. CASE n \in DOMAIN rest[t] /\ shown'[t][n] = rest[t][n]
    <3>1. rest[t] = shown[t] BY <1>0, <2>2, NoTurnsKnown
    <3> QED BY <2>2, <3>1 DEF Working
  <2> QED BY <1>3, <2>1, <2>2
<1> QED BY <1>1, <1>5, <1>6, <1>7, SameQueue

LEMMA BuddySteps == ASSUME BuddyInv, [Buddy!Next]_Buddy!vars PROVE BuddyInv'
<1>1. CASE UNCHANGED <<shown, listed, external, progress, stored, host, events, started>>
           /\ active' \in {active, NoTask}
  <2>1. BuddyTyped' BY <1>1 DEF BuddyInv, BuddyTyped
  <2>2. \A t \in Tasks : \A n \in Nat : Live(t, n) =>
          t \in listed' \cap external' /\ n \in DOMAIN shown'[t] \cap DOMAIN stored'[t]
    BY <1>1 DEF BuddyInv, Awaited
  <2>3. \A t \in Tasks : \A n \in Nat :
          /\ n \in DOMAIN shown'[t] /\ shown'[t][n] = "inProgress" => Live(t, n)
          /\ n \in DOMAIN stored'[t] /\ stored'[t][n] = "inProgress" => Live(t, n)
    BY <1>1 DEF BuddyInv, Working
  <2> QED BY <1>1, <2>1, <2>2, <2>3, SameQueue
<1>2. CASE Buddy!NewTask BY <1>1, <1>2 DEF Buddy!NewTask
<1>3. CASE Buddy!PollRolloutActivity
  <2>1. /\ host = {} /\ events = <<>> /\ external' \subseteq Tasks
        /\ UNCHANGED <<active, shown, listed, progress, stored, host, events, started>>
    BY <1>3 DEF Buddy!PollRolloutActivity
  <2>2. \A t, n : ~Live(t, n) BY <2>1 DEF Live
  <2>3. BuddyTyped' BY <2>1 DEF BuddyInv, BuddyTyped
  <2>4. \A t \in Tasks : \A n \in Nat :
          /\ n \in DOMAIN shown'[t] /\ shown'[t][n] = "inProgress" => Live(t, n)
          /\ n \in DOMAIN stored'[t] /\ stored'[t][n] = "inProgress" => Live(t, n)
    BY <2>1 DEF BuddyInv, Working
  <2> QED BY <2>1, <2>2, <2>3, <2>4, SameQueue
<1> QED
  BY <1>1, <1>2, <1>3, StartBuddySafe, ReportSafe, ProgressSafe, FinishSafe, OpenTaskSafe,
     SetThreadsSafe
  DEF Buddy!Next, Buddy!vars

\* Unless a snapshot of the rollout monitor or another message comes while a
\* Buddy works, its answer reaches the disk, whatever task is opened and
\* however the task list is refreshed meanwhile: "Keep that turn alive"
\* (model.rs:469).
THEOREM AnswersKept == Buddy!Spec => []NoAnswerLost
<1>1. Buddy!Init => BuddyInv
  <2> SUFFICES ASSUME Buddy!Init PROVE BuddyInv OBVIOUS
  <2>1. PICK empty \in Seq(Report) : empty = <<>> BY EmptySeq
  <2>2. BuddyTyped BY <2>1, NoTurnsKnown DEF Buddy!Init, BuddyTyped
  <2>3. DOMAIN events = {} /\ host = {} BY DEF Buddy!Init
  <2>4. \A t, n : ~Live(t, n) BY <2>3 DEF Live
  <2>5. \A t \in Tasks : DOMAIN shown[t] = {} /\ DOMAIN stored[t] = {}
    BY NoTurnsKnown DEF Buddy!Init
  <2> QED BY <2>2, <2>3, <2>4, <2>5 DEF BuddyInv, OneDelegate, Awaited, Working
<1>2. BuddyInv => NoAnswerLost
  <2> SUFFICES ASSUME BuddyInv, NEW t \in Tasks, NEW n \in DOMAIN stored[t],
                      stored[t][n] = "inProgress"
               PROVE  \E j \in Buddy!At(t) : j.turn = n
    BY DEF NoAnswerLost, Buddy!NoAnswerLost
  <2>1. n \in Nat
    <3>1. stored[t] \in TurnSets BY DEF BuddyInv, BuddyTyped
    <3> QED BY <3>1, TurnSetKnown
  <2>2. Live(t, n) BY <2>1 DEF BuddyInv, Working
  <2>3. CASE [task |-> t, turn |-> n] \in host
    <3>1. PICK j \in host : j.task = t /\ j.turn = n BY <2>3
    <3> QED BY <3>1 DEF Buddy!At
  <2>4. CASE \E i \in DOMAIN events : events[i].task = t /\ events[i].turn = n
    BY <2>4 DEF Buddy!At
  <2> QED BY <2>2, <2>3, <2>4 DEF Live
<1> QED BY <1>1, <1>2, BuddySteps, PTL DEF Buddy!Spec

---------------------------------------------------------------------------
(* The one-time reset implements OneCredit, for any accounts, any number   *)
(* of credits, requests, outages, restarts and switches.                   *)

Outcomes ==
    {None, "pending", "reset", "failed", "alreadyRedeemed", "noCredit", "nothingToReset"}
Guard == [armed : BOOLEAN, key : Nat, outcome : Outcomes]
Call == [n : Nat, key : Nat, auto : BOOLEAN, account : Accounts, live : BOOLEAN, outcome : Outcomes]

\* What the argument needs of the types.
ResetTyped ==
    /\ guard \in Guard
    /\ account \in Accounts /\ strayed \in BOOLEAN
    /\ calls \in SUBSET Call
    /\ sends \in Nat /\ nextKey \in Nat \ {0}
    /\ redeemed \in [Accounts -> SUBSET Nat]
    /\ spent \in [Accounts -> {0, 1}]

\* Every request of the guard bears its key, and so does every credit spent
\* for it.
OneKey ==
    /\ \A c \in calls : c.auto => c.key = guard.key /\ guard.key # 0
    /\ \A a \in Accounts : spent[a] = 1 => guard.key \in redeemed[a] /\ guard.key # 0

\* A guard that waits has not asked for anything.
FreshKeys == guard.armed /\ guard.outcome # "pending" => guard.key = 0

\* Until the window leaves an account while the guard is pending, the guard
\* asks for, and spends, the credit of one account.
AtHome ==
    strayed \/ \E h \in Accounts :
      /\ \A c \in calls : c.auto => c.account = h
      /\ \A a \in Accounts : spent[a] = 1 => a = h
      /\ Pending => account = h

ResetInv == ResetTyped /\ OneKey /\ FreshKeys /\ AtHome

Authorized == guard.armed \/ Outstanding

\* What a step that spends nothing does to the promise: it keeps it or
\* settles it.
Unspent == spent' = spent /\ strayed' = strayed /\ (Authorized' => Authorized)

\* Initially nothing is asked for and nothing is spent.
LEMMA InitResetInv == Init => ResetInv /\ Promise!Init
<1> SUFFICES ASSUME Init PROVE ResetInv /\ Promise!Init OBVIOUS
<1>1. ResetTyped /\ OneKey /\ FreshKeys
  <2>1. PICK armed \in BOOLEAN : guard = [armed |-> armed, key |-> 0, outcome |-> None] BY DEF Init
  <2>2. guard \in Guard /\ guard.key = 0 BY <2>1 DEF Guard, Outcomes
  <2>3. calls = {} /\ spent = [a \in Accounts |-> 0] /\ redeemed = [a \in Accounts |-> {}]
    BY DEF Init
  <2>4. calls \in SUBSET Call /\ redeemed \in [Accounts -> SUBSET Nat] /\ spent \in [Accounts -> {0, 1}]
    BY <2>3
  <2>5. account \in Accounts /\ strayed = FALSE /\ sends = 0 /\ nextKey = 1
    BY DEF Init
  <2>6. ResetTyped
    <3>1. strayed \in BOOLEAN BY <2>5
    <3>2. sends \in Nat /\ nextKey \in Nat \ {0} BY <2>5
    <3> QED BY <2>2, <2>4, <2>5, <3>1, <3>2 DEF ResetTyped
  <2> QED BY <2>2, <2>3, <2>6 DEF OneKey, FreshKeys
<1>2. AtHome
  <2>1. PICK h \in Accounts : h = account BY DEF Init
  <2>2. calls = {} /\ \A a \in Accounts : spent[a] # 1 BY DEF Init
  <2> QED BY <2>1, <2>2 DEF AtHome
<1>3. Promise!Init
  BY DEF Init, Promise!Init, Outstanding
<1> QED BY <1>1, <1>2, <1>3 DEF ResetInv

\* A step that leaves the guard, the service's record and the number of keys
\* alone, and adds no request, keeps the invariant and spends nothing.
LEMMA FewerCalls ==
    ASSUME ResetInv, UNCHANGED <<guard, nextKey, sends, redeemed, spent, strayed>>,
           account' \in Accounts, Pending => account' = account, calls' \in SUBSET Call,
           \A d \in calls' : \E c \in calls :
             /\ d.key = c.key /\ d.auto = c.auto /\ d.account = c.account
             /\ d.outcome = None => c.outcome = None
    PROVE  ResetInv' /\ Unspent
<1>1. ResetTyped'
  BY DEF ResetInv, ResetTyped
<1>2. OneKey'
  BY DEF ResetInv, OneKey
<1>3. Unspent
  BY DEF Unspent, Authorized, Outstanding
<1>4. FreshKeys' /\ Pending' = Pending
  BY DEF ResetInv, FreshKeys, Pending
<1>5. AtHome'
  BY <1>4 DEF ResetInv, AtHome
<1> QED
  BY <1>1, <1>2, <1>3, <1>4, <1>5 DEF ResetInv

\* A request sent for the user is none of the guard's.
LEMMA UserCall ==
    ASSUME ResetInv, Send(nextKey, FALSE), nextKey' = nextKey + 1,
           UNCHANGED <<guard, redeemed, spent, account, strayed>>
    PROVE  ResetInv' /\ Unspent
<1> DEFINE new == [n |-> sends, key |-> nextKey, auto |-> FALSE, account |-> account,
                   live |-> TRUE, outcome |-> None]
<1>1. calls' = calls \union {new} /\ sends' = sends + 1
  BY DEF Send
<1>2. new \in Call
  BY DEF ResetInv, ResetTyped, Call, Outcomes
<1>3. ~new.auto
  OBVIOUS
<1> HIDE DEF new
<1>4. calls' \in SUBSET Call /\ sends' \in Nat /\ nextKey' \in Nat \ {0}
  BY <1>1, <1>2 DEF ResetInv, ResetTyped
<1>5. ResetTyped'
  BY <1>4 DEF ResetInv, ResetTyped
<1>6. OneKey'
  BY <1>1, <1>3 DEF ResetInv, OneKey
<1>7. Unspent
  BY <1>1, <1>3 DEF Unspent, Authorized, Outstanding
<1>8. FreshKeys' /\ Pending' = Pending
  BY DEF ResetInv, FreshKeys, Pending
<1>9. AtHome'
  BY <1>1, <1>3, <1>8 DEF ResetInv, AtHome
<1> QED
  BY <1>5, <1>6, <1>7, <1>8, <1>9 DEF ResetInv

\* The guard asks while it is armed, always under one key.
LEMMA GuardCall ==
    ASSUME ResetInv, NEW said, maybe_consume_one_time_reset(said),
           UNCHANGED <<redeemed, spent, account, strayed>>
    PROVE  ResetInv' /\ Unspent
<1>1. CASE ~inFlight /\ one_time_reset_decision(said)
  <2> DEFINE new == [n |-> sends, key |-> GuardKey, auto |-> TRUE, account |-> account,
                     live |-> TRUE, outcome |-> None]
  <2>1. /\ calls' = calls \union {new} /\ sends' = sends + 1 /\ nextKey' = nextKey + 1
        /\ guard' = [guard EXCEPT !.key = GuardKey, !.outcome = "pending"]
    BY <1>1 DEF maybe_consume_one_time_reset, Send
  <2>2. GuardKey \in Nat /\ GuardKey # 0 /\ (guard.key # 0 => GuardKey = guard.key)
    BY DEF GuardKey, ResetInv, ResetTyped, Guard
  <2>3. /\ guard' \in Guard /\ guard'.key = GuardKey /\ guard'.armed = guard.armed
        /\ guard'.outcome = "pending"
    BY <2>1, <2>2 DEF ResetInv, ResetTyped, Guard, Outcomes
  <2>4. new \in Call
    BY <2>2 DEF ResetInv, ResetTyped, Call, Outcomes
  <2>5. new.key = GuardKey /\ new.account = account
    OBVIOUS
  <2> HIDE DEF new
  <2>6. calls' \in SUBSET Call /\ sends' \in Nat /\ nextKey' \in Nat \ {0}
    BY <2>1, <2>4 DEF ResetInv, ResetTyped
  <2>7. ResetTyped'
    BY <2>3, <2>6 DEF ResetInv, ResetTyped
  <2>8. OneKey'
    BY <2>1, <2>2, <2>3, <2>5 DEF ResetInv, OneKey
  <2>9. Unspent
    BY <1>1 DEF Unspent, Authorized, one_time_reset_decision
  <2>10. FreshKeys'
    BY <2>3 DEF FreshKeys
  <2>11. AtHome'
    <3>1. CASE strayed
      BY <3>1 DEF AtHome
    <3>2. CASE guard.key = 0
      <4>1. (\A c \in calls : ~c.auto) /\ \A a \in Accounts : spent[a] # 1
        BY <3>2 DEF ResetInv, OneKey
      <4>2. account \in Accounts
        BY DEF ResetInv, ResetTyped
      <4> QED
        BY <2>1, <2>5, <4>1, <4>2 DEF AtHome
    <3>3. CASE ~strayed /\ guard.key # 0
      <4>1. Pending
        BY <1>1, <3>3 DEF ResetInv, FreshKeys, Pending, one_time_reset_decision
      <4> QED
        BY <2>1, <2>5, <3>3, <4>1 DEF ResetInv, AtHome
    <3> QED
      BY <3>1, <3>2, <3>3
  <2> QED
    BY <2>7, <2>8, <2>9, <2>10, <2>11 DEF ResetInv
<1>2. CASE ~(~inFlight /\ one_time_reset_decision(said))
  <2>1. UNCHANGED <<guard, calls, nextKey, sends>>
    BY <1>2 DEF maybe_consume_one_time_reset
  <2> QED
    BY <2>1, FewerCalls DEF ResetInv, ResetTyped
<1> QED
  BY <1>1, <1>2

\* An answer disarms the guard at most.
LEMMA AnswerStep ==
    ASSUME ResetInv, OnConsumed
    PROVE  ResetInv' /\ Unspent
<1>1. PICK c \in calls : calls' = calls \ {c} /\ finish_one_time_reset_guard(c.outcome)
  BY DEF OnConsumed
<1>2. UNCHANGED <<redeemed, spent, account, strayed, nextKey, sends>>
  BY DEF OnConsumed, service, link, counts
<1>3. c.outcome \in Outcomes
  BY <1>1 DEF ResetInv, ResetTyped, Call
<1>4. guard' \in Guard /\ guard'.key = guard.key /\ (guard'.armed => guard.armed)
  BY <1>1, <1>3 DEF finish_one_time_reset_guard, ResetInv, ResetTyped, Guard
<1>5. ResetTyped'
  BY <1>1, <1>2, <1>4 DEF ResetInv, ResetTyped
<1>6. OneKey'
  BY <1>1, <1>2, <1>4 DEF ResetInv, OneKey
<1>7. Unspent
  BY <1>1, <1>2, <1>4 DEF Unspent, Authorized, Outstanding
<1>8. FreshKeys' /\ (Pending' => Pending)
  BY <1>1 DEF finish_one_time_reset_guard, ResetInv, FreshKeys, Pending, ResetTyped, Guard
<1>9. AtHome'
  BY <1>1, <1>2, <1>8 DEF ResetInv, AtHome
<1> QED
  BY <1>5, <1>6, <1>7, <1>8, <1>9 DEF ResetInv

\* What the service leaves of a request it carried out is no request of its own.
LEMMA Answering ==
    ASSUME ResetInv, NEW c \in calls, NEW outcome \in Outcomes \ {None}, Answered(c, outcome)
    PROVE  /\ calls' \in SUBSET Call
           /\ \A d \in calls' : \E e \in calls :
                /\ d.key = e.key /\ d.auto = e.auto /\ d.account = e.account
                /\ d.outcome = None => e.outcome = None
<1> DEFINE done == [c EXCEPT !.outcome = outcome]
<1>1. c \in Call
  BY DEF ResetInv, ResetTyped
<1>2. /\ done \in Call /\ done.key = c.key /\ done.auto = c.auto
      /\ done.account = c.account /\ done.outcome = outcome
  BY <1>1 DEF Call
<1>3. calls' \subseteq calls \union {done}
  BY DEF Answered
<1> QED
  BY <1>2, <1>3 DEF ResetInv, ResetTyped

\* A credit spent for the guard is authorized and is its first, or the
\* account's first once another was left.
LEMMA ServeStep ==
    ASSUME ResetInv, Serve
    PROVE  ResetInv' /\ (Unspent \/ \E a \in Accounts : Promise!Spend(a))
<1>1. PICK c \in calls :
        /\ c.outcome = None
        /\ Consume(c) \/ (Answered(c, "failed") /\ UNCHANGED service)
        /\ UNCHANGED <<guard, link, window, counts>>
  BY DEF Serve
<1>2. UNCHANGED <<guard, account, strayed, nextKey, sends>>
  BY <1>1 DEF link, counts
<1>3. Outcome(c) \in Outcomes \ {None} /\ "failed" \in Outcomes \ {None}
  BY DEF Outcome, Outcomes, None
<1>4. CASE UNCHANGED service
  <2>1. Answered(c, Outcome(c)) \/ Answered(c, "failed")
    BY <1>1 DEF Consume
  <2>2. UNCHANGED <<redeemed, spent>>
    BY <1>4 DEF service
  <2> QED
    BY <1>2, <1>3, <2>1, <2>2, Answering, FewerCalls DEF ResetInv, ResetTyped
<1>5. CASE ~UNCHANGED service
  <2> DEFINE a == c.account
  <2>1. /\ Answered(c, Outcome(c)) /\ Outcome(c) = "reset"
        /\ redeemed' = [redeemed EXCEPT ![a] = @ \union {c.key}]
        /\ spent' = IF c.auto THEN [spent EXCEPT ![a] = @ + 1] ELSE spent
    BY <1>1, <1>5 DEF Consume
  <2>2. c \in Call /\ a \in Accounts /\ c.key \in Nat
    BY DEF ResetInv, ResetTyped, Call
  <2>3. c.key \notin redeemed[a]
    BY <2>1 DEF Outcome
  <2>4. /\ calls' \in SUBSET Call
        /\ \A d \in calls' : \E e \in calls :
             /\ d.key = e.key /\ d.auto = e.auto /\ d.account = e.account
             /\ d.outcome = None => e.outcome = None
    BY <1>3, <2>1, Answering
  <2>5. redeemed' \in [Accounts -> SUBSET Nat] /\ \A b \in Accounts : redeemed[b] \subseteq redeemed'[b]
    BY <2>1, <2>2 DEF ResetInv, ResetTyped
  <2>6. c.key \in redeemed'[a]
    BY <2>1, <2>2 DEF ResetInv, ResetTyped
  <2>9. FreshKeys' /\ Pending' = Pending
    BY <1>2 DEF ResetInv, FreshKeys, Pending
  <2>7. CASE c.auto
    <3>1. c.key = guard.key /\ guard.key # 0
      BY <2>7 DEF ResetInv, OneKey
    <3>2. spent[a] = 0
      BY <2>2, <2>3, <3>1 DEF ResetInv, ResetTyped, OneKey
    <3>3. spent' = [spent EXCEPT ![a] = 1]
      BY <2>1, <2>7, <3>2
    <3>4. spent' \in [Accounts -> {0, 1}] /\ \A b \in Accounts : spent'[b] = 1 => spent[b] = 1 \/ b = a
      BY <2>2, <3>3 DEF ResetInv, ResetTyped
    <3>5. ResetTyped'
      BY <1>2, <2>4, <2>5, <3>4 DEF ResetInv, ResetTyped
    <3>6. OneKey'
      BY <1>2, <2>4, <2>5, <2>6, <3>1, <3>4 DEF ResetInv, OneKey
    <3>7. AtHome' /\ (strayed \/ \A b \in Accounts : spent[b] = 0)
      <4>1. CASE strayed
        BY <1>2, <4>1 DEF AtHome
      <4>2. CASE ~strayed
        <5>1. PICK h \in Accounts :
                /\ \A d \in calls : d.auto => d.account = h
                /\ \A b \in Accounts : spent[b] = 1 => b = h
                /\ Pending => account = h
          BY <4>2 DEF ResetInv, AtHome
        <5>2. a = h
          BY <2>7, <5>1
        <5>3. \A b \in Accounts : spent'[b] = 1 => b = h
          BY <3>4, <5>1, <5>2
        <5>4. \A d \in calls' : d.auto => d.account = h
          BY <2>4, <5>1
        <5>5. \A b \in Accounts : spent[b] = 0
          BY <3>2, <5>1, <5>2 DEF ResetInv, ResetTyped
        <5> QED
          BY <1>2, <2>9, <5>1, <5>3, <5>4, <5>5 DEF AtHome
      <4> QED
        BY <4>1, <4>2
    <3>8. Promise!Spend(a)
      BY <1>1, <1>2, <2>7, <3>2, <3>3, <3>7 DEF Promise!Spend, Outstanding
    <3> QED
      BY <2>2, <2>9, <3>5, <3>6, <3>7, <3>8 DEF ResetInv
  <2>8. CASE ~c.auto
    <3>1. spent' = spent
      BY <2>1, <2>8
    <3>2. ResetTyped'
      BY <1>2, <2>4, <2>5, <3>1 DEF ResetInv, ResetTyped
    <3>3. OneKey'
      BY <1>2, <2>4, <2>5, <3>1 DEF ResetInv, OneKey
    <3>4. Unspent
      BY <1>2, <2>4, <3>1 DEF Unspent, Authorized, Outstanding
    <3>5. AtHome'
      BY <1>2, <2>4, <2>9, <3>1 DEF ResetInv, AtHome
    <3> QED
      BY <2>9, <3>2, <3>3, <3>4, <3>5 DEF ResetInv
  <2> QED
    BY <2>7, <2>8
<1> QED
  BY <1>4, <1>5

\* Requests of a lost connection are still the guard's.
LEMMA CutCalls ==
    ASSUME ResetInv, Cut
    PROVE  /\ UNCHANGED <<guard, nextKey, sends, redeemed, spent>>
           /\ calls' \in SUBSET Call
           /\ \A d \in calls' : \E c \in calls :
                /\ d.key = c.key /\ d.auto = c.auto /\ d.account = c.account
                /\ d.outcome = None => c.outcome = None
           /\ Outstanding => Outstanding'
<1>1. UNCHANGED <<guard, nextKey, sends, redeemed, spent>>
  BY DEF Cut, service
<1>2. calls' = {[c EXCEPT !.live = FALSE] : c \in {d \in calls : d.outcome = None}}
  BY DEF Cut
<1>3. \A d \in calls' : \E c \in calls : d = [c EXCEPT !.live = FALSE] /\ c \in Call
  BY <1>2 DEF ResetInv, ResetTyped
<1>4. \A c \in Call :
        LET d == [c EXCEPT !.live = FALSE]
        IN  d \in Call /\ d.key = c.key /\ d.auto = c.auto /\ d.account = c.account /\ d.outcome = c.outcome
  BY DEF Call
<1>5. ASSUME NEW d \in calls'
      PROVE  /\ d \in Call
             /\ \E c \in calls :
                  /\ d.key = c.key /\ d.auto = c.auto /\ d.account = c.account
                  /\ d.outcome = None => c.outcome = None
  <2>1. PICK c \in calls : d = [c EXCEPT !.live = FALSE] /\ c \in Call
    BY <1>3
  <2>2. d \in Call /\ d.key = c.key /\ d.auto = c.auto /\ d.account = c.account /\ d.outcome = c.outcome
    BY <1>4, <2>1
  <2> QED
    BY <2>2
<1>6. ASSUME Outstanding PROVE Outstanding'
  <2>1. PICK c \in calls : c.auto /\ c.outcome = None
    BY <1>6 DEF Outstanding
  <2>2. [c EXCEPT !.live = FALSE] \in calls' /\ c \in Call
    BY <1>2, <2>1 DEF ResetInv, ResetTyped
  <2> QED
    BY <1>4, <2>1, <2>2 DEF Outstanding
<1> QED
  BY <1>1, <1>5, <1>6

\* An outage, a restart, a switch to another account that nothing waits for.
LEMMA CutStep ==
    ASSUME ResetInv, Cut, account' \in Accounts, strayed' = strayed, Pending => account' = account
    PROVE  ResetInv' /\ Unspent
  BY CutCalls, FewerCalls

\* A switch while the guard is pending.
LEMMA LeaveStep ==
    ASSUME ResetInv, Cut, account' \in Accounts, strayed' = TRUE, Pending
    PROVE  ResetInv' /\ Promise!Leave
<1>1. ResetTyped'
  BY CutCalls DEF ResetInv, ResetTyped
<1>2. OneKey'
  BY CutCalls DEF ResetInv, OneKey
<1>3. FreshKeys' /\ AtHome'
  BY CutCalls DEF ResetInv, FreshKeys, AtHome
<1>4. guard.armed /\ guard'.armed
  BY CutCalls DEF Pending
<1>5. Promise!Leave
  BY <1>4, CutCalls DEF Promise!Leave, ResetInv, ResetTyped, Guard
<1> QED
  BY <1>1, <1>2, <1>3, <1>5 DEF ResetInv

\* Every step keeps the invariant, and spends a credit that was promised or
\* spends none.
LEMMA ResetStep ==
    ASSUME ResetInv, [Next]_vars
    PROVE  ResetInv' /\ (Unspent \/ Promise!Leave \/ \E a \in Accounts : Promise!Spend(a))
<1> USE DEF service, link, window, counts
<1>1. CASE refresh_account_rate_limits
  BY <1>1, FewerCalls DEF refresh_account_rate_limits, ResetInv, ResetTyped
<1>2. CASE OnLimits
  BY <1>2, GuardCall DEF OnLimits
<1>3. CASE confirm_use_reset_credit
  BY <1>3, FewerCalls DEF confirm_use_reset_credit, ResetInv, ResetTyped
<1>4. CASE UseCredit
  <2>1. CASE Send(nextKey, FALSE) /\ nextKey' = nextKey + 1
    BY <1>4, <2>1, UserCall DEF UseCredit
  <2>2. CASE UNCHANGED <<calls, sends, inFlight, nextKey>>
    BY <1>4, <2>2, FewerCalls DEF UseCredit, ResetInv, ResetTyped
  <2> QED
    BY <1>4, <2>1, <2>2 DEF UseCredit
<1>5. CASE OnConsumed
  BY <1>5, AnswerStep
<1>6. CASE ReadLimits
  BY <1>6, FewerCalls DEF ReadLimits, ResetInv, ResetTyped
<1>7. CASE Serve
  BY <1>7, ServeStep
<1>8. CASE UseAllowance
  BY <1>8, FewerCalls DEF UseAllowance, ResetInv, ResetTyped
<1>9. CASE Connect
  BY <1>9, FewerCalls DEF Connect, ResetInv, ResetTyped
<1>10. CASE Disconnect \/ Restart
  BY <1>10, CutStep DEF Disconnect, Restart, ResetInv, ResetTyped
<1>11. CASE SwitchProfile
  <2>1. account' \in Accounts /\ Cut /\ strayed' = (strayed \/ Pending)
    BY <1>11 DEF SwitchProfile
  <2>2. CASE Pending
    BY <2>1, <2>2, LeaveStep
  <2>3. CASE ~Pending
    <3>1. strayed' = strayed
      BY <2>1, <2>3 DEF ResetInv, ResetTyped
    <3> QED
      BY <2>1, <2>3, <3>1, CutStep
  <2> QED
    BY <2>2, <2>3
<1>12. CASE UNCHANGED vars
  BY <1>12, FewerCalls DEF vars, ResetInv, ResetTyped
<1> QED
  BY <1>1, <1>2, <1>3, <1>4, <1>5, <1>6, <1>7, <1>8, <1>9, <1>10, <1>11, <1>12 DEF Next

\* A quiet step is a step of the promise, or none.
LEMMA UnspentPromised == ASSUME Unspent PROVE [Promise!Next]_(Promise!vars)
<1>1. CASE Authorized' = Authorized
  BY <1>1 DEF Unspent, Authorized, Promise!vars
<1>2. CASE Authorized' # Authorized
  <2>1. Authorized' = FALSE
    BY <1>2 DEF Unspent, Authorized, Outstanding
  <2> QED
    BY <2>1 DEF Unspent, Authorized, Promise!Next, Promise!Settle
<1> QED
  BY <1>1, <1>2

\* The window keeps the promise of a one-time reset: for any accounts and any
\* losses, repetitions and late answers it spends one credit at most, while it
\* is authorized, unless an account is left while its guard is pending; then
\* one credit of each account at most.
THEOREM PromiseKept == Spec => KeepsPromise
<1>1. Init => ResetInv /\ Promise!Init
  BY InitResetInv
<1>2. ResetInv /\ [Next]_vars => ResetInv' /\ [Promise!Next]_(Promise!vars)
  BY ResetStep, UnspentPromised DEF Promise!Next
<1> QED
  BY <1>1, <1>2, PTL DEF Spec, KeepsPromise, Promise!Spec
=============================================================================
