------------------------ MODULE HistoryRepair_proofs ------------------------
(***************************************************************************)
(* Proofs about the repair of the history projection: whatever Codex, the  *)
(* repairs and their crashes do, and however they interleave, the database *)
(* holds what lies before its cursor.  What a repair has read may be old   *)
(* when it commits; the invariant says why the comparison of the cursor is *)
(* enough: a cursor never comes back to where it was, and while it stays   *)
(* there what was proved of the records behind it stays proved.            *)
(***************************************************************************)
EXTENDS HistoryRepair, FiniteSetTheorems, SequenceTheorems, WellFoundedInduction, TLAPS

---------------------------------------------------------------------------
(* The inductive invariant.                                                *)

Line == [kind : {"turn", "item", "odd", "neutral"}, ord : Nat]
Cursors == [offset : Nat, next : Nat]

Typed ==
    /\ rollout \in Seq(Line)
    /\ cursor \in Cursors /\ cursor.offset <= 2 * Len(rollout)
    /\ DOMAIN plan = Repairers

\* A cursor moves on by its offset, or by its ordinal where it is.
NotAfter(a, b) == a.offset < b.offset \/ (a.offset = b.offset /\ a.next <= b.next)

\* What lies before an offset, and the turns among some lines.
Before(offset) == {i \in DOMAIN rollout : End(i) <= offset /\ rollout[i].kind \in {"turn", "item"}}
Turns(lines) == {i \in lines : rollout[i].kind = "turn"}

\* A plan was made at a cursor of the past.  If the cursor is still there, the
\* plan holds every line up to its end that is behind the cursor and projects
\* to something, and no line before it.
Sound(p) ==
    /\ p.records # {} /\ p.records \subseteq DOMAIN rollout /\ p.end = End(Max(p.records))
    /\ p.at \in Cursors /\ NotAfter(p.at, cursor)
    /\ p.at = cursor =>
         /\ \A i \in p.records : cursor.offset < End(i)
         /\ \A i \in DOMAIN rollout \ p.records :
              cursor.offset < End(i) /\ End(i) <= p.end => is_projection_neutral(i)
Plans == \A r \in Repairers : plan[r] = NoPlan \/ Sound(plan[r])

IInv == Typed /\ Plans /\ ProjectionFaithful

---------------------------------------------------------------------------
(* Sets of lines.                                                          *)

\* A finite set of naturals that is not empty has a greatest element, Max.
LEMMA MaxOfNaturals ==
    ASSUME NEW n \in Nat, NEW U \in SUBSET (1..n), U # {}
    PROVE  Max(U) \in U /\ \A y \in U : y <= Max(U)
<1> DEFINE Bad == {W \in SUBSET (1..n) : W # {} /\ ~ \E x \in W : \A y \in W : x >= y}
<1>1. Bad = {}
  <2> SUFFICES ASSUME Bad # {} PROVE FALSE OBVIOUS
  <2>1. IsFiniteSet(1..n) BY FS_Interval
  <2>2. Bad \subseteq FiniteSubsetsOf(1..n)
    BY <2>1, FS_Subset DEF FiniteSubsetsOf
  <2>3. PICK W \in Bad : \A V \in Bad : <<V, W>> \notin StrictSubsetOrdering(1..n)
    <3>1. IsWellFoundedOn(StrictSubsetOrdering(1..n), FiniteSubsetsOf(1..n))
      BY FS_StrictSubsetOrderingWellFounded
    <3>2. \E W \in Bad : \A V \in Bad : ~(<<V, W>> \in StrictSubsetOrdering(1..n))
      <4> HIDE DEF Bad
      <4> QED BY <2>2, <3>1, WFMin
    <3> QED BY <3>2
  <2>4. PICK a \in W : TRUE OBVIOUS
  <2>5. W \ {a} \notin Bad
    BY <2>3, <2>4 DEF StrictSubsetOrdering
  <2>6. CASE W = {a} BY <2>6
  <2>7. CASE W # {a}
    <3>1. PICK b \in W \ {a} : \A y \in W \ {a} : b >= y
      BY <2>4, <2>5, <2>7
    <3>2. CASE b >= a BY <3>1, <3>2
    <3>3. CASE ~(b >= a)
      <4>1. \A y \in W : a >= y BY <3>1, <3>3
      <4> QED BY <4>1, <2>4
    <3> QED BY <3>2, <3>3
  <2> QED BY <2>6, <2>7
<1>2. \E x \in U : \A y \in U : x >= y BY <1>1
<1>3. Max(U) \in U /\ \A y \in U : Max(U) >= y BY <1>2 DEF Max
<1> QED BY <1>3

\* Lines are read whole, and nothing else is said of them.
LEMMA LineTypes ==
    ASSUME Typed
    PROVE  /\ Len(rollout) \in Nat /\ DOMAIN rollout = 1..Len(rollout)
           /\ \A i \in DOMAIN rollout : i \in Nat /\ i >= 1 /\ rollout[i] \in Line
           /\ cursor.offset \in Nat /\ cursor.next \in Nat
           /\ cursor = [offset |-> cursor.offset, next |-> cursor.next]
<1>1. rollout \in Seq(Line) /\ cursor \in Cursors BY DEF Typed
<1>2. Len(rollout) \in Nat /\ DOMAIN rollout = 1..Len(rollout) /\ \A i \in 1..Len(rollout) : rollout[i] \in Line
  BY <1>1
<1> QED BY <1>1, <1>2 DEF Cursors

\* The status a set of lines leaves behind.
Latest(lines) == IF Turns(lines) = {} THEN 0 ELSE Max(Turns(lines))

\* Projecting lines that all lie behind `old` makes what lies before `new` of
\* what lay before `old`, if no line that counts is left out.
LEMMA Projected ==
    ASSUME Typed, ProjectionFaithful, NEW records \in SUBSET (DOMAIN rollout), Project(records),
           NEW new \in Nat, rollout' = rollout, cursor'.offset = new, cursor.offset <= new,
           \A i \in records : cursor.offset < End(i) /\ (End(i) <= new \/ is_projection_neutral(i)),
           \A i \in DOMAIN rollout \ records :
              cursor.offset < End(i) /\ End(i) <= new => is_projection_neutral(i)
    PROVE  ProjectionFaithful'
<1> DEFINE old == Before(cursor.offset)
           now == Before(new)
<1>1. rows = old /\ status = Latest(old)
  BY DEF ProjectionFaithful, Before, Latest, Turns, Changes
<1>2. now = old \cup Changes(records)
  BY LineTypes DEF Before, Changes, End, is_projection_neutral
<1>3. rows' = now
  BY <1>1, <1>2 DEF Project
<1>4. Turns(now) = Turns(old) \cup Turns(Changes(records))
  BY <1>2 DEF Turns
<1>5. status' = Latest(now)
  <2>1. CASE Turns(Changes(records)) = {}
    BY <1>1, <1>4, <2>1 DEF Project, Latest, Turns
  <2>2. CASE Turns(Changes(records)) # {}
    <3> DEFINE S == Turns(Changes(records))
               T == Turns(now)
    <3>1. S \in SUBSET (1..Len(rollout)) /\ T \in SUBSET (1..Len(rollout)) /\ Len(rollout) \in Nat
      BY LineTypes DEF Turns, Changes, Before
    <3>2. S # {} /\ T # {} BY <2>2, <1>4
    <3>3. Max(S) \in S /\ \A y \in S : y <= Max(S)
      BY <3>1, <3>2, MaxOfNaturals
    <3>4. Max(T) \in T /\ \A y \in T : y <= Max(T)
      BY <3>1, <3>2, MaxOfNaturals
    <3>5. \A y \in Turns(old) : y < Max(S)
      <4>1. Max(S) \in records BY <3>3 DEF Turns, Changes
      <4>2. cursor.offset < 2 * Max(S) BY <4>1 DEF End
      <4>3. ASSUME NEW y \in Turns(old) PROVE y < Max(S)
        <5>1. y \in DOMAIN rollout /\ 2 * y <= cursor.offset BY DEF Turns, Before, End
        <5>2. Max(S) \in Nat /\ y \in Nat /\ cursor.offset \in Nat BY <5>1, <4>1, LineTypes
        <5> HIDE DEF S
        <5> QED BY <5>1, <5>2, <4>2
      <4> QED BY <4>3
    <3>6. Max(T) = Max(S)
      <4>1. Max(S) \in T BY <3>3, <1>4
      <4>2. Max(S) <= Max(T) BY <4>1, <3>4
      <4>3. Max(S) \in Nat /\ Max(T) \in Nat BY <3>1, <3>3, <3>4, LineTypes
      <4>4. CASE Max(T) \in S
        <5>1. Max(T) <= Max(S) BY <4>4, <3>3
        <5> HIDE DEF S, T
        <5> QED BY <5>1, <4>2, <4>3
      <4>5. CASE Max(T) \in Turns(old)
        <5>1. Max(T) < Max(S) BY <4>5, <3>5
        <5> HIDE DEF S, T
        <5> QED BY <5>1, <4>2, <4>3
      <4> QED BY <4>4, <4>5, <1>4, <3>4
    <3>7. status' = Max(S) BY <3>2 DEF Project, Turns
    <3> QED BY <3>2, <3>6, <3>7 DEF Latest
  <2> QED BY <2>1, <2>2
<1>6. rows' = Before(new) /\ status' = Latest(Before(new)) BY <1>3, <1>5
<1> QED BY <1>6 DEF ProjectionFaithful, Before, Latest, Turns, End, Changes

---------------------------------------------------------------------------
(* Plans.                                                                  *)

\* Plans after a step, for plans named before it.
LEMMA PlansNext ==
    ASSUME \A r \in Repairers : \A p : p = plan'[r] /\ p # NoPlan => Sound(p)'
    PROVE  Plans'
BY DEF Plans, NoPlan, Sound, NotAfter, End, is_projection_neutral

\* A cursor that moved on is not where it was, so that nothing is left to say
\* of a plan made before.
LEMMA PlanOutlived ==
    ASSUME Typed, NEW p, Sound(p), rollout' = rollout, cursor' \in Cursors,
           NotAfter(cursor, cursor'), cursor' # cursor
    PROVE  Sound(p)'
<1>1. p.at \in Cursors /\ cursor \in Cursors /\ cursor' \in Cursors BY DEF Typed, Sound
<1>2. NotAfter(p.at, cursor) BY DEF Sound
<1>3. /\ p.at.offset \in Nat /\ p.at.next \in Nat /\ cursor.offset \in Nat /\ cursor.next \in Nat
      /\ cursor'.offset \in Nat /\ cursor'.next \in Nat
  BY <1>1 DEF Cursors
<1>4. NotAfter(p.at, cursor') BY <1>2, <1>3 DEF NotAfter
<1>5. cursor'.offset # cursor.offset \/ cursor'.next # cursor.next BY <1>1 DEF Cursors
<1>6. p.at # cursor' BY <1>2, <1>3, <1>5 DEF NotAfter
<1> QED BY <1>1, <1>4, <1>6 DEF Sound, End

\* A line that is appended lies behind every plan.
LEMMA PlanExtended ==
    ASSUME Typed, NEW p, Sound(p), NEW line \in Line, rollout' = Append(rollout, line),
           UNCHANGED cursor
    PROVE  Sound(p)'
<1> DEFINE n == Len(rollout)
<1>1. rollout \in Seq(Line) BY DEF Typed
<1>2. /\ n \in Nat /\ DOMAIN rollout = 1..n /\ DOMAIN rollout' = 1..(n + 1)
      /\ \A i \in 1..n : rollout'[i] = rollout[i]
  BY <1>1
<1>3. p.records # {} /\ p.records \in SUBSET (1..n) /\ p.end = 2 * Max(p.records)
  BY <1>2 DEF Sound, End
<1>4. Max(p.records) \in 1..n BY <1>2, <1>3, MaxOfNaturals
<1>5. p.end <= 2 * n
  <2> HIDE DEF n
  <2> QED BY <1>2, <1>3, <1>4
<1>6. ASSUME p.at = cursor', NEW i \in DOMAIN rollout' \ p.records,
             cursor'.offset < End(i), End(i) <= p.end
      PROVE  is_projection_neutral(i)'
  <2>1. i \in 1..n
    <3> HIDE DEF n
    <3> QED BY <1>2, <1>4, <1>5, <1>6, <1>3 DEF End
  <2>2. is_projection_neutral(i) BY <1>6, <2>1, <1>2 DEF Sound
  <2> QED BY <2>1, <2>2, <1>2 DEF is_projection_neutral
<1>7. p.records \subseteq DOMAIN rollout' BY <1>2, <1>3
<1>8. Sound(p)' <=>
        /\ p.records # {} /\ p.records \subseteq DOMAIN rollout' /\ p.end = End(Max(p.records))
        /\ p.at \in Cursors /\ NotAfter(p.at, cursor')
        /\ p.at = cursor' =>
             /\ \A i \in p.records : cursor'.offset < End(i)
             /\ \A i \in DOMAIN rollout' \ p.records :
                  cursor'.offset < End(i) /\ End(i) <= p.end => is_projection_neutral(i)'
  BY DEF Sound, NotAfter, End, is_projection_neutral
<1> QED BY <1>6, <1>7, <1>8 DEF Sound

\* What a repair reads makes a sound plan.
LEMMA PlanRead ==
    ASSUME Batch \in Nat, Typed, Records # {}
    PROVE  Sound([at |-> cursor, records |-> Records, end |-> End(Max(Records)),
                  marked |-> marker # 0])
<1> DEFINE m == Max(Records)
<1>1. Len(rollout) \in Nat /\ Records \in SUBSET (1..Len(rollout))
  BY LineTypes DEF Records, ReadLines
<1>2. m \in Records BY <1>1, MaxOfNaturals
<1>3. \A i \in Records : cursor.offset < End(i)
  BY LineTypes DEF Records, ReadLines, End
<1>4. ASSUME NEW i \in DOMAIN rollout \ Records, cursor.offset < End(i), End(i) <= End(m)
      PROVE  is_projection_neutral(i)
  <2>1. i \in ReadLines
    <3>1. m \in Nat /\ i \in Nat /\ cursor.offset \in Nat BY <1>1, <1>2, LineTypes
    <3>2. 2 * m <= cursor.offset + Batch BY <1>2 DEF Records, ReadLines, End
    <3> HIDE DEF m
    <3>3. End(i) <= cursor.offset + Batch BY <3>1, <3>2, <1>4 DEF End
    <3>4. End(i) > cursor.offset BY <3>1, <1>4 DEF End
    <3> QED BY <3>3, <3>4 DEF ReadLines
  <2>2. i \in Redundant BY <2>1 DEF Records
  <2>3. redundant_neutral(i) BY <2>1, <2>2, LineTypes DEF Redundant
  <2> QED BY <2>3 DEF redundant_neutral
<1>5. Records \subseteq DOMAIN rollout BY DEF Records, ReadLines
<1>6. cursor \in Cursors /\ NotAfter(cursor, cursor) BY DEF Typed, Cursors, NotAfter
<1> DEFINE p == [at |-> cursor, records |-> Records, end |-> End(m), marked |-> marker # 0]
<1>7. p.at = cursor /\ p.records = Records /\ p.end = End(m) OBVIOUS
<1> HIDE DEF p
<1>8. Sound(p) BY <1>3, <1>4, <1>5, <1>6, <1>7 DEF Sound
<1> QED BY <1>8 DEF p

---------------------------------------------------------------------------
(* The steps.                                                              *)

LEMMA Initially == Init => IInv
<1> SUFFICES ASSUME Init PROVE IInv OBVIOUS
<1>1. rollout = <<>> /\ cursor = [offset |-> 0, next |-> 0] /\ rows = {} /\ status = 0
      /\ plan = [r \in Repairers |-> NoPlan]
  BY DEF Init
<1>2. Typed BY <1>1 DEF Typed, Cursors
<1>3. Plans BY <1>1 DEF Plans
<1>4. ProjectionFaithful BY <1>1 DEF ProjectionFaithful, Changes
<1> QED BY <1>2, <1>3, <1>4 DEF IInv

LEMMA AppendSafe == IInv /\ AppendRecord => IInv'
<1> SUFFICES ASSUME IInv, AppendRecord PROVE IInv' OBVIOUS
<1> USE DEF IInv
<1> DEFINE n == Len(rollout)
<1>1. PICK kind \in {"turn", "item", "odd", "neutral"}, ord \in 0..n :
         rollout' = Append(rollout, [kind |-> kind, ord |-> ord])
  BY DEF AppendRecord
<1>2. cursor' = cursor /\ rows' = rows /\ status' = status /\ plan' = plan
  BY DEF AppendRecord, RepairSame
<1>3. PICK line : line = [kind |-> kind, ord |-> ord] OBVIOUS
<1>4. n \in Nat /\ rollout \in Seq(Line) BY DEF Typed
<1>5. line \in Line BY <1>3, <1>4 DEF Line
<1>6. rollout' = Append(rollout, line) BY <1>1, <1>3
<1>7. /\ rollout' \in Seq(Line) /\ Len(rollout') = n + 1
      /\ DOMAIN rollout = 1..n /\ DOMAIN rollout' = 1..(n + 1)
      /\ \A i \in 1..n : rollout'[i] = rollout[i]
  BY <1>4, <1>5, <1>6
<1>8. cursor.offset \in Nat /\ cursor.offset <= 2 * n /\ cursor \in Cursors BY DEF Typed, Cursors
<1>9. Typed'
  <2>1. cursor'.offset <= 2 * Len(rollout')
    <3> HIDE DEF n
    <3> QED BY <1>2, <1>4, <1>7, <1>8
  <2> QED BY <2>1, <1>2, <1>7, <1>8 DEF Typed
<1>10. Plans'
  <2> SUFFICES ASSUME NEW r \in Repairers, NEW p, p = plan'[r], p # NoPlan PROVE Sound(p)'
    BY PlansNext
  <2>1. Sound(p) BY <1>2 DEF Plans
  <2> QED BY <2>1, <1>2, <1>5, <1>6, PlanExtended
<1>11. ProjectionFaithful'
  <2>1. Before(cursor.offset)' = Before(cursor.offset)
    <3> SUFFICES \A i : i \in Before(cursor.offset)' <=> i \in Before(cursor.offset) OBVIOUS
    <3> TAKE i
    <3>1. i \in Before(cursor.offset)' <=> i \in 1..(n + 1) /\ 2 * i <= cursor.offset /\ rollout'[i].kind \in {"turn", "item"}
      BY <1>2, <1>7 DEF Before, End
    <3>2. i \in Before(cursor.offset) <=> i \in 1..n /\ 2 * i <= cursor.offset /\ rollout[i].kind \in {"turn", "item"}
      BY <1>7 DEF Before, End
    <3>3. i \in 1..(n + 1) /\ 2 * i <= cursor.offset => i \in 1..n
      <4> HIDE DEF n
      <4> QED BY <1>4, <1>8
    <3>4. i \in 1..n => i \in 1..(n + 1) BY <1>4
    <3> QED BY <3>1, <3>2, <3>3, <3>4, <1>7
  <2>2. \A i \in Before(cursor.offset) : i \in 1..n BY <1>7 DEF Before
  <2>3. Turns(Before(cursor.offset))' = Turns(Before(cursor.offset))
    BY <2>1, <2>2, <1>7 DEF Turns
  <2>4. rows = Before(cursor.offset) /\ status = Latest(Before(cursor.offset))
    BY DEF ProjectionFaithful, Before, Latest, Turns, Changes
  <2>5. rows' = Before(cursor.offset)' /\ status' = Latest(Before(cursor.offset))'
    BY <2>1, <2>3, <2>4, <1>2 DEF Latest
  <2> QED BY <2>5 DEF ProjectionFaithful, Before, Latest, Turns, End, Changes
<1> QED BY <1>9, <1>10, <1>11

\* A step that moves the cursor on keeps the plans it does not make or drop.
LEMMA PlansOutlived ==
    ASSUME Typed, Plans, rollout' = rollout, cursor' \in Cursors, NotAfter(cursor, cursor'),
           cursor' # cursor, \A r \in Repairers : plan'[r] = plan[r] \/ plan'[r] = NoPlan
    PROVE  Plans'
<1> SUFFICES ASSUME NEW r \in Repairers, NEW p, p = plan'[r], p # NoPlan PROVE Sound(p)'
  BY PlansNext
<1>1. Sound(p) BY DEF Plans
<1> QED BY <1>1, PlanOutlived

LEMMA AdvanceSafe == IInv /\ Advance => IInv'
<1> SUFFICES ASSUME IInv, Advance PROVE IInv' OBVIOUS
<1> USE DEF IInv
<1>1. PICK i \in DOMAIN rollout :
         /\ Start(i) = cursor.offset /\ rollout[i].ord = cursor.next
         /\ Project({i})
         /\ \E offset \in Start(i)..End(i), next \in {cursor.next, cursor.next + 1} :
              /\ ~is_projection_neutral(i) => offset = End(i) /\ next = cursor.next + 1
              /\ next = cursor.next => offset = End(i)
              /\ cursor' = [offset |-> offset, next |-> next]
         /\ UNCHANGED <<rollout, schema>> /\ RepairSame
  BY DEF Advance
<1>2. PICK offset \in Start(i)..End(i), next \in {cursor.next, cursor.next + 1} :
         /\ ~is_projection_neutral(i) => offset = End(i) /\ next = cursor.next + 1
         /\ next = cursor.next => offset = End(i)
         /\ cursor' = [offset |-> offset, next |-> next]
  BY <1>1
<1>3. rollout' = rollout /\ plan' = plan BY <1>1 DEF RepairSame
<1>4. /\ i \in Nat /\ i >= 1 /\ i <= Len(rollout) /\ Len(rollout) \in Nat
      /\ cursor.offset \in Nat /\ cursor.next \in Nat /\ cursor \in Cursors
  BY LineTypes DEF Typed
<1>5. cursor.offset = 2 * (i - 1) /\ offset \in (2 * (i - 1))..(2 * i) BY <1>1, <1>2 DEF Start, End
<1>6. /\ offset \in Nat /\ next \in Nat /\ cursor.offset <= offset /\ offset <= 2 * i
      /\ offset <= 2 * Len(rollout)
  BY <1>2, <1>4, <1>5
<1>7. cursor' \in Cursors /\ cursor'.offset = offset /\ cursor'.next = next BY <1>2, <1>6 DEF Cursors
<1>8. NotAfter(cursor, cursor') BY <1>2, <1>4, <1>6, <1>7 DEF NotAfter
<1>9. cursor' # cursor
  <2>1. CASE next = cursor.next
    <3>1. offset = 2 * i BY <1>2, <2>1 DEF End
    <3>2. offset # cursor.offset BY <1>4, <1>5, <3>1
    <3> QED BY <1>7, <3>2
  <2>2. CASE next # cursor.next BY <1>7, <2>2
  <2> QED BY <2>1, <2>2
<1>10. Typed' BY <1>3, <1>6, <1>7 DEF Typed
<1>11. Plans' BY <1>3, <1>7, <1>8, <1>9, PlansOutlived
<1>12. ProjectionFaithful'
  <2>1. \A j \in {i} : cursor.offset < End(j) /\ (End(j) <= offset \/ is_projection_neutral(j))
    BY <1>2, <1>4, <1>5 DEF End
  <2>2. \A j \in DOMAIN rollout \ {i} : ~(cursor.offset < End(j) /\ End(j) <= offset)
    <3> SUFFICES ASSUME NEW j \in DOMAIN rollout, j # i, cursor.offset < End(j), End(j) <= offset
                 PROVE  FALSE
      OBVIOUS
    <3>1. j \in Nat BY LineTypes
    <3>2. 2 * (i - 1) < 2 * j /\ 2 * j <= 2 * i BY <3>1, <1>4, <1>5, <1>6 DEF End
    <3>3. i - 1 < j /\ j <= i BY <3>1, <3>2, <1>4
    <3> QED BY <3>1, <3>3, <1>4
  <2>3. {i} \in SUBSET (DOMAIN rollout) OBVIOUS
  <2>4. Project({i}) BY <1>1
  <2> QED BY <2>1, <2>2, <2>3, <2>4, <1>3, <1>6, <1>7, Projected
<1> QED BY <1>10, <1>11, <1>12

\* A step that touches neither lines nor cursor nor rows.
LEMMA Untouched ==
    ASSUME IInv, UNCHANGED <<rollout, cursor, rows, status>>, DOMAIN plan' = Repairers,
           \A r \in Repairers : \/ plan'[r] = NoPlan
                                \/ plan'[r] = plan[r]
                                \/ Sound(plan'[r])
                                \/ Sound(plan[r]) /\ plan'[r] = [plan[r] EXCEPT !.marked = TRUE]
    PROVE  IInv'
<1>1. Typed' BY DEF IInv, Typed
<1>2. ProjectionFaithful'
  BY DEF IInv, ProjectionFaithful, End, Changes
<1>3. \A p : Sound(p)' <=> Sound(p) BY DEF Sound, NotAfter, End, is_projection_neutral
<1>4. \A p : Sound(p) => Sound([p EXCEPT !.marked = TRUE])
  BY DEF Sound
<1>5. Plans'
  <2> SUFFICES ASSUME NEW r \in Repairers, NEW p, p = plan'[r], p # NoPlan PROVE Sound(p)'
    BY PlansNext
  <2>1. Sound(p) BY <1>4 DEF IInv, Plans
  <2> QED BY <2>1, <1>3
<1> QED BY <1>1, <1>2, <1>5 DEF IInv

LEMMA RepairSafe ==
    ASSUME Batch \in Nat, IInv, NEW r \in Repairers, ReadSuffix(r) \/ WriteMarker(r) \/ Commit(r) \/ Crash(r)
    PROVE  IInv'
<1>0. DOMAIN plan = Repairers BY DEF IInv, Typed
<1>1. CASE ReadSuffix(r)
  <2>1. UNCHANGED <<rollout, cursor, rows, status>> BY <1>1 DEF ReadSuffix
  <2> DEFINE p == [at |-> cursor, records |-> Records, end |-> End(Max(Records)),
                   marked |-> marker # 0]
  <2>2. plan' = [plan EXCEPT ![r] = p] /\ Records # {} BY <1>1 DEF ReadSuffix
  <2>3. Sound(p) BY <2>2, PlanRead DEF IInv
  <2> HIDE DEF p
  <2>4. DOMAIN plan' = Repairers /\ plan'[r] = p /\ \A q \in Repairers \ {r} : plan'[q] = plan[q]
    BY <1>0, <2>2
  <2> QED BY <2>1, <2>3, <2>4, Untouched
<1>2. CASE WriteMarker(r)
  <2>1. UNCHANGED <<rollout, cursor, rows, status>> BY <1>2 DEF WriteMarker
  <2>2. plan' = [plan EXCEPT ![r].marked = TRUE] /\ plan[r] # NoPlan BY <1>2 DEF WriteMarker
  <2>3. Sound(plan[r]) BY <2>2 DEF IInv, Plans
  <2>4. /\ DOMAIN plan' = Repairers /\ plan'[r] = [plan[r] EXCEPT !.marked = TRUE]
        /\ \A q \in Repairers \ {r} : plan'[q] = plan[q]
    BY <1>0, <2>2
  <2> QED BY <2>1, <2>3, <2>4, Untouched
<1>3. CASE Commit(r)
  <2>1. rollout' = rollout /\ plan' = [plan EXCEPT ![r] = NoPlan] BY <1>3 DEF Commit
  <2>2. /\ DOMAIN plan' = Repairers /\ plan'[r] = NoPlan
        /\ \A q \in Repairers \ {r} : plan'[q] = plan[q]
    BY <1>0, <2>1
  <2>3. CASE ~Unmoved(plan[r].at)
    <3>1. UNCHANGED <<cursor, rows, status>> BY <1>3, <2>3 DEF Commit
    <3> QED BY <3>1, <2>1, <2>2, Untouched
  <2>4. CASE Unmoved(plan[r].at)
    <3> DEFINE p == plan[r]
               m == Max(p.records)
    <3>1. p # NoPlan BY <1>3 DEF Commit, NoPlan
    <3>2. Sound(p) BY <3>1 DEF IInv, Plans
    <3>3. /\ Project(p.records)
          /\ cursor' = [offset |-> p.end, next |-> rollout[m].ord + 1]
      BY <1>3, <2>4 DEF Commit
    <3>4. p.at = cursor BY <2>4 DEF Unmoved
    <3>5. /\ p.records # {} /\ p.records \in SUBSET (DOMAIN rollout) /\ p.end = 2 * m
          /\ \A i \in p.records : cursor.offset < End(i)
          /\ \A i \in DOMAIN rollout \ p.records :
               cursor.offset < End(i) /\ End(i) <= p.end => is_projection_neutral(i)
      BY <3>2, <3>4 DEF Sound, End
    <3>6. Typed BY DEF IInv
    <3>7. Len(rollout) \in Nat /\ DOMAIN rollout = 1..Len(rollout) /\ cursor.offset \in Nat
          /\ \A i \in DOMAIN rollout : i \in Nat /\ rollout[i].ord \in Nat
      BY <3>6, LineTypes DEF Line
    <3>8. m \in p.records /\ \A i \in p.records : i <= m BY <3>5, <3>7, MaxOfNaturals
    <3> HIDE DEF p, m
    <3>9. m \in Nat /\ m <= Len(rollout) /\ rollout[m].ord \in Nat BY <3>5, <3>7, <3>8
    <3>10. p.end \in Nat /\ cursor.offset < p.end /\ p.end <= 2 * Len(rollout)
      BY <3>5, <3>7, <3>8, <3>9 DEF End
    <3>11. cursor' \in Cursors /\ cursor'.offset = p.end BY <3>3, <3>9, <3>10 DEF Cursors
    <3>12. NotAfter(cursor, cursor') /\ cursor' # cursor BY <3>7, <3>10, <3>11 DEF NotAfter
    <3>13. Typed' BY <2>1, <2>2, <3>10, <3>11, <3>6 DEF Typed
    <3>14. Plans'
      <4>1. Plans BY DEF IInv
      <4>2. \A q \in Repairers : plan'[q] = plan[q] \/ plan'[q] = NoPlan BY <2>2
      <4> QED BY <4>1, <4>2, <2>1, <3>6, <3>11, <3>12, PlansOutlived
    <3>15. ProjectionFaithful'
      <4>1. ProjectionFaithful BY DEF IInv
      <4>2. \A i \in p.records : cursor.offset < End(i) /\ End(i) <= p.end
        BY <3>5, <3>7, <3>8, <3>9 DEF End
      <4>3. cursor.offset <= p.end BY <3>7, <3>10
      <4>4. PICK records : records = p.records OBVIOUS
      <4>5. PICK new : new = p.end OBVIOUS
      <4>6. /\ records \in SUBSET (DOMAIN rollout) /\ Project(records) /\ new \in Nat
            /\ rollout' = rollout /\ cursor'.offset = new /\ cursor.offset <= new
        BY <4>3, <4>4, <4>5, <2>1, <3>3, <3>5, <3>10, <3>11
      <4>7. \A i \in records : cursor.offset < End(i) /\ (End(i) <= new \/ is_projection_neutral(i))
        BY <4>2, <4>4, <4>5
      <4>8. \A i \in DOMAIN rollout \ records :
              cursor.offset < End(i) /\ End(i) <= new => is_projection_neutral(i)
        BY <3>5, <4>4, <4>5
      <4> QED BY <4>1, <4>6, <4>7, <4>8, <3>6, Projected
    <3> QED BY <3>13, <3>14, <3>15 DEF IInv
  <2> QED BY <2>3, <2>4
<1>4. CASE Crash(r)
  <2>1. UNCHANGED <<rollout, cursor, rows, status>> /\ plan' = [plan EXCEPT ![r] = NoPlan]
    BY <1>4 DEF Crash
  <2>2. DOMAIN plan' = Repairers /\ plan'[r] = NoPlan /\ \A q \in Repairers \ {r} : plan'[q] = plan[q]
    BY <1>0, <2>1
  <2> QED BY <2>1, <2>2, Untouched
<1> QED BY <1>1, <1>2, <1>3, <1>4

---------------------------------------------------------------------------
(* The theorems.                                                           *)

\* What the cursor compared in its transaction protects: IInv is an invariant
\* of the repairs, of Codex and of their crashes, for any batch.
THEOREM Invariance == ASSUME Batch \in Nat PROVE Spec => []IInv
<1>1. ASSUME IInv, [Next]_vars PROVE IInv'
  <2>1. CASE AppendRecord BY <1>1, <2>1, AppendSafe
  <2>2. CASE Advance BY <1>1, <2>2, AdvanceSafe
  <2>3. CASE Upgrade \/ UNCHANGED vars
    <3>1. UNCHANGED <<rollout, cursor, rows, status, plan>>
      BY <2>3 DEF Upgrade, RepairSame, vars
    <3>2. DOMAIN plan' = Repairers BY <1>1, <3>1 DEF IInv, Typed
    <3> QED BY <1>1, <3>1, <3>2, Untouched
  <2>4. CASE \E r \in Repairers : ReadSuffix(r) \/ WriteMarker(r) \/ Commit(r) \/ Crash(r)
    BY <1>1, <2>4, RepairSafe
  <2> QED BY <1>1, <2>1, <2>2, <2>3, <2>4 DEF Next
<1> QED BY <1>1, Initially, PTL DEF Spec

\* The database holds the turns and items before its cursor that a repair can
\* project, all of them and no more, for any number of repairs beside Codex and
\* any batch (history.rs:254).
THEOREM FaithHolds == ASSUME Batch \in Nat PROVE Spec => []ProjectionFaithful
<1>1. IInv => ProjectionFaithful BY DEF IInv
<1> QED BY <1>1, Invariance, PTL

=============================================================================
