--------------------------- MODULE AuditLogProofs ---------------------------
(***************************************************************************)
(* The audit log loses no acknowledged entry and reverses no clock without *)
(* a cause; an index that passes for current is the log, its readers agree *)
(* with those of the log, and a view shows what the log was: whatever      *)
(* number of writers append while whatever rebuilds and views run.         *)
(***************************************************************************)
EXTENDS StateIndex, FiniteSetTheorems, FunctionTheorems, SequenceTheorems, TLAPS

Alone(e) == <<[entry |-> e, whole |-> TRUE]>>

EndOf(f) == f[Len(f)]

\* Alone on a line that has its newline: no writer adds to it any more.
Closed(f, e) == \E i \in 1..(Len(f) - 1) : f[i] = Alone(e)

\* Entries whose line is written and whose newline is not.
Held(p, s) == {p[w] : w \in {o \in Writers : s[o] = "newline"}}

Lost(f, p, s, a) ==
  {e \in a : ~Closed(f, e)} \union {e \in Held(p, s) : ~Readable(f, e)}

\* A fragment nobody will end with a newline waits for the next line.
Torn(f, s) == EndOf(f) # <<>> /\ \A w \in Writers : s[w] # "newline"

Debt(f, s) == IF Torn(f, s) THEN 1 ELSE 0

Files == {f \in Seq(Seq(Fragment)) : Len(f) > 0}

Shape ==
  /\ file \in Files
  /\ step \in [Writers -> {"open", "line", "newline"}]
  /\ pen \in [Writers -> Entry \union {None}]
  /\ \A w \in Writers : step[w] # "open" => pen[w] \in Entry
  /\ begun \in 0..MaxRecords
  /\ aborted \in Nat /\ crossed \in Nat /\ damaged \in Nat

LossInv ==
  /\ IsFiniteSet(Lost(file, pen, step, acked))
  /\ Cardinality(Lost(file, pen, step, acked)) + Debt(file, step)
       <= aborted + 2 * crossed + damaged

---------------------------------------------------------------------------
(* Sets that grow by one *)

LEMMA OneMore ==
  ASSUME NEW S, IsFiniteSet(S), NEW a, NEW T, T \subseteq S \union {a}
  PROVE  IsFiniteSet(T) /\ Cardinality(T) \in Nat /\ Cardinality(T) <= Cardinality(S) + 1
<1>1. IsFiniteSet(S \union {a}) /\ Cardinality(S \union {a}) <= Cardinality(S) + 1
  <2>1. Cardinality(S) \in Nat
    BY FS_CardinalityType
  <2> QED
    BY <2>1, FS_AddElement
<1>2. IsFiniteSet(T) /\ Cardinality(T) <= Cardinality(S \union {a})
  BY <1>1, FS_Subset
<1> QED
  BY <1>1, <1>2, FS_CardinalityType

---------------------------------------------------------------------------
(* What one write does to the file *)

\* A fragment changes the last line only, and is not alone there if it joins others.
LEMMA AtEndDoes ==
  ASSUME NEW f \in Files, NEW x \in Fragment
  PROVE  LET g == AtEnd(f, x) IN
         /\ g \in Files
         /\ Len(g) = Len(f)
         /\ \A i \in 1..(Len(f) - 1) : g[i] = f[i]
         /\ EndOf(g) # <<>>
         /\ EndOf(f) = <<>> => EndOf(g) = <<x>>
         /\ EndOf(f) # <<>> => \A e : EndOf(g) # Alone(e)
<1> DEFINE g == AtEnd(f, x)
<1>1. f \in Seq(Seq(Fragment)) /\ Len(f) \in 1..Len(f) /\ EndOf(f) \in Seq(Fragment)
  BY DEF Files, EndOf
<1>2. g = [f EXCEPT ![Len(f)] = Append(EndOf(f), x)]
  BY DEF AtEnd, EndOf
<1>3. g \in Seq(Seq(Fragment)) /\ Len(g) = Len(f) /\ EndOf(g) = Append(EndOf(f), x)
  BY <1>1, <1>2 DEF EndOf
<1>4. \A i \in 1..(Len(f) - 1) : g[i] = f[i]
  BY <1>1, <1>2
<1>5. Len(EndOf(g)) = Len(EndOf(f)) + 1 /\ Len(EndOf(f)) \in Nat
  BY <1>1, <1>3
<1>6. EndOf(f) # <<>> => Len(EndOf(f)) > 0
  BY <1>1
<1>7. EndOf(f) = <<>> => EndOf(g) = <<x>>
  BY <1>3
<1>8. \A e : Len(Alone(e)) = 1
  BY DEF Alone
<1>9. EndOf(f) # <<>> => \A e : EndOf(g) # Alone(e)
  <2> SUFFICES ASSUME EndOf(f) # <<>>, NEW e, EndOf(g) = Alone(e) PROVE FALSE
    OBVIOUS
  <2>1. Len(EndOf(g)) = 1
    BY <1>8
  <2> QED
    BY <2>1, <1>5, <1>6
<1>10. EndOf(g) # <<>>
  BY <1>5
<1> QED
  BY <1>1, <1>3, <1>4, <1>7, <1>9, <1>10 DEF Files

\* A newline closes the last line.
LEMMA NewlineDoes ==
  ASSUME NEW f \in Files
  PROVE  LET g == Append(f, <<>>) IN
         /\ g \in Files
         /\ EndOf(g) = <<>>
         /\ \A e : Readable(f, e) => Closed(g, e)
<1> DEFINE g == Append(f, <<>>)
<1>1. f \in Seq(Seq(Fragment)) /\ Len(f) > 0 /\ <<>> \in Seq(Fragment)
  BY DEF Files
<1>2. g \in Seq(Seq(Fragment)) /\ Len(g) = Len(f) + 1 /\ EndOf(g) = <<>>
  BY <1>1 DEF EndOf
<1>3. \A i \in 1..Len(f) : g[i] = f[i]
  BY <1>1
<1>4. ASSUME NEW e, Readable(f, e) PROVE Closed(g, e)
  <2>1. PICK i \in 1..Len(f) : f[i] = Alone(e)
    <3>1. DOMAIN f = 1..Len(f)
      BY <1>1
    <3> QED
      BY <3>1, <1>4 DEF Readable, Alone
  <2>2. g[i] = Alone(e) /\ i \in 1..(Len(g) - 1)
    BY <1>1, <1>2, <1>3, <2>1
  <2> QED
    BY <2>2 DEF Closed
<1> QED
  BY <1>1, <1>2, <1>4 DEF Files

\* An entry is readable where it is closed, or alone at the end.
LEMMA ReadableWhere ==
  ASSUME NEW f \in Files, NEW e
  PROVE  Readable(f, e) <=> Closed(f, e) \/ EndOf(f) = Alone(e)
<1>1. f \in Seq(Seq(Fragment)) /\ Len(f) > 0 /\ DOMAIN f = 1..Len(f) /\ Len(f) \in Nat
  BY DEF Files
<1>2. 1..Len(f) = (1..(Len(f) - 1)) \union {Len(f)}
  BY <1>1
<1> QED
  BY <1>1, <1>2 DEF Readable, Closed, EndOf, Alone

LEMMA AloneIsOne == \A a, b : Alone(a) = Alone(b) => a = b
<1> SUFFICES ASSUME NEW a, NEW b, Alone(a) = Alone(b) PROVE a = b
  OBVIOUS
<1>1. Alone(a)[1].entry = a /\ Alone(b)[1].entry = b
  BY DEF Alone
<1> QED
  BY <1>1

\* A damaged entry leaves every other line as it was, and none empty.
LEMMA DamageDoes ==
  ASSUME NEW f \in Files, NEW i \in DOMAIN f, NEW j \in DOMAIN f[i]
  PROVE  LET g == [f EXCEPT ![i][j].entry.signed = FALSE] IN
         /\ g \in Files
         /\ Len(g) = Len(f)
         /\ EndOf(g) = <<>> <=> EndOf(f) = <<>>
         /\ \A k \in DOMAIN f \ {i} : g[k] = f[k]
<1> DEFINE x == [f[i][j] EXCEPT !.entry = [f[i][j].entry EXCEPT !.signed = FALSE]]
           l == [f[i] EXCEPT ![j] = x]
           g == [f EXCEPT ![i][j].entry.signed = FALSE]
<1>1. f \in Seq(Seq(Fragment)) /\ Len(f) > 0 /\ f[i] \in Seq(Fragment) /\ f[i][j] \in Fragment
  BY DEF Files
<1>2. g = [f EXCEPT ![i] = l]
  OBVIOUS
<1>3. x \in Fragment
  BY <1>1 DEF Fragment, Entry
<1> HIDE DEF x
<1>4. l \in Seq(Fragment) /\ Len(l) = Len(f[i]) /\ Len(f[i]) > 0
  BY <1>1, <1>3
<1>5. l # <<>> /\ f[i] # <<>>
  BY <1>4
<1> HIDE DEF l, g
<1>6. g \in Seq(Seq(Fragment)) /\ Len(g) = Len(f)
  BY <1>1, <1>2, <1>4
<1>7. \A k \in DOMAIN f \ {i} : g[k] = f[k]
  BY <1>1, <1>2
<1>8. g[i] = l
  BY <1>1, <1>2
<1>9. EndOf(g) = <<>> <=> EndOf(f) = <<>>
  <2>1. EndOf(g) = g[Len(f)] /\ Len(f) \in DOMAIN f
    BY <1>1, <1>6 DEF EndOf
  <2>2. CASE i = Len(f)
    BY <2>1, <2>2, <1>5, <1>8 DEF EndOf
  <2>3. CASE i # Len(f)
    BY <2>1, <2>3, <1>7 DEF EndOf
  <2> QED
    BY <2>2, <2>3
<1> QED
  BY <1>1, <1>6, <1>7, <1>9 DEF Files, g

---------------------------------------------------------------------------
(* The shape, and the steps of the other parts *)

Beside == UNCHANGED <<file, pen, step, begun, aborted, acked, damaged, crossed>>

\* A step is one of the log, or leaves the log alone.
LEMMA StepsOfTheLog ==
  ASSUME [SNext]_vars
  PROVE  Damage \/ (\E w \in Writers : Writing(w)) \/ Beside
  BY DEF SNext, vars, log, history, Beside

LEMMA InitLoss == SInit => Shape /\ LossInv
<1> SUFFICES ASSUME SInit PROVE Shape /\ LossInv
  OBVIOUS
<1> USE DEF SInit, Init
<1>1. Shape
  <2>1. <<>> \in Seq(Fragment)
    OBVIOUS
  <2>2. file \in Seq(Seq(Fragment)) /\ Len(file) = 1
    BY <2>1
  <2> QED
    BY <2>2, AuditBounds DEF Shape, Files
<1>2. Lost(file, pen, step, acked) = {}
  BY DEF Lost, Held
<1>3. Debt(file, step) = 0
  BY DEF Debt, Torn, EndOf
<1>4. IsFiniteSet({}) /\ Cardinality({}) = 0
  BY FS_EmptySet
<1>5. 0 + 0 <= aborted + 2 * crossed + damaged
  OBVIOUS
<1> QED
  BY <1>1, <1>2, <1>3, <1>4, <1>5 DEF LossInv

\* Every step keeps the shape.
LEMMA NextShape == Shape /\ [SNext]_vars => Shape'
<1> SUFFICES ASSUME Shape, [SNext]_vars PROVE Shape'
  OBVIOUS
<1> USE AuditBounds DEF Shape, Goto
<1>1. ASSUME NEW w \in Writers, Sign(w) PROVE Shape'
  BY <1>1 DEF Sign, Entry, history
<1>2. ASSUME NEW w \in Writers, WriteLine(w) PROVE Shape'
  <2>1. [entry |-> pen[w], whole |-> TRUE] \in Fragment
    BY <1>2 DEF WriteLine, Fragment
  <2>2. file' \in Files
    BY <1>2, <2>1, AtEndDoes DEF WriteLine
  <2> QED
    BY <1>2, <2>2 DEF WriteLine, Count
<1>3. ASSUME NEW w \in Writers, WriteNewline(w) PROVE Shape'
  <2>1. file' \in Files
    BY <1>3, NewlineDoes DEF WriteNewline
  <2> QED
    BY <1>3, <2>1 DEF WriteNewline, history
<1>4. ASSUME NEW w \in Writers, Abort(w) PROVE Shape'
  <2>1. [entry |-> pen[w], whole |-> FALSE] \in Fragment
    BY <1>4 DEF Abort, Fragment
  <2>2. file' \in Files
    BY <1>4, <2>1, AtEndDoes DEF Abort
  <2> QED
    BY <1>4, <2>2 DEF Abort, history
<1>5. ASSUME Damage PROVE Shape'
  <2>1. file' \in Files
    <3>1. PICK i \in DOMAIN file : \E j \in DOMAIN file[i] :
                 file' = [file EXCEPT ![i][j].entry.signed = FALSE]
      BY <1>5 DEF Damage
    <3>2. PICK j \in DOMAIN file[i] : file' = [file EXCEPT ![i][j].entry.signed = FALSE]
      BY <3>1
    <3> QED
      BY <3>2, DamageDoes
  <2> QED
    BY <1>5, <2>1 DEF Damage, history
<1>6. ASSUME Beside PROVE Shape'
  BY <1>6 DEF Beside
<1> QED
  BY <1>1, <1>2, <1>3, <1>4, <1>5, <1>6, StepsOfTheLog DEF Writing

---------------------------------------------------------------------------
(* Every loss has been paid for *)

\* How much a step may lose, by what it adds to the causes.
LEMMA NoneLost ==
  ASSUME Shape, Shape', LossInv,
         Lost(file, pen, step, acked)' \subseteq Lost(file, pen, step, acked),
         Debt(file, step)' + aborted + 2 * crossed + damaged
           <= Debt(file, step) + aborted' + 2 * crossed' + damaged'
  PROVE  LossInv'
<1> DEFINE S == Lost(file, pen, step, acked)
           T == Lost(file, pen, step, acked)'
<1>1. IsFiniteSet(T) /\ Cardinality(T) <= Cardinality(S)
  BY FS_Subset DEF LossInv
<1>2. Cardinality(S) \in Nat /\ Cardinality(T) \in Nat
  BY <1>1, FS_CardinalityType DEF LossInv
<1>3. Debt(file, step) \in Nat /\ Debt(file, step)' \in Nat
  BY DEF Debt
<1> HIDE DEF S, T
<1>4. Cardinality(S) + Debt(file, step) <= aborted + 2 * crossed + damaged
  BY DEF LossInv, S
<1>5. Cardinality(T) + Debt(file, step)' <= aborted' + 2 * crossed' + damaged'
  BY <1>1, <1>2, <1>3, <1>4 DEF Shape
<1> QED
  BY <1>1, <1>5 DEF LossInv, T

LEMMA OneLost ==
  ASSUME Shape, Shape', LossInv, NEW a,
         Lost(file, pen, step, acked)' \subseteq Lost(file, pen, step, acked) \union {a},
         Debt(file, step)' + 1 + aborted + 2 * crossed + damaged
           <= Debt(file, step) + aborted' + 2 * crossed' + damaged'
  PROVE  LossInv'
<1> DEFINE S == Lost(file, pen, step, acked)
           T == Lost(file, pen, step, acked)'
<1>1. IsFiniteSet(T) /\ Cardinality(T) <= Cardinality(S) + 1
  BY OneMore DEF LossInv
<1>2. Cardinality(S) \in Nat /\ Cardinality(T) \in Nat
  BY <1>1, FS_CardinalityType DEF LossInv
<1>3. Debt(file, step) \in Nat /\ Debt(file, step)' \in Nat
  BY DEF Debt
<1> HIDE DEF S, T
<1>4. Cardinality(S) + Debt(file, step) <= aborted + 2 * crossed + damaged
  BY DEF LossInv, S
<1>5. Cardinality(T) + Debt(file, step)' <= aborted' + 2 * crossed' + damaged'
  BY <1>1, <1>2, <1>3, <1>4 DEF Shape
<1> QED
  BY <1>1, <1>5 DEF LossInv, T

LEMMA TwoLost ==
  ASSUME Shape, Shape', LossInv, NEW a, NEW b,
         Lost(file, pen, step, acked)' \subseteq Lost(file, pen, step, acked) \union {a, b},
         Debt(file, step)' + 2 + aborted + 2 * crossed + damaged
           <= Debt(file, step) + aborted' + 2 * crossed' + damaged'
  PROVE  LossInv'
<1> DEFINE S == Lost(file, pen, step, acked)
           T == Lost(file, pen, step, acked)'
           R == S \union {a}
<1>1. IsFiniteSet(R) /\ Cardinality(R) \in Nat /\ Cardinality(R) <= Cardinality(S) + 1
  BY OneMore DEF LossInv
<1>2. T \subseteq R \union {b}
  OBVIOUS
<1>3. IsFiniteSet(T) /\ Cardinality(T) \in Nat /\ Cardinality(T) <= Cardinality(R) + 1
  <2> HIDE DEF T, R
  <2> QED
    BY <1>1, <1>2, OneMore
<1>4. Cardinality(S) \in Nat
  BY FS_CardinalityType DEF LossInv
<1>5. Debt(file, step) \in Nat /\ Debt(file, step)' \in Nat
  BY DEF Debt
<1> HIDE DEF S, T, R
<1>6. Cardinality(S) + Debt(file, step) <= aborted + 2 * crossed + damaged
  BY DEF LossInv, S
<1>7. Cardinality(T) + Debt(file, step)' <= aborted' + 2 * crossed' + damaged'
  BY <1>1, <1>3, <1>4, <1>5, <1>6 DEF Shape
<1> QED
  BY <1>3, <1>7 DEF LossInv, T

\* At most one entry is alone on a line.
LEMMA AtMostOne == \A l : \E b : \A e : l = Alone(e) => e = b
<1> SUFFICES ASSUME NEW l PROVE \E b : \A e : l = Alone(e) => e = b
  OBVIOUS
<1>1. CASE \E b : l = Alone(b)
  BY <1>1, AloneIsOne
<1>2. CASE ~ \E b : l = Alone(b)
  BY <1>2
<1> QED
  BY <1>1, <1>2

\* What is added to the last line closes nothing and opens nothing.
LEMMA AtEndCloses ==
  ASSUME NEW f \in Files, NEW x \in Fragment, NEW e
  PROVE  Closed(AtEnd(f, x), e) <=> Closed(f, e)
<1> DEFINE g == AtEnd(f, x)
<1>1. Len(g) = Len(f) /\ \A i \in 1..(Len(f) - 1) : g[i] = f[i]
  BY AtEndDoes
<1> QED
  BY <1>1 DEF Closed

\* A line put after a line with no newline is the only way to lose two entries.
LEMMA WriteLineLoss ==
  ASSUME Shape, Shape', LossInv, NEW w \in Writers, WriteLine(w)
  PROVE  LossInv'
<1> DEFINE x == [entry |-> pen[w], whole |-> TRUE]
<1>1. x \in Fragment /\ file \in Files /\ file' \in Files
  BY DEF WriteLine, Fragment, Shape
<1>2. /\ file' = AtEnd(file, x) /\ step[w] = "line" /\ step' = [step EXCEPT ![w] = "newline"]
      /\ pen' = pen /\ aborted' = aborted /\ damaged' = damaged /\ acked' = acked
      /\ crossed' = crossed + IF \E o \in Writers \ {w} : step[o] = "newline" THEN 1 ELSE 0
  BY DEF WriteLine, Count, Goto
<1>3. step'[w] = "newline"
  BY <1>2 DEF Shape
<1>4. Debt(file, step)' = 0
  BY <1>3 DEF Debt, Torn
<1>5. Held(pen, step)' = Held(pen, step) \union {pen[w]}
  BY <1>2 DEF Shape, Held
<1>6. \A e : Closed(file', e) <=> Closed(file, e)
  BY <1>1, <1>2, AtEndCloses
<1>7. /\ EndOf(file) = <<>> => EndOf(file') = Alone(pen[w])
      /\ EndOf(file) # <<>> => \A e : EndOf(file') # Alone(e)
  <2>1. Alone(pen[w]) = <<x>>
    BY DEF Alone
  <2> HIDE DEF x
  <2> QED
    BY <1>1, <1>2, <2>1, AtEndDoes
<1>8. \A e : <<>> # Alone(e)
  BY DEF Alone
<1>9. \A e : Readable(file, e) <=> Closed(file, e) \/ EndOf(file) = Alone(e)
  BY <1>1, ReadableWhere
<1>10. \A e : Readable(file', e) <=> Closed(file', e) \/ EndOf(file') = Alone(e)
  BY <1>1, ReadableWhere
<1> HIDE DEF x
<1>11. CASE EndOf(file) = <<>>
  <2>1. Lost(file, pen, step, acked)' \subseteq Lost(file, pen, step, acked)
    BY <1>11, <1>2, <1>5, <1>6, <1>7, <1>8, <1>9, <1>10 DEF Lost
  <2>2. Debt(file, step) \in Nat
    BY DEF Debt
  <2>9. Debt(file, step)' + aborted + 2 * crossed + damaged
            <= Debt(file, step) + aborted' + 2 * crossed' + damaged'
    BY <1>2, <1>4, <2>1, <2>2 DEF Shape
  <2> QED
    BY <2>1, <2>9, NoneLost
<1>12. CASE Torn(file, step)
  <2>1. Held(pen, step) = {}
    BY <1>12 DEF Torn, Held
  <2>2. Lost(file, pen, step, acked)' \subseteq Lost(file, pen, step, acked) \union {pen[w]}
    BY <1>2, <1>5, <1>6, <2>1 DEF Lost
  <2>3. Debt(file, step) = 1
    BY <1>12 DEF Debt
  <2>9. Debt(file, step)' + 1 + aborted + 2 * crossed + damaged
            <= Debt(file, step) + aborted' + 2 * crossed' + damaged'
    BY <1>2, <1>4, <2>2, <2>3 DEF Shape
  <2> QED
    BY <2>2, <2>9, OneLost
<1>13. CASE EndOf(file) # <<>> /\ ~Torn(file, step)
  <2>1. \E o \in Writers \ {w} : step[o] = "newline"
    BY <1>13, <1>2 DEF Torn
  <2>2. crossed' = crossed + 1
    BY <1>2, <2>1
  <2>3. PICK b : \A e : EndOf(file) = Alone(e) => e = b
    BY AtMostOne
  <2>4. Lost(file, pen, step, acked)' \subseteq Lost(file, pen, step, acked) \union {pen[w], b}
    BY <1>2, <1>5, <1>6, <1>9, <1>10, <2>3 DEF Lost
  <2>5. Debt(file, step) = 0
    BY <1>13 DEF Debt
  <2>9. Debt(file, step)' + 2 + aborted + 2 * crossed + damaged
            <= Debt(file, step) + aborted' + 2 * crossed' + damaged'
    BY <1>2, <1>4, <2>2, <2>4, <2>5 DEF Shape
  <2> QED
    BY <2>4, <2>9, TwoLost
<1> QED
  BY <1>11, <1>12, <1>13

\* The newline closes what its line holds, and loses nothing.
LEMMA WriteNewlineLoss ==
  ASSUME Shape, Shape', LossInv, NEW w \in Writers, WriteNewline(w)
  PROVE  LossInv'
<1>1. file \in Files /\ file' \in Files /\ file' = Append(file, <<>>)
  BY DEF Shape, WriteNewline
<1>2. EndOf(file') = <<>> /\ \A e : Readable(file, e) => Closed(file', e)
  BY <1>1, NewlineDoes
<1>3. \A e : Closed(file, e) => Readable(file, e)
  BY <1>1, ReadableWhere
<1>4. \A e : Closed(file', e) => Readable(file', e)
  BY <1>1, ReadableWhere
<1>5. Held(pen, step)' \subseteq Held(pen, step) /\ pen[w] \in Held(pen, step)
  BY DEF Shape, WriteNewline, Held, Goto
<1>6. acked' = acked \union {pen[w]}
  BY DEF WriteNewline
<1>7. Lost(file, pen, step, acked)' \subseteq Lost(file, pen, step, acked)
  BY <1>2, <1>3, <1>4, <1>5, <1>6 DEF Lost
<1>8. Debt(file, step)' = 0 /\ Debt(file, step) \in Nat
  BY <1>2 DEF Debt, Torn
<1>9. Debt(file, step)' + aborted + 2 * crossed + damaged
          <= Debt(file, step) + aborted' + 2 * crossed' + damaged'
  BY <1>8 DEF Shape, WriteNewline, history
<1> QED
  BY <1>7, <1>9, NoneLost

\* An append cut short costs the line it stops in.
LEMMA AbortLoss ==
  ASSUME Shape, Shape', LossInv, NEW w \in Writers, Abort(w)
  PROVE  LossInv'
<1>1. /\ aborted' = aborted + 1 /\ damaged' = damaged /\ crossed' = crossed /\ acked' = acked
      /\ step' = [step EXCEPT ![w] = "open"] /\ pen' = [pen EXCEPT ![w] = None]
  BY DEF Abort, Goto, history
<1>2. Held(pen, step)' \subseteq Held(pen, step)
  BY <1>1 DEF Shape, Held
<1>3. Debt(file, step) \in Nat /\ Debt(file, step)' \in Nat /\ Debt(file, step)' <= 1
  BY DEF Debt
<1>4. ASSUME Lost(file, pen, step, acked)' \subseteq Lost(file, pen, step, acked) PROVE LossInv'
  <2>1. Debt(file, step)' + aborted + 2 * crossed + damaged
          <= Debt(file, step) + aborted' + 2 * crossed' + damaged'
    BY <1>1, <1>3 DEF Shape
  <2> QED
    BY <1>4, <2>1, NoneLost
<1>5. CASE file' = file
  BY <1>1, <1>2, <1>4, <1>5 DEF Lost
<1>6. CASE step[w] = "line" /\ file' = AtEnd(file, [entry |-> pen[w], whole |-> FALSE])
  <2> DEFINE x == [entry |-> pen[w], whole |-> FALSE]
  <2>1. x \in Fragment /\ file \in Files /\ file' \in Files
    BY DEF Abort, Fragment, Shape
  <2>2. \A e : Closed(file', e) <=> Closed(file, e)
    BY <1>6, <2>1, AtEndCloses
  <2>3. \A e : Readable(file, e) <=> Closed(file, e) \/ EndOf(file) = Alone(e)
    BY <2>1, ReadableWhere
  <2>4. \A e : Closed(file', e) => Readable(file', e)
    BY <2>1, ReadableWhere
  <2> HIDE DEF x
  <2>5. CASE EndOf(file) = <<>>
    <3>1. \A e : <<>> # Alone(e)
      BY DEF Alone
    <3>2. Lost(file, pen, step, acked)' \subseteq Lost(file, pen, step, acked)
      BY <1>1, <1>2, <2>2, <2>3, <2>4, <2>5, <3>1 DEF Lost
    <3> QED
      BY <3>2, <1>4
  <2>6. CASE EndOf(file) # <<>>
    <3>1. PICK b : \A e : EndOf(file) = Alone(e) => e = b
      BY AtMostOne
    <3>2. Lost(file, pen, step, acked)' \subseteq Lost(file, pen, step, acked) \union {b}
      BY <1>1, <1>2, <2>2, <2>3, <2>4, <3>1 DEF Lost
    <3>3. Torn(file, step)' => Torn(file, step)
      BY <1>1, <1>6, <2>6 DEF Torn, Shape
    <3>4. Debt(file, step)' <= Debt(file, step)
      BY <3>3 DEF Debt
    <3>9. Debt(file, step)' + 1 + aborted + 2 * crossed + damaged
              <= Debt(file, step) + aborted' + 2 * crossed' + damaged'
      <4>1. aborted \in Nat /\ crossed \in Nat /\ damaged \in Nat
        BY DEF Shape
      <4> QED
        BY <1>1, <1>3, <3>4, <4>1
    <3> QED
      BY <3>2, <3>9, OneLost
  <2> QED
    BY <2>5, <2>6
<1> QED
  BY <1>5, <1>6 DEF Abort

\* A damage costs the entry it changes.
LEMMA DamageLoss ==
  ASSUME Shape, Shape', LossInv, Damage
  PROVE  LossInv'
<1>1. /\ damaged' = damaged + 1 /\ aborted' = aborted /\ crossed' = crossed /\ acked' = acked
      /\ step' = step /\ pen' = pen
  BY DEF Damage, history
<1>2. PICK i \in DOMAIN file : \E j \in DOMAIN file[i] :
             file' = [file EXCEPT ![i][j].entry.signed = FALSE]
  BY DEF Damage
<1>3. PICK j \in DOMAIN file[i] : file' = [file EXCEPT ![i][j].entry.signed = FALSE]
  BY <1>2
<1>4. file \in Files /\ file' \in Files /\ DOMAIN file = 1..Len(file) /\ Len(file) \in Nat
  BY DEF Shape, Files
<1>5. /\ Len(file') = Len(file)
      /\ EndOf(file') = <<>> <=> EndOf(file) = <<>>
      /\ \A k \in DOMAIN file \ {i} : file'[k] = file[k]
  <2> DEFINE g == [file EXCEPT ![i][j].entry.signed = FALSE]
  <2>1. /\ Len(g) = Len(file)
        /\ EndOf(g) = <<>> <=> EndOf(file) = <<>>
        /\ \A k \in DOMAIN file \ {i} : g[k] = file[k]
    <3>1. file \in Files
      BY <1>4
    <3> QED
      BY <3>1, DamageDoes
  <2> HIDE DEF g
  <2>2. file' = g
    BY <1>3 DEF g
  <2> QED
    BY <2>1, <2>2
<1>6. PICK b : \A e : file[i] = Alone(e) => e = b
  BY AtMostOne
<1>7. ASSUME NEW e, e # b, Closed(file, e) PROVE Closed(file', e)
  <2>1. PICK k \in 1..(Len(file) - 1) : file[k] = Alone(e)
    BY <1>7 DEF Closed
  <2>2. k # i /\ k \in DOMAIN file
    BY <2>1, <1>4, <1>6, <1>7
  <2> QED
    BY <2>1, <2>2, <1>5 DEF Closed
<1>8. ASSUME NEW e, e # b, Readable(file, e) PROVE Readable(file', e)
  <2>1. PICK k \in DOMAIN file : file[k] = Alone(e)
    BY <1>8 DEF Readable, Alone
  <2>2. k # i /\ k \in DOMAIN file'
    BY <2>1, <1>4, <1>5, <1>6, <1>8 DEF Files
  <2>3. file'[k] = Alone(e)
    BY <2>1, <2>2, <1>5
  <2> QED
    BY <2>2, <2>3 DEF Readable, Alone
<1>9. Lost(file, pen, step, acked)' \subseteq Lost(file, pen, step, acked) \union {b}
  BY <1>1, <1>7, <1>8 DEF Lost, Held
<1>10. Debt(file, step)' = Debt(file, step) /\ Debt(file, step) \in Nat
  BY <1>1, <1>5 DEF Debt, Torn
<1> QED
  BY <1>1, <1>9, <1>10, OneLost DEF Shape

LEMMA NextLoss == Shape /\ LossInv /\ [SNext]_vars => LossInv'
<1> SUFFICES ASSUME Shape, LossInv, [SNext]_vars PROVE LossInv'
  OBVIOUS
<1>1. Shape'
  BY NextShape
<1>2. ASSUME NEW w \in Writers, Sign(w) PROVE LossInv'
  <2>1. /\ UNCHANGED <<file, aborted, acked, damaged, crossed>>
        /\ step[w] = "open" /\ step' = [step EXCEPT ![w] = "line"]
        /\ \A o \in Writers \ {w} : pen'[o] = pen[o]
    BY <1>2 DEF Sign, Goto, history, Shape
  <2>2. \A o \in Writers : /\ step'[o] = "newline" <=> step[o] = "newline"
                           /\ step[o] = "newline" => pen'[o] = pen[o]
    <3> SUFFICES ASSUME NEW o \in Writers
                 PROVE  /\ step'[o] = "newline" <=> step[o] = "newline"
                        /\ step[o] = "newline" => pen'[o] = pen[o]
      OBVIOUS
    <3>1. CASE o = w
      <4>1. step[o] = "open" /\ step'[o] = "line"
        BY <2>1, <3>1 DEF Shape
      <4> QED
        BY <4>1
    <3>2. CASE o # w
      BY <2>1, <3>2 DEF Shape
    <3> QED
      BY <3>1, <3>2
  <2>3. Held(pen, step)' = Held(pen, step)
    <3>1. {o \in Writers : step'[o] = "newline"} = {o \in Writers : step[o] = "newline"}
      BY <2>2
    <3>2. \A o \in {u \in Writers : step[u] = "newline"} : pen'[o] = pen[o]
      BY <2>2
    <3> QED
      BY <3>1, <3>2 DEF Held
  <2>4. Lost(file, pen, step, acked)' \subseteq Lost(file, pen, step, acked)
    BY <2>1, <2>3 DEF Lost
  <2>5. Debt(file, step)' = Debt(file, step) /\ Debt(file, step) \in Nat
    BY <2>1, <2>2 DEF Debt, Torn
  <2>9. Debt(file, step)' + aborted + 2 * crossed + damaged
            <= Debt(file, step) + aborted' + 2 * crossed' + damaged'
    BY <1>1, <2>1, <2>4, <2>5 DEF Shape
  <2> QED
    BY <1>1, <2>4, <2>9, NoneLost
<1>3. ASSUME Beside PROVE LossInv'
  BY <1>3 DEF Beside, LossInv, Lost, Held, Debt, Torn
<1> QED
  BY <1>1, <1>2, <1>3, StepsOfTheLog, WriteLineLoss, WriteNewlineLoss, AbortLoss, DamageLoss
     DEF Writing

\* LossHasACause: docs/architecture.md, invariant 4.  Whatever writers append,
\* cross, or are killed between the two calls of AuditWriter::append, and
\* whatever is changed in place: of the entries whose append returned Ok an
\* abort loses one, a crossing two, a damage its own, and nothing else any.
THEOREM LossesHaveCauses == SSpec => []LossHasACause
<1>1. Shape /\ LossInv => LossHasACause
  <2> SUFFICES ASSUME Shape, LossInv PROVE LossHasACause
    OBVIOUS
  <2> DEFINE S == Lost(file, pen, step, acked)
             T == {e \in acked : ~Readable(file, e)}
  <2>1. T \subseteq S
    BY ReadableWhere DEF Lost, Shape
  <2>2. Cardinality(T) <= Cardinality(S) /\ Cardinality(T) \in Nat /\ Cardinality(S) \in Nat
    BY <2>1, FS_Subset, FS_CardinalityType DEF LossInv
  <2>3. Debt(file, step) \in Nat
    BY DEF Debt
  <2> QED
    BY <2>2, <2>3 DEF LossInv, LossHasACause, Shape
<1> QED
  BY <1>1, InitLoss, NextShape, NextLoss, PTL DEF SSpec

---------------------------------------------------------------------------
(* Reversed timestamps: what the walk reads after each write *)

\* The lines whose writer overtook another: an older entry has come after it, or
\* is about to.
Ahead(f, p, s) ==
  {i \in Parsed(f) :
     \/ \E k \in Parsed(f) : i < k /\ EntryAt(f, k).id < EntryAt(f, i).id
     \/ \E w \in Writers : s[w] = "line" /\ p[w].id < EntryAt(f, i).id}

TurnInv ==
  /\ overtaken \in Nat
  /\ \A w \in Writers : step[w] = "line" => pen[w].id <= begun
  /\ \A i \in Parsed(file) : EntryAt(file, i).id <= begun
  /\ IsFiniteSet(Ahead(file, pen, step))
  /\ Cardinality(Ahead(file, pen, step)) <= overtaken

LEMMA LinesAreLines ==
  ASSUME NEW f \in Files
  PROVE  /\ DOMAIN f = 1..Len(f) /\ Len(f) \in Nat /\ Len(f) > 0
         /\ \A i \in DOMAIN f : f[i] \in Seq(Fragment) /\ Len(f[i]) \in Nat /\ DOMAIN f[i] = 1..Len(f[i])
         /\ \A i \in Parsed(f) : i \in 1..Len(f) /\ EntryAt(f, i) \in Entry
<1>1. f \in Seq(Seq(Fragment)) /\ DOMAIN f = 1..Len(f) /\ Len(f) \in Nat /\ Len(f) > 0
  BY DEF Files
<1>2. \A i \in DOMAIN f : f[i] \in Seq(Fragment) /\ Len(f[i]) \in Nat /\ DOMAIN f[i] = 1..Len(f[i])
  BY <1>1
<1>3. ASSUME NEW i \in Parsed(f) PROVE i \in 1..Len(f) /\ EntryAt(f, i) \in Entry
  <2>1. i \in DOMAIN f /\ Len(f[i]) = 1
    BY DEF Parsed, Written, Parses
  <2>2. f[i] \in Seq(Fragment) /\ 1 \in 1..Len(f[i])
    BY <1>2, <2>1
  <2>3. f[i][1] \in Fragment
    BY <2>2, ElementOfSeq
  <2> QED
    BY <1>1, <2>1, <2>3 DEF EntryAt, Fragment
<1> QED
  BY <1>1, <1>2, <1>3

\* A fragment at the end parses if it is a record and has a line for itself.
LEMMA AtEndParses ==
  ASSUME NEW f \in Files, NEW x \in Fragment
  PROVE  LET g == AtEnd(f, x) IN
         /\ \A i \in Parsed(g) \ {Len(f)} : i \in Parsed(f) /\ i < Len(f) /\ EntryAt(g, i) = EntryAt(f, i)
         /\ Len(f) \in Parsed(g) => x.whole /\ EntryAt(g, Len(f)) = x.entry
<1> DEFINE g == AtEnd(f, x)
<1>1. /\ g \in Files /\ Len(g) = Len(f)
      /\ \A i \in 1..(Len(f) - 1) : g[i] = f[i]
      /\ EndOf(f) = <<>> => EndOf(g) = <<x>>
  BY AtEndDoes
<1>2. f \in Seq(Seq(Fragment)) /\ Len(f) \in 1..Len(f) /\ EndOf(f) \in Seq(Fragment)
  BY DEF Files, EndOf
<1>3. EndOf(g) = Append(EndOf(f), x)
  <2>1. g = [f EXCEPT ![Len(f)] = Append(EndOf(f), x)]
    BY DEF AtEnd, EndOf
  <2>2. DOMAIN f = 1..Len(f)
    BY <1>2
  <2> HIDE DEF g
  <2>3. g[Len(f)] = Append(EndOf(f), x)
    BY <1>2, <2>1, <2>2
  <2> QED
    BY <1>1, <2>3 DEF EndOf
<1>4. DOMAIN f = 1..Len(f) /\ DOMAIN g = 1..Len(f) /\ Len(f) \in Nat
  BY <1>1, <1>2, LinesAreLines
<1> HIDE DEF g
<1>5. ASSUME NEW i \in Parsed(g) \ {Len(f)}
      PROVE  i \in Parsed(f) /\ i < Len(f) /\ EntryAt(g, i) = EntryAt(f, i)
  <2>1. i \in 1..(Len(f) - 1)
    BY <1>4 DEF Parsed, Written
  <2> QED
    BY <1>1, <1>4, <2>1 DEF Parsed, Written, EntryAt
<1>6. ASSUME Len(f) \in Parsed(g) PROVE x.whole /\ EntryAt(g, Len(f)) = x.entry
  <2>1. Parses(EndOf(g)) /\ EntryAt(g, Len(f)) = EndOf(g)[1].entry
    BY <1>1, <1>6 DEF Parsed, EndOf, EntryAt
  <2>2. Len(EndOf(f)) = 0
    BY <1>2, <1>3, <2>1 DEF Parses
  <2>3. EndOf(g) = <<x>>
    BY <1>1, <1>2, <2>2
  <2> QED
    BY <2>1, <2>3 DEF Parses
<1> QED
  BY <1>5, <1>6 DEF g

LEMMA NewlineParses ==
  ASSUME NEW f \in Files
  PROVE  LET g == Append(f, <<>>) IN
         Parsed(g) = Parsed(f) /\ \A i \in Parsed(f) : EntryAt(g, i) = EntryAt(f, i)
<1> DEFINE g == Append(f, <<>>)
<1>1. f \in Seq(Seq(Fragment)) /\ DOMAIN f = 1..Len(f) /\ Len(f) \in Nat
  BY LinesAreLines DEF Files
<1>2. DOMAIN g = 1..(Len(f) + 1) /\ g[Len(f) + 1] = <<>> /\ \A i \in 1..Len(f) : g[i] = f[i]
  BY <1>1
<1> HIDE DEF g
<1>3. Parsed(g) = Parsed(f)
  BY <1>1, <1>2 DEF Parsed, Written
<1>4. \A i \in Parsed(f) : EntryAt(g, i) = EntryAt(f, i)
  BY <1>1, <1>2 DEF Parsed, Written, EntryAt
<1> QED
  BY <1>3, <1>4 DEF g

\* A change in place changes neither what parses nor what it says of time.
LEMMA DamageParses ==
  ASSUME NEW f \in Files, NEW i \in DOMAIN f, NEW j \in DOMAIN f[i], f[i][j].whole
  PROVE  LET g == [f EXCEPT ![i][j].entry.signed = FALSE] IN
         Parsed(g) = Parsed(f) /\ \A k \in Parsed(f) : EntryAt(g, k).id = EntryAt(f, k).id
<1> DEFINE x == [f[i][j] EXCEPT !.entry = [f[i][j].entry EXCEPT !.signed = FALSE]]
           l == [f[i] EXCEPT ![j] = x]
           g == [f EXCEPT ![i][j].entry.signed = FALSE]
<1>1. /\ g \in Files /\ Len(g) = Len(f)
      /\ \A k \in DOMAIN f \ {i} : g[k] = f[k]
  BY DamageDoes
<1>2. /\ f \in Seq(Seq(Fragment)) /\ f[i] \in Seq(Fragment) /\ DOMAIN f[i] = 1..Len(f[i])
      /\ DOMAIN f = 1..Len(f) /\ Len(f[i]) \in Nat
  BY LinesAreLines DEF Files
<1>3. f[i][j] \in Fragment
  BY <1>2, ElementOfSeq
<1>4. x \in Fragment /\ x.whole /\ x.entry.id = f[i][j].entry.id
  BY <1>3 DEF Fragment, Entry
<1> HIDE DEF x
<1>5. l \in Seq(Fragment) /\ Len(l) = Len(f[i]) /\ l[j] = x /\ \A k \in DOMAIN f[i] \ {j} : l[k] = f[i][k]
  BY <1>2, <1>4
<1>6. g[i] = l
  BY <1>2 DEF x
<1>7. DOMAIN g = DOMAIN f
  BY <1>1, <1>2, LinesAreLines
<1> HIDE DEF l, g
<1>8. /\ g[i] # <<>> <=> f[i] # <<>>
      /\ Parses(g[i]) <=> Parses(f[i])
      /\ Parses(f[i]) => g[i][1].entry.id = f[i][1].entry.id
  <2>1. Len(g[i]) = Len(f[i]) /\ Len(f[i]) > 0
    BY <1>2, <1>5, <1>6
  <2>2. g[i] # <<>> /\ f[i] # <<>>
    BY <2>1
  <2>3. CASE Len(f[i]) = 1
    <3>1. j = 1
      BY <1>2, <2>3
    <3>2. g[i][1] = x
      BY <1>5, <1>6, <3>1
    <3> QED
      BY <1>4, <2>1, <2>2, <2>3, <3>1, <3>2 DEF Parses
  <2>4. CASE Len(f[i]) # 1
    BY <2>1, <2>2, <2>4 DEF Parses
  <2> QED
    BY <2>3, <2>4
<1>9. \A k \in DOMAIN f : k \in Parsed(g) <=> k \in Parsed(f)
  BY <1>1, <1>7, <1>8 DEF Parsed, Written
<1>10. Parsed(g) = Parsed(f)
  BY <1>7, <1>9 DEF Parsed, Written
<1>11. \A k \in Parsed(f) : EntryAt(g, k).id = EntryAt(f, k).id
  BY <1>1, <1>8 DEF Parsed, Written, EntryAt
<1> QED
  BY <1>10, <1>11 DEF g

---------------------------------------------------------------------------
(* A reversal is where a writer has overtaken another *)

\* A step that puts nobody ahead keeps the balance.
LEMMA NobodyAhead ==
  ASSUME TurnInv, NEW T, T \subseteq Ahead(file, pen, step), NEW n \in Nat, n >= overtaken
  PROVE  IsFiniteSet(T) /\ Cardinality(T) <= n
<1> DEFINE S == Ahead(file, pen, step)
<1>1. IsFiniteSet(S) /\ Cardinality(S) <= overtaken /\ overtaken \in Nat
  BY DEF TurnInv
<1> HIDE DEF S
<1>2. IsFiniteSet(T) /\ Cardinality(T) <= Cardinality(S)
  BY <1>1, FS_Subset DEF S
<1>3. Cardinality(T) \in Nat /\ Cardinality(S) \in Nat
  BY <1>1, <1>2, FS_CardinalityType
<1> QED
  BY <1>1, <1>2, <1>3

LEMMA InitTurn == SInit => TurnInv
<1> SUFFICES ASSUME SInit PROVE TurnInv
  OBVIOUS
<1>1. Parsed(file) = {}
  BY DEF SInit, Init, Parsed, Written
<1>2. Ahead(file, pen, step) = {}
  BY <1>1 DEF Ahead
<1>3. overtaken = 0 /\ \A w \in Writers : step[w] # "line"
  BY DEF SInit, Init
<1>4. IsFiniteSet({}) /\ Cardinality({}) = 0
  BY FS_EmptySet
<1> QED
  BY <1>1, <1>2, <1>3, <1>4 DEF TurnInv

LEMMA SignTurn ==
  ASSUME Shape, TurnInv, NEW w \in Writers, Sign(w)
  PROVE  TurnInv'
<1>1. /\ file' = file /\ overtaken' = overtaken /\ begun' = begun + 1 /\ begun \in Nat
      /\ step[w] = "open" /\ step' = [step EXCEPT ![w] = "line"]
      /\ pen' = [pen EXCEPT ![w] = [id |-> begun + 1, signed |-> begun + 1 \notin Foreign]]
  BY DEF Sign, Goto, history, Shape
<1>2. \A i \in Parsed(file) : EntryAt(file, i).id \in Nat /\ EntryAt(file, i).id <= begun
  BY LinesAreLines DEF Shape, TurnInv, Entry
<1>3. pen'[w].id = begun + 1 /\ \A o \in Writers \ {w} : pen'[o] = pen[o] /\ step'[o] = step[o]
  BY <1>1 DEF Shape
<1>4. \A i \in Parsed(file) : ~(pen'[w].id < EntryAt(file, i).id)
  BY <1>1, <1>2, <1>3
<1>5. Ahead(file, pen, step)' \subseteq Ahead(file, pen, step)
  BY <1>1, <1>3, <1>4 DEF Ahead
<1>6. \A o \in Writers : step[o] = "line" => pen[o].id \in Nat /\ pen[o].id <= begun
  BY DEF Shape, TurnInv, Entry
<1>7. \A o \in Writers : step'[o] = "line" => pen'[o].id <= begun'
  BY <1>1, <1>3, <1>6
<1>8. \A i \in Parsed(file') : EntryAt(file', i).id <= begun'
  BY <1>1, <1>2
<1> QED
  <2>1. overtaken' \in Nat /\ overtaken' >= overtaken
    BY <1>1 DEF TurnInv
  <2>2. IsFiniteSet(Ahead(file, pen, step)') /\ Cardinality(Ahead(file, pen, step)') <= overtaken'
    BY <1>5, <2>1, NobodyAhead
  <2> QED
    BY <1>7, <1>8, <2>1, <2>2 DEF TurnInv

\* Whoever is put ahead is counted.
LEMMA WriteLineTurn ==
  ASSUME Shape, TurnInv, NEW w \in Writers, WriteLine(w)
  PROVE  TurnInv'
<1> DEFINE x == [entry |-> pen[w], whole |-> TRUE]
           passes == \E o \in Writers : step[o] = "line" /\ pen[o].id < pen[w].id
           S == Ahead(file, pen, step)
           T == Ahead(file, pen, step)'
<1>1. /\ file' = AtEnd(file, x) /\ step[w] = "line" /\ step' = [step EXCEPT ![w] = "newline"]
      /\ UNCHANGED <<pen, begun>>
      /\ overtaken' = overtaken + IF passes THEN 1 ELSE 0
  BY DEF WriteLine, Count, Goto
<1>2. x \in Fragment /\ x.entry = pen[w] /\ pen[w] \in Entry /\ pen[w].id <= begun /\ begun \in Nat
  BY <1>1 DEF Shape, TurnInv, Fragment
<1> DEFINE n == Len(file)
<1>3. /\ \A i \in Parsed(file') \ {n} :
           i \in Parsed(file) /\ i < n /\ EntryAt(file', i) = EntryAt(file, i)
      /\ n \in Parsed(file') => EntryAt(file', n) = pen[w]
  BY <1>1, <1>2, AtEndParses DEF Shape
<1>4. \A o \in Writers : step'[o] = "line" => step[o] = "line"
  BY <1>1 DEF Shape
<1>5. n \in Nat /\ \A i \in Parsed(file) : i \in 1..n /\ EntryAt(file, i).id \in Nat
  BY LinesAreLines DEF Shape, Entry
<1> HIDE DEF x, n
<1>6. \A i \in T \ {n} : i \in S
  <2> SUFFICES ASSUME NEW i \in T, i # n PROVE i \in S
    OBVIOUS
  <2>1. i \in Parsed(file') /\ i \in Parsed(file) /\ EntryAt(file', i) = EntryAt(file, i) /\ i < n
    BY <1>3 DEF Ahead
  <2>2. CASE \E k \in Parsed(file') : i < k /\ EntryAt(file', k).id < EntryAt(file', i).id
    <3>1. PICK k \in Parsed(file') : i < k /\ EntryAt(file', k).id < EntryAt(file', i).id
      BY <2>2
    <3>2. CASE k = n
      BY <1>1, <1>3, <2>1, <3>1, <3>2 DEF Ahead
    <3>3. CASE k # n
      BY <1>3, <2>1, <3>1, <3>3 DEF Ahead
    <3> QED
      BY <3>2, <3>3
  <2>3. CASE \E o \in Writers : step'[o] = "line" /\ pen'[o].id < EntryAt(file', i).id
    BY <1>1, <1>4, <2>1, <2>3 DEF Ahead
  <2> QED
    BY <2>2, <2>3 DEF Ahead
<1>7. n \in T => passes
  <2> SUFFICES ASSUME n \in T PROVE passes
    OBVIOUS
  <2>1. n \in Parsed(file') /\ EntryAt(file', n) = pen[w]
    BY <1>3 DEF Ahead
  <2>2. \A k \in Parsed(file') : ~(n < k)
    BY <1>3, <1>5
  <2> QED
    BY <1>1, <1>4, <2>1, <2>2 DEF Ahead
<1>8. overtaken \in Nat /\ IsFiniteSet(S) /\ Cardinality(S) <= overtaken
  BY DEF TurnInv
<1>9. IsFiniteSet(T) /\ Cardinality(T) <= overtaken'
  <2>1. CASE passes
    <3>1. T \subseteq S \union {n}
      BY <1>6
    <3>2. IsFiniteSet(T) /\ Cardinality(T) \in Nat /\ Cardinality(T) <= Cardinality(S) + 1
      <4> HIDE DEF T, S
      <4> QED
        BY <1>8, <3>1, OneMore
    <3>3. Cardinality(S) \in Nat
      BY <1>8, FS_CardinalityType
    <3> HIDE DEF T, S
    <3> QED
      BY <1>1, <1>8, <2>1, <3>2, <3>3
  <2>2. CASE ~passes
    <3>1. T \subseteq S /\ overtaken' \in Nat /\ overtaken' >= overtaken
      <4> HIDE DEF T, S, passes
      <4> QED
        BY <1>1, <1>6, <1>7, <1>8, <2>2
    <3> QED
      BY <3>1, NobodyAhead
  <2> QED
    BY <2>1, <2>2
<1>10. \A i \in Parsed(file') : EntryAt(file', i).id <= begun'
  BY <1>1, <1>2, <1>3 DEF TurnInv
<1>11. \A o \in Writers : step'[o] = "line" => pen'[o].id <= begun'
  BY <1>1, <1>4 DEF TurnInv
<1>12. overtaken' \in Nat
  BY <1>1, <1>8
<1> QED
  BY <1>9, <1>10, <1>11, <1>12 DEF TurnInv

\* A step after which the walk reads no more than before, with the same ids.
LEMMA NothingNewTurn ==
  ASSUME TurnInv, UNCHANGED <<begun, overtaken>>,
         \A i \in Parsed(file') : i \in Parsed(file) /\ EntryAt(file', i).id = EntryAt(file, i).id,
         \A o \in Writers : step'[o] = "line" => step[o] = "line" /\ pen'[o] = pen[o]
  PROVE  TurnInv'
<1>1. Ahead(file, pen, step)' \subseteq Ahead(file, pen, step)
  BY DEF Ahead
<1> QED
  BY <1>1, NobodyAhead DEF TurnInv

LEMMA NextTurn == Shape /\ TurnInv /\ [SNext]_vars => TurnInv'
<1> SUFFICES ASSUME Shape, TurnInv, [SNext]_vars PROVE TurnInv'
  OBVIOUS
<1>1. ASSUME NEW w \in Writers, WriteNewline(w) PROVE TurnInv'
  <2>1. /\ file' = Append(file, <<>>) /\ step' = [step EXCEPT ![w] = "open"]
        /\ pen' = [pen EXCEPT ![w] = None] /\ UNCHANGED <<begun, overtaken>>
    BY <1>1 DEF WriteNewline, Goto, history
  <2>2. \A o \in Writers : step'[o] = "line" => step[o] = "line" /\ pen'[o] = pen[o]
    BY <2>1 DEF Shape
  <2>3. \A i \in Parsed(file') : i \in Parsed(file) /\ EntryAt(file', i) = EntryAt(file, i)
    BY <2>1, NewlineParses DEF Shape
  <2> QED
    BY <2>1, <2>2, <2>3, NothingNewTurn
<1>2. ASSUME NEW w \in Writers, Abort(w) PROVE TurnInv'
  <2> DEFINE x == [entry |-> pen[w], whole |-> FALSE]
  <2>1. /\ step' = [step EXCEPT ![w] = "open"] /\ step[w] # "open"
        /\ pen' = [pen EXCEPT ![w] = None] /\ UNCHANGED <<begun, overtaken>>
        /\ file' = file \/ file' = AtEnd(file, x)
    BY <1>2 DEF Abort, Goto, history
  <2>2. \A o \in Writers : step'[o] = "line" => step[o] = "line" /\ pen'[o] = pen[o]
    BY <2>1 DEF Shape
  <2>3. x \in Fragment /\ ~x.whole
    BY <2>1 DEF Shape, Fragment
  <2>4. CASE file' = file
    BY <2>1, <2>2, <2>4, NothingNewTurn
  <2>5. CASE file' = AtEnd(file, x)
    <3>1. \A i \in Parsed(file') : i \in Parsed(file) /\ EntryAt(file', i) = EntryAt(file, i)
      <4> HIDE DEF x
      <4> QED
        BY <2>3, <2>5, AtEndParses DEF Shape
    <3> QED
      BY <2>1, <2>2, <3>1, NothingNewTurn
  <2> QED
    BY <2>1, <2>4, <2>5
<1>3. ASSUME Damage PROVE TurnInv'
  <2>1. PICK i \in DOMAIN file : \E j \in DOMAIN file[i] :
               file[i][j].whole /\ file' = [file EXCEPT ![i][j].entry.signed = FALSE]
    BY <1>3 DEF Damage
  <2>2. PICK j \in DOMAIN file[i] :
               file[i][j].whole /\ file' = [file EXCEPT ![i][j].entry.signed = FALSE]
    BY <2>1
  <2>3. \A k \in Parsed(file') : k \in Parsed(file) /\ EntryAt(file', k).id = EntryAt(file, k).id
    <3> DEFINE g == [file EXCEPT ![i][j].entry.signed = FALSE]
    <3>1. Parsed(g) = Parsed(file) /\ \A k \in Parsed(file) : EntryAt(g, k).id = EntryAt(file, k).id
      BY <2>2, DamageParses DEF Shape
    <3>2. file' = g
      BY <2>2
    <3> HIDE DEF g
    <3> QED
      BY <3>1, <3>2
  <2>4. UNCHANGED <<begun, overtaken, pen, step>>
    BY <1>3 DEF Damage, history
  <2> QED
    BY <2>3, <2>4, NothingNewTurn
<1>4. ASSUME Beside, overtaken' = overtaken PROVE TurnInv'
  BY <1>4, NothingNewTurn DEF Beside
<1>5. Damage \/ (\E w \in Writers : Writing(w)) \/ (Beside /\ overtaken' = overtaken)
  BY DEF SNext, vars, log, history, Beside
<1> QED
  BY <1>1, <1>2, <1>3, <1>4, <1>5, SignTurn, WriteLineTurn DEF Writing

\* ReversalsAreOvertakings: "Timestamps should be monotonically non-decreasing"
\* (Anomaly in gommage-audit).  explain_log reports no more reversals than there
\* were writers that wrote before one whose record had the older timestamp.
THEOREM ReversalsHaveCauses == SSpec => []ReversalsAreOvertakings
<1>1. Shape /\ TurnInv => ReversalsAreOvertakings
  <2> SUFFICES ASSUME Shape, TurnInv PROVE ReversalsAreOvertakings
    OBVIOUS
  <2> DEFINE T == TimestampOutOfOrder(file)
             S == Ahead(file, pen, step)
             P == Parsed(file)
             before == [i \in T |-> CHOOSE j \in P : Precedes(file, j, i) /\ EntryAt(file, i).id < EntryAt(file, j).id]
  <2>1. \A i \in T : /\ i \in P /\ before[i] \in P /\ Precedes(file, before[i], i)
                     /\ EntryAt(file, i).id < EntryAt(file, before[i]).id
    BY DEF TimestampOutOfOrder
  <2>2. P \subseteq Nat
    BY LinesAreLines DEF Shape
  <2>3. \A i \in T : before[i] \in S
    BY <2>1 DEF Ahead, Precedes
  <2>4. \A i, k \in T : before[i] = before[k] => i = k
    <3> SUFFICES ASSUME NEW i \in T, NEW k \in T, before[i] = before[k], i # k PROVE FALSE
      OBVIOUS
    <3> HIDE DEF before
    <3>1. i \in Nat /\ k \in Nat /\ before[i] < i /\ before[i] < k /\ i \in P /\ k \in P
      BY <2>1, <2>2 DEF Precedes
    <3>2. i < k \/ k < i
      BY <3>1
    <3> QED
      BY <2>1, <3>1, <3>2 DEF Precedes
  <2>5. before \in Injection(T, S)
    BY <2>3, <2>4 DEF Injection, IsInjective
  <2>6. IsFiniteSet(S) /\ Cardinality(S) <= overtaken /\ overtaken \in Nat
    BY DEF TurnInv
  <2>7. IsFiniteSet(T) /\ Cardinality(T) <= Cardinality(S)
    <3> HIDE DEF T, S, before
    <3> QED
      BY <2>5, <2>6, FS_Injection
  <2>8. Cardinality(T) \in Nat /\ Cardinality(S) \in Nat
    BY <2>6, <2>7, FS_CardinalityType
  <2> HIDE DEF S
  <2> QED
    BY <2>6, <2>7, <2>8 DEF ReversalsAreOvertakings
<1> QED
  BY <1>1, InitLoss, NextShape, InitTurn, NextTurn, PTL DEF SSpec

---------------------------------------------------------------------------
(* What the file was: it grows, and entries only get worse *)

Grows(f, g) ==
  /\ Len(f) <= Len(g)
  /\ \A i \in 1..Len(f) :
       /\ Len(f[i]) <= Len(g[i])
       /\ \A j \in 1..Len(f[i]) :
            /\ g[i][j].whole = f[i][j].whole
            /\ g[i][j].entry.id = f[i][j].entry.id
            /\ g[i][j].entry.signed => f[i][j].entry.signed

LEMMA GrowsStays == \A f \in Files : Grows(f, f)
<1> SUFFICES ASSUME NEW f \in Files PROVE Grows(f, f)
  OBVIOUS
<1>1. Len(f) \in Nat /\ \A i \in 1..Len(f) : Len(f[i]) \in Nat
  BY LinesAreLines
<1> QED
  BY <1>1 DEF Grows

LEMMA GrowsOn ==
  ASSUME NEW f \in Files, NEW g \in Files, NEW h \in Files, Grows(f, g), Grows(g, h)
  PROVE  Grows(f, h)
<1>1. Len(f) \in Nat /\ Len(g) \in Nat /\ Len(h) \in Nat /\ Len(f) <= Len(h)
  BY LinesAreLines DEF Grows
<1>2. ASSUME NEW i \in 1..Len(f) PROVE i \in 1..Len(g) /\ i \in 1..Len(h)
  BY <1>1 DEF Grows
<1>3. ASSUME NEW i \in 1..Len(f)
      PROVE  Len(f[i]) <= Len(g[i]) /\ Len(g[i]) <= Len(h[i])
             /\ Len(f[i]) \in Nat /\ Len(g[i]) \in Nat /\ Len(h[i]) \in Nat
  BY <1>2, LinesAreLines DEF Grows
<1>4. ASSUME NEW i \in 1..Len(f), NEW j \in 1..Len(f[i])
      PROVE  /\ h[i][j].whole = f[i][j].whole
             /\ h[i][j].entry.id = f[i][j].entry.id
             /\ h[i][j].entry.signed => f[i][j].entry.signed
  <2>1. i \in 1..Len(g) /\ j \in 1..Len(g[i])
    BY <1>2, <1>3
  <2> QED
    BY <2>1 DEF Grows
<1> QED
  BY <1>1, <1>3, <1>4 DEF Grows

LEMMA FragmentsAreFragments ==
  ASSUME NEW f \in Files, NEW i \in 1..Len(f), NEW j \in 1..Len(f[i])
  PROVE  f[i][j] \in Fragment
<1>1. f[i] \in Seq(Fragment)
  BY LinesAreLines
<1> QED
  BY <1>1, ElementOfSeq

\* Two files that grow into each other are one.
LEMMA GrowsBack ==
  ASSUME NEW f \in Files, NEW g \in Files, Grows(f, g), Grows(g, f)
  PROVE  f = g
<1>1. /\ f \in Seq(Seq(Fragment)) /\ g \in Seq(Seq(Fragment))
      /\ Len(f) \in Nat /\ Len(g) \in Nat /\ Len(f) = Len(g)
  BY LinesAreLines DEF Grows, Files
<1>2. ASSUME NEW i \in 1..Len(f) PROVE f[i] = g[i]
  <2>1. /\ f[i] \in Seq(Fragment) /\ g[i] \in Seq(Fragment)
        /\ Len(f[i]) \in Nat /\ Len(g[i]) \in Nat /\ Len(f[i]) = Len(g[i])
    BY <1>1, LinesAreLines DEF Grows
  <2>2. ASSUME NEW j \in 1..Len(f[i]) PROVE f[i][j] = g[i][j]
    <3>1. f[i][j] \in Fragment /\ g[i][j] \in Fragment
      BY <1>1, <2>1, FragmentsAreFragments
    <3>2. /\ g[i][j].whole = f[i][j].whole
          /\ g[i][j].entry.id = f[i][j].entry.id
          /\ g[i][j].entry.signed <=> f[i][j].entry.signed
      BY <1>1, <2>1 DEF Grows
    <3>3. f[i][j].entry = g[i][j].entry
      BY <3>1, <3>2 DEF Fragment, Entry
    <3> QED
      BY <3>1, <3>2, <3>3 DEF Fragment
  <2> QED
    BY <2>1, <2>2, SeqEqual
<1> QED
  BY <1>1, <1>2, SeqEqual

---------------------------------------------------------------------------
(* What fs::metadata sees of it *)

Cells(f) == UNION {{i} \X DOMAIN f[i] : i \in DOMAIN f}

\* Stat, by the file and the count of the changes made to it in place.
StatOf(f, d) == [size |-> Size(f), modified |-> <<Size(f), d>>]

\* The metadata of an earlier moment, or of now.
Older(stat, f, d) ==
  \E l \in 0..Len(f), c \in 0..Cardinality(Cells(f)), e \in 0..d :
    stat = [size |-> <<l, c>>, modified |-> << <<l, c>>, e>>]

CellInv == IsFiniteSet(Cells(file))

LEMMA CellsAre ==
  ASSUME NEW f PROVE \A c : c \in Cells(f) <=> \E i \in DOMAIN f : \E j \in DOMAIN f[i] : c = <<i, j>>
  BY DEF Cells

\* A fragment at the end is one more cell.
LEMMA AtEndGrows ==
  ASSUME NEW f \in Files, NEW x \in Fragment
  PROVE  LET g == AtEnd(f, x) IN
         /\ Grows(f, g) /\ Len(g) = Len(f)
         /\ \E c : c \notin Cells(f) /\ Cells(g) = Cells(f) \union {c}
<1> DEFINE g == AtEnd(f, x)
           n == Len(f)
           k == Len(f[n])
<1>1. /\ g \in Files /\ Len(g) = Len(f)
      /\ \A i \in 1..(Len(f) - 1) : g[i] = f[i]
  BY AtEndDoes
<1>2. f \in Seq(Seq(Fragment)) /\ n \in 1..n /\ n \in Nat /\ f[n] \in Seq(Fragment) /\ k \in Nat
  BY LinesAreLines DEF Files
<1>3. g[n] = Append(f[n], x)
  <2>1. g = [f EXCEPT ![n] = Append(f[n], x)]
    BY DEF AtEnd
  <2>2. n \in DOMAIN f
    BY <1>2
  <2> HIDE DEF g, n
  <2> QED
    BY <1>2, <2>1, <2>2
<1>9. \A i \in 1..n : i # n => g[i] = f[i]
  BY <1>1, <1>2
<1>4. DOMAIN f = 1..n /\ DOMAIN g = 1..n /\ \A i \in 1..n : Len(f[i]) \in Nat /\ DOMAIN f[i] = 1..Len(f[i])
  BY <1>1, LinesAreLines
<1> HIDE DEF g, n
<1>5. /\ Len(g[n]) = k + 1 /\ DOMAIN g[n] = 1..(k + 1) /\ DOMAIN f[n] = 1..k
      /\ \A j \in 1..k : g[n][j] = f[n][j]
  BY <1>2, <1>3, AppendProperties
<1>6. Grows(f, g)
  <2>1. Len(f) <= Len(g)
    BY <1>1, <1>2 DEF n
  <2>2. ASSUME NEW i \in 1..Len(f)
        PROVE  Len(f[i]) <= Len(g[i]) /\ \A j \in 1..Len(f[i]) : g[i][j] = f[i][j]
    <3>1. CASE i = n
      BY <1>2, <1>5, <3>1
    <3>2. CASE i # n
      <4>1. i \in 1..n
        BY DEF n
      <4>2. g[i] = f[i] /\ Len(f[i]) \in Nat
        BY <1>4, <1>9, <3>2, <4>1
      <4> QED
        BY <4>2
    <3> QED
      BY <3>1, <3>2
  <2> QED
    BY <2>1, <2>2 DEF Grows
<1>7. <<n, k + 1>> \notin Cells(f)
  BY <1>2, <1>5, CellsAre
<1>8. Cells(g) = Cells(f) \union {<<n, k + 1>>}
  <2>1. ASSUME NEW c \in Cells(g) PROVE c \in Cells(f) \union {<<n, k + 1>>}
    <3>1. PICK i \in DOMAIN g : \E j \in DOMAIN g[i] : c = <<i, j>>
      BY CellsAre
    <3> PICK j \in DOMAIN g[i] : c = <<i, j>>
      BY <3>1
    <3>2. CASE i = n
      <4>1. j \in 1..k \/ j = k + 1
        BY <1>2, <1>5, <3>1, <3>2
      <4> QED
        BY <1>2, <1>4, <1>5, <3>1, <3>2, <4>1, CellsAre
    <3>3. CASE i # n
      <4>1. i \in DOMAIN f /\ j \in DOMAIN f[i]
        BY <1>4, <1>9, <3>1, <3>3
      <4> QED
        BY <3>1, <4>1, CellsAre
    <3> QED
      BY <3>2, <3>3
  <2>2. ASSUME NEW c \in Cells(f) PROVE c \in Cells(g)
    <3>1. PICK i \in DOMAIN f : \E j \in DOMAIN f[i] : c = <<i, j>>
      BY CellsAre
    <3> PICK j \in DOMAIN f[i] : c = <<i, j>>
      BY <3>1
    <3>2. i \in DOMAIN g /\ j \in DOMAIN g[i]
      <4>1. CASE i = n
        BY <1>2, <1>4, <1>5, <3>1, <4>1
      <4>2. CASE i # n
        BY <1>4, <1>9, <3>1, <4>2
      <4> QED
        BY <4>1, <4>2
    <3> QED
      BY <3>1, <3>2, CellsAre
  <2>3. <<n, k + 1>> \in Cells(g)
    BY <1>2, <1>4, <1>5, CellsAre
  <2> QED
    BY <2>1, <2>2, <2>3
<1> QED
  BY <1>1, <1>6, <1>7, <1>8 DEF g

\* A newline adds an empty line.
LEMMA NewlineGrows ==
  ASSUME NEW f \in Files
  PROVE  LET g == Append(f, <<>>) IN
         Grows(f, g) /\ Len(g) = Len(f) + 1 /\ Cells(g) = Cells(f)
<1> DEFINE g == Append(f, <<>>)
           n == Len(f)
<1>1. f \in Seq(Seq(Fragment)) /\ n \in Nat /\ DOMAIN f = 1..n
      /\ \A i \in 1..n : Len(f[i]) \in Nat /\ DOMAIN f[i] = 1..Len(f[i])
  BY LinesAreLines DEF Files
<1>2. Len(g) = n + 1 /\ DOMAIN g = 1..(n + 1) /\ g[n + 1] = <<>> /\ \A i \in 1..n : g[i] = f[i]
  BY <1>1, AppendProperties
<1>3. DOMAIN g[n + 1] = {}
  BY <1>2
<1> HIDE DEF g
<1>4. Grows(f, g)
  BY <1>1, <1>2 DEF Grows
<1>5. ASSUME NEW c \in Cells(g) PROVE c \in Cells(f)
  <2>1. PICK i \in DOMAIN g : \E j \in DOMAIN g[i] : c = <<i, j>>
    BY CellsAre
  <2>2. i # n + 1
    BY <1>3, <2>1
  <2>3. i \in DOMAIN f /\ g[i] = f[i]
    BY <1>1, <1>2, <2>2
  <2> QED
    BY <2>1, <2>3, CellsAre
<1>6. ASSUME NEW c \in Cells(f) PROVE c \in Cells(g)
  <2>1. PICK i \in DOMAIN f : \E j \in DOMAIN f[i] : c = <<i, j>>
    BY CellsAre
  <2>2. i \in DOMAIN g /\ g[i] = f[i]
    BY <1>1, <1>2
  <2> QED
    BY <2>1, <2>2, CellsAre
<1> QED
  BY <1>2, <1>4, <1>5, <1>6 DEF g

\* A damaged entry leaves every length as it was.
LEMMA DamageGrows ==
  ASSUME NEW f \in Files, NEW i \in DOMAIN f, NEW j \in DOMAIN f[i]
  PROVE  LET g == [f EXCEPT ![i][j].entry.signed = FALSE] IN
         Grows(f, g) /\ Len(g) = Len(f) /\ Cells(g) = Cells(f)
<1> DEFINE e == [f[i][j].entry EXCEPT !.signed = FALSE]
           x == [f[i][j] EXCEPT !.entry = e]
           l == [f[i] EXCEPT ![j] = x]
           g == [f EXCEPT ![i] = l]
<1>1. /\ DOMAIN f = 1..Len(f) /\ Len(f) \in Nat
      /\ \A k \in 1..Len(f) : /\ f[k] \in Seq(Fragment) /\ Len(f[k]) \in Nat
                              /\ DOMAIN f[k] = 1..Len(f[k])
  BY LinesAreLines
<1>2. f[i][j] \in Fragment
  BY <1>1, FragmentsAreFragments
<1>3. e.id = f[i][j].entry.id /\ ~e.signed
  BY <1>2 DEF Fragment, Entry
<1>14. e \in Entry
  BY <1>2 DEF Fragment, Entry
<1> HIDE DEF e
<1>4. x.whole = f[i][j].whole /\ x.entry = e /\ x \in Fragment
  BY <1>2, <1>14 DEF Fragment
<1> HIDE DEF x
<1>5. /\ DOMAIN l = DOMAIN f[i] /\ l[j] = x
      /\ \A k \in DOMAIN f[i] : k # j => l[k] = f[i][k]
  OBVIOUS
<1>6. Len(l) = Len(f[i]) /\ l \in Seq(Fragment)
  BY <1>1, <1>4
<1> HIDE DEF l
<1>7. DOMAIN g = DOMAIN f /\ g[i] = l /\ \A k \in DOMAIN f : k # i => g[k] = f[k]
  OBVIOUS
<1>8. Len(g) = Len(f)
  BY <1>1, <1>6 DEF Files
<1>9. g = [f EXCEPT ![i][j].entry.signed = FALSE]
  BY DEF l, x, e
<1> HIDE DEF g
<1>10. \A k \in DOMAIN f : Len(g[k]) = Len(f[k]) /\ DOMAIN g[k] = DOMAIN f[k]
  BY <1>5, <1>6, <1>7
<1>11. ASSUME NEW k \in DOMAIN f, NEW m \in DOMAIN f[k]
       PROVE  /\ g[k][m].whole = f[k][m].whole
              /\ g[k][m].entry.id = f[k][m].entry.id
              /\ g[k][m].entry.signed => f[k][m].entry.signed
  <2>1. CASE k = i /\ m = j
    BY <1>3, <1>4, <1>5, <1>7, <2>1
  <2>2. CASE ~(k = i /\ m = j)
    BY <1>5, <1>7, <2>2
  <2> QED
    BY <2>1, <2>2
<1>12. Grows(f, g)
  BY <1>1, <1>8, <1>10, <1>11 DEF Grows
<1>13. Cells(g) = Cells(f)
  <2>1. \A c : c \in Cells(g) <=> c \in Cells(f)
    BY <1>7, <1>10, CellsAre
  <2> QED
    BY <2>1
<1> QED
  BY <1>8, <1>9, <1>12, <1>13

\* The file has grown or been damaged, and its metadata show it.
Moved ==
  Len(file) < Len(file') \/ Cardinality(Cells(file)) < Cardinality(Cells(file')) \/ damaged < damaged'

\* A step leaves the file as it is or moves it, and it never shrinks.
LEMMA FileMoves ==
  ASSUME Shape, CellInv, [SNext]_vars
  PROVE  /\ CellInv' /\ Grows(file, file')
         /\ Cardinality(Cells(file)) \in Nat /\ Cardinality(Cells(file')) \in Nat
         /\ Len(file) <= Len(file') /\ Cardinality(Cells(file)) <= Cardinality(Cells(file'))
         /\ damaged <= damaged' /\ damaged' \in Nat
         /\ \/ file' = file /\ damaged' = damaged
            \/ Moved
<1>1. /\ IsFiniteSet(Cells(file)) /\ Cardinality(Cells(file)) \in Nat
      /\ Len(file) \in Nat /\ file \in Files /\ damaged \in Nat
  BY FS_CardinalityType, LinesAreLines DEF CellInv, Shape
<1>2. ASSUME NEW x \in Fragment, file' = AtEnd(file, x), damaged' = damaged
      PROVE  /\ Grows(file, file') /\ Len(file') = Len(file) /\ IsFiniteSet(Cells(file'))
             /\ Cardinality(Cells(file')) = Cardinality(Cells(file)) + 1
  <2>1. PICK c : c \notin Cells(file) /\ Cells(file') = Cells(file) \union {c}
    BY <1>1, <1>2, AtEndGrows
  <2> QED
    BY <1>1, <1>2, <2>1, AtEndGrows, FS_AddElement
<1>3. ASSUME NEW w \in Writers, WriteLine(w)
      PROVE  \E x \in Fragment : file' = AtEnd(file, x) /\ damaged' = damaged
  <2>1. [entry |-> pen[w], whole |-> TRUE] \in Fragment
    BY <1>3 DEF WriteLine, Shape, Fragment
  <2> QED
    BY <1>3, <2>1 DEF WriteLine
<1>4. ASSUME NEW w \in Writers, Abort(w)
      PROVE  damaged' = damaged /\ (file' = file \/ \E x \in Fragment : file' = AtEnd(file, x))
  <2>1. [entry |-> pen[w], whole |-> FALSE] \in Fragment
    BY <1>4 DEF Abort, Shape, Fragment
  <2> QED
    BY <1>4, <2>1 DEF Abort
<1>5. ASSUME NEW w \in Writers, WriteNewline(w)
      PROVE  /\ Grows(file, file') /\ Len(file') = Len(file) + 1 /\ damaged' = damaged
             /\ Cells(file') = Cells(file)
  BY <1>1, <1>5, NewlineGrows DEF WriteNewline
<1>6. ASSUME Damage
      PROVE  /\ Grows(file, file') /\ Len(file') = Len(file) /\ damaged' = damaged + 1
             /\ Cells(file') = Cells(file)
  <2>1. PICK i \in DOMAIN file : \E j \in DOMAIN file[i] :
               file' = [file EXCEPT ![i][j].entry.signed = FALSE]
    BY <1>6 DEF Damage
  <2>2. PICK j \in DOMAIN file[i] : file' = [file EXCEPT ![i][j].entry.signed = FALSE]
    BY <2>1
  <2>3. damaged' = damaged + 1
    BY <1>6 DEF Damage
  <2> DEFINE g == [file EXCEPT ![i][j].entry.signed = FALSE]
  <2>4. Grows(file, g) /\ Len(g) = Len(file) /\ Cells(g) = Cells(file)
    BY <1>1, DamageGrows
  <2>5. file' = g
    BY <2>2
  <2> HIDE DEF g
  <2> QED
    BY <2>3, <2>4, <2>5
<1>7. CASE file' = file /\ damaged' = damaged
  BY <1>1, <1>7, GrowsStays DEF CellInv
<1>8. CASE \E x \in Fragment : file' = AtEnd(file, x) /\ damaged' = damaged
  BY <1>1, <1>2, <1>8 DEF CellInv, Moved
<1>9. CASE \E w \in Writers : WriteNewline(w)
  BY <1>1, <1>5, <1>9 DEF CellInv, Moved
<1>10. CASE Damage
  BY <1>1, <1>6, <1>10 DEF CellInv, Moved
<1>11. \/ file' = file /\ damaged' = damaged
       \/ \E w \in Writers : WriteLine(w) \/ Abort(w) \/ WriteNewline(w)
       \/ Damage
  BY StepsOfTheLog DEF Writing, Sign, Beside
<1> QED
  BY <1>3, <1>4, <1>7, <1>8, <1>9, <1>10, <1>11

LEMMA StatIs == \A f, d : StatOf(f, d) = [size |-> <<Len(f), Cardinality(Cells(f))>>,
                                          modified |-> << <<Len(f), Cardinality(Cells(f))>>, d>>]
  BY DEF StatOf, Size, Cells

---------------------------------------------------------------------------
(* What a rebuild has read, and the index *)

\* Taken for the log as it is, by the hash or by the metadata.
Current(c, f, d) == c.hash = f \/ c.stat = StatOf(f, d)

\* What c, a rebuild that has come to a step or the index, has to do with the log.
CopyOf(c, at, f, d) ==
  /\ c.hash \in Files /\ Grows(c.hash, f)
  /\ at # "stat" => Older(c.stat, f, d)
  /\ at \in {"read", "commit"} /\ Current(c, f, d) => Critical(f) = {}
  /\ at = "commit" /\ Current(c, f, d) => c.records = IndexedRecords(f)

JobFields == {"step", "hash", "stat", "records"}

JobShape == DOMAIN job = Rebuilders /\ \A r \in Rebuilders : DOMAIN job[r] = JobFields

CopyInv ==
  /\ CellInv /\ JobShape
  /\ \A r \in Rebuilders : job[r].step # "idle" => CopyOf(job[r], job[r].step, file, damaged)
  /\ index # None => CopyOf(index, "commit", file, damaged)

\* A step changes the metadata with the file, and back to those of no earlier moment.
LEMMA StatMoves ==
  ASSUME Shape, Shape', CellInv, [SNext]_vars, NEW c,
         Older(c.stat, file, damaged), c.stat = StatOf(file', damaged')
  PROVE  file' = file /\ damaged' = damaged
<1>1. /\ \/ file' = file /\ damaged' = damaged
         \/ Moved
      /\ Len(file) <= Len(file') /\ Cardinality(Cells(file)) <= Cardinality(Cells(file'))
      /\ damaged <= damaged' /\ damaged \in Nat /\ damaged' \in Nat
      /\ Len(file) \in Nat /\ Len(file') \in Nat
      /\ Cardinality(Cells(file)) \in Nat /\ Cardinality(Cells(file')) \in Nat
  BY FileMoves, LinesAreLines DEF Shape
<1>2. PICK l \in 0..Len(file), n \in 0..Cardinality(Cells(file)), e \in 0..damaged :
             c.stat = [size |-> <<l, n>>, modified |-> << <<l, n>>, e>>]
  BY DEF Older
<1>3. c.stat = [size |-> <<Len(file'), Cardinality(Cells(file'))>>,
                modified |-> << <<Len(file'), Cardinality(Cells(file'))>>, damaged'>>]
  BY StatIs
<1> DEFINE L == Len(file')
           N == Cardinality(Cells(file'))
<1> HIDE DEF L, N
<1>4. c.stat.modified = << <<l, n>>, e>> /\ c.stat.modified = << <<L, N>>, damaged'>>
  BY <1>2, <1>3 DEF L, N
<1>5. << <<l, n>>, e>>[1] = <<L, N>> /\ << <<l, n>>, e>>[2] = damaged'
  BY <1>4
<1>6. <<l, n>>[1] = L /\ <<l, n>>[2] = N
  BY <1>5
<1>7. l = Len(file') /\ n = Cardinality(Cells(file')) /\ e = damaged'
  BY <1>5, <1>6 DEF L, N
<1> QED
  BY <1>1, <1>7 DEF Moved

\* What passes for current after a step did before it, and the step was not on the file.
LEMMA CurrentMoves ==
  ASSUME Shape, Shape', CellInv, [SNext]_vars, NEW c,
         c.hash \in Files, Grows(c.hash, file), Older(c.stat, file, damaged),
         Current(c, file', damaged')
  PROVE  file' = file /\ Current(c, file, damaged)
<1>1. CASE c.stat = StatOf(file', damaged')
  BY <1>1, StatMoves DEF Current
<1>2. CASE c.hash = file'
  BY <1>2, FileMoves, GrowsBack DEF Shape, Current
<1> QED
  BY <1>1, <1>2 DEF Current

LEMMA CopyMoves ==
  ASSUME Shape, Shape', CellInv, [SNext]_vars, NEW c, NEW at, CopyOf(c, at, file, damaged)
  PROVE  CopyOf(c, at, file', damaged')
<1>1. c.hash \in Files /\ Grows(c.hash, file')
  BY FileMoves, GrowsOn DEF CopyOf, Shape
<1>2. ASSUME at # "stat" PROVE Older(c.stat, file', damaged')
  <2>1. PICK l \in 0..Len(file), n \in 0..Cardinality(Cells(file)), e \in 0..damaged :
               c.stat = [size |-> <<l, n>>, modified |-> << <<l, n>>, e>>]
    BY <1>2 DEF CopyOf, Older
  <2>2. l \in 0..Len(file') /\ n \in 0..Cardinality(Cells(file')) /\ e \in 0..damaged'
    BY FileMoves, LinesAreLines DEF Shape
  <2> QED
    BY <2>1, <2>2 DEF Older
<1>3. ASSUME at # "stat", Current(c, file', damaged')
      PROVE  file' = file /\ Current(c, file, damaged)
  BY <1>3, CurrentMoves DEF CopyOf
<1> QED
  BY <1>1, <1>2, <1>3 DEF CopyOf

LEMMA InitCopy == SInit => CopyInv
<1> SUFFICES ASSUME SInit PROVE CopyInv
  OBVIOUS
<1>1. file = << <<>> >> /\ index = None /\ job = [r \in Rebuilders |-> Idle]
  BY DEF SInit, Init
<1>2. CellInv
  <2>1. \A c : c \notin Cells(file)
    <3> SUFFICES ASSUME NEW c \in Cells(file) PROVE FALSE
      OBVIOUS
    <3>1. PICK i \in DOMAIN file : \E j \in DOMAIN file[i] : c = <<i, j>>
      BY CellsAre
    <3>2. i = 1 /\ file[1] = <<>>
      BY <1>1
    <3> QED
      BY <3>1, <3>2
  <2> QED
    BY <2>1, FS_EmptySet DEF CellInv
<1>3. JobShape /\ \A r \in Rebuilders : job[r].step = "idle"
  BY <1>1 DEF JobShape, JobFields, Idle
<1> QED
  BY <1>1, <1>2, <1>3 DEF CopyInv

\* A rebuild's step, which leaves the log and the other rebuilds alone.
LEMMA RebuildCopy ==
  ASSUME Shape, CopyInv, CellInv', NEW r \in Rebuilders, Rebuild(r), UNCHANGED log
  PROVE  CopyInv'
<1>1. file' = file /\ damaged' = damaged /\ CellInv /\ JobShape
  BY DEF CopyInv, log
<1>2. \A s \in Rebuilders : job[s].step # "idle" => CopyOf(job[s], job[s].step, file, damaged)
  BY DEF CopyInv
<1>3. index # None => CopyOf(index, "commit", file, damaged)
  BY DEF CopyInv
<1>4. PICK new : /\ job' = [job EXCEPT ![r] = new] /\ DOMAIN new = JobFields
                 /\ new.step # "idle" => CopyOf(new, new.step, file, damaged)
                 /\ index' # None => CopyOf(index', "commit", file, damaged)
  <2>1. DOMAIN job[r] = JobFields
    BY <1>1 DEF JobShape
  <2>9. Idle.step = "idle" /\ DOMAIN Idle = JobFields
    BY DEF Idle, JobFields
  <2>2. file \in Files /\ Grows(file, file)
    BY GrowsStays DEF Shape
  <2>3. CASE ReadBytes(r)
    <3> DEFINE new == [Idle EXCEPT !.step = "stat", !.hash = file]
    <3>1. job' = [job EXCEPT ![r] = new] /\ index' = index
      BY <2>3 DEF ReadBytes, Becomes
    <3>2. new.step = "stat" /\ new.hash = file /\ DOMAIN new = JobFields
      BY <2>9 DEF Idle, JobFields
    <3>3. CopyOf(new, new.step, file, damaged)
      BY <2>2, <3>2 DEF CopyOf
    <3> HIDE DEF new
    <3> QED
      BY <1>3, <3>1, <3>2, <3>3
  <2>4. CASE StatLog(r)
    <3> DEFINE new == [job[r] EXCEPT !.step = "explain", !.stat = Stat]
    <3>1. job' = [job EXCEPT ![r] = new] /\ index' = index /\ job[r].step = "stat"
      BY <2>4 DEF StatLog, Becomes
    <3>2. /\ new.step = "explain" /\ new.hash = job[r].hash /\ new.stat = StatOf(file, damaged)
          /\ DOMAIN new = JobFields
      BY <2>1 DEF Stat, StatOf, JobFields
    <3> HIDE DEF new
    <3>3. Older(StatOf(file, damaged), file, damaged)
      <4>1. Len(file) \in 0..Len(file) /\ damaged \in 0..damaged
            /\ Cardinality(Cells(file)) \in 0..Cardinality(Cells(file))
        BY <1>1, FS_CardinalityType, LinesAreLines DEF CellInv, Shape
      <4> QED
        BY <4>1, StatIs DEF Older
    <3>4. CopyOf(job[r], job[r].step, file, damaged)
      BY <1>2, <3>1
    <3>5. CopyOf(new, new.step, file, damaged)
      BY <3>2, <3>3, <3>4 DEF CopyOf
    <3> QED
      BY <1>3, <3>1, <3>2, <3>5
  <2>5. CASE Explain(r) /\ Critical(file) = {}
    <3> DEFINE new == [job[r] EXCEPT !.step = "read"]
    <3>1. job' = [job EXCEPT ![r] = new] /\ index' = index /\ job[r].step = "explain"
      BY <2>5 DEF Explain, Becomes
    <3>2. /\ new.step = "read" /\ new.hash = job[r].hash /\ new.stat = job[r].stat
          /\ DOMAIN new = JobFields
      BY <2>1 DEF JobFields
    <3> HIDE DEF new
    <3>3. CopyOf(job[r], job[r].step, file, damaged)
      BY <1>2, <3>1
    <3>4. CopyOf(new, new.step, file, damaged)
      BY <2>5, <3>1, <3>2, <3>3 DEF CopyOf
    <3> QED
      BY <1>3, <3>1, <3>2, <3>4
  <2>6. CASE ReadRecords(r) /\ IndexedRecords(file) # None
    <3> DEFINE new == [job[r] EXCEPT !.step = "commit", !.records = IndexedRecords(file)]
    <3>1. job' = [job EXCEPT ![r] = new] /\ index' = index /\ job[r].step = "read"
      BY <2>6 DEF ReadRecords, Becomes
    <3>2. /\ new.step = "commit" /\ new.hash = job[r].hash /\ new.stat = job[r].stat
          /\ new.records = IndexedRecords(file)
          /\ DOMAIN new = JobFields
      BY <2>1 DEF JobFields
    <3> HIDE DEF new
    <3>3. CopyOf(job[r], job[r].step, file, damaged)
      BY <1>2, <3>1
    <3>4. CopyOf(new, new.step, file, damaged)
      BY <3>1, <3>2, <3>3 DEF CopyOf, Current
    <3> QED
      BY <1>3, <3>1, <3>2, <3>4
  <2>7. CASE (Explain(r) /\ Critical(file) # {}) \/ (ReadRecords(r) /\ IndexedRecords(file) = None)
    <3>1. job' = [job EXCEPT ![r] = Idle] /\ index' = index
      BY <2>7 DEF Explain, ReadRecords, Becomes
    <3> QED
      BY <1>3, <2>9, <3>1
  <2>8. CASE Commit(r)
    <3>1. job' = [job EXCEPT ![r] = Idle] /\ job[r].step = "commit"
          /\ index' = [records |-> job[r].records, stat |-> job[r].stat, hash |-> job[r].hash]
      BY <2>8 DEF Commit, Becomes
    <3>3. CopyOf(job[r], "commit", file, damaged)
      BY <1>2, <3>1
    <3>4. index'.records = job[r].records /\ index'.stat = job[r].stat /\ index'.hash = job[r].hash
      BY <3>1
    <3>5. CopyOf(index', "commit", file, damaged)
      BY <3>3, <3>4 DEF CopyOf, Current
    <3> QED
      BY <2>9, <3>1, <3>5
  <2> QED
    BY <2>3, <2>4, <2>5, <2>6, <2>7, <2>8 DEF Rebuild
<1>5. DOMAIN job = Rebuilders
  BY <1>1 DEF JobShape
<1>6. \A s \in Rebuilders : job'[s] = IF s = r THEN new ELSE job[s]
  BY <1>4, <1>5
<1>7. JobShape'
  BY <1>1, <1>4, <1>6 DEF JobShape
<1>8. \A s \in Rebuilders : job'[s].step # "idle" => CopyOf(job'[s], job'[s].step, file', damaged')
  BY <1>1, <1>2, <1>4, <1>6
<1> QED
  BY <1>1, <1>4, <1>7, <1>8 DEF CopyInv

LEMMA NextCopy == Shape /\ Shape' /\ CopyInv /\ [SNext]_vars => CopyInv'
<1> SUFFICES ASSUME Shape, Shape', CopyInv, [SNext]_vars PROVE CopyInv'
  OBVIOUS
<1>1. CellInv /\ CellInv' /\ JobShape
  BY FileMoves DEF CopyInv
<1>2. CASE job' = job /\ index' \in {index, None}
  <2>1. JobShape'
    BY <1>1, <1>2 DEF JobShape
  <2>2. ASSUME NEW r \in Rebuilders, job'[r].step # "idle"
        PROVE  CopyOf(job'[r], job'[r].step, file', damaged')
    <3>1. CopyOf(job[r], job[r].step, file, damaged)
      BY <1>2, <2>2 DEF CopyInv
    <3> QED
      BY <1>1, <1>2, <3>1, CopyMoves
  <2>3. ASSUME index' # None PROVE CopyOf(index', "commit", file', damaged')
    <3>1. CopyOf(index, "commit", file, damaged) /\ index' = index
      BY <1>2, <2>3 DEF CopyInv
    <3> QED
      BY <1>1, <3>1, CopyMoves
  <2> QED
    BY <1>1, <2>1, <2>2, <2>3 DEF CopyInv
<1>3. CASE \E r \in Rebuilders : Rebuild(r) /\ UNCHANGED log
  BY <1>1, <1>3, RebuildCopy
<1> QED
  BY <1>2, <1>3 DEF SNext, vars, indexVars, Reset

---------------------------------------------------------------------------
(* An index that passes for current is the log *)

LEMMA WrittenIsFinite ==
  ASSUME NEW f \in Files
  PROVE  /\ IsFiniteSet(Written(f)) /\ Cardinality(Written(f)) \in Nat /\ Written(f) \subseteq 1..Len(f)
         /\ IsFiniteSet(Parsed(f)) /\ Cardinality(Parsed(f)) \in Nat /\ Parsed(f) \subseteq Written(f)
<1>1. Written(f) \subseteq 1..Len(f) /\ Parsed(f) \subseteq Written(f) /\ Len(f) \in Nat
  BY LinesAreLines DEF Written, Parsed
<1>2. IsFiniteSet(1..Len(f))
  BY <1>1, FS_Interval
<1> QED
  BY <1>1, <1>2, FS_Subset, FS_CardinalityType

\* CurrentIndexIsTheLog: whatever was appended to the log or changed in it between
\* the reads of a rebuild (rebuild_state), and whatever other rebuilds did, an index
\* that quick_current or `state verify` takes for current holds the records of the
\* log as it is, and that log has no critical anomaly.
THEOREM CurrentIndexHoldsTheLog == SSpec => []CurrentIndexIsTheLog
<1>1. Shape /\ CopyInv => CurrentIndexIsTheLog
  <2> SUFFICES ASSUME Shape, CopyInv, QuickCurrent \/ VerifyState(TRUE) = "ok"
               PROVE  /\ index.records = IndexedRecords(file) /\ Critical(file) = {}
                      /\ VerifyLog(file) = Len(index.records)
    BY DEF CurrentIndexIsTheLog
  <2>1. index # None /\ (index.hash = file \/ index.stat = Stat)
    BY DEF QuickCurrent, VerifyState
  <2>2. index.records = IndexedRecords(file) /\ Critical(file) = {}
    BY <2>1 DEF CopyInv, CopyOf, Current, Stat, StatOf
  <2>3. \A i \in Written(file) : Verifies(file[i])
    BY <2>2 DEF Critical, Malformed, BadSignature, Parsed
  <2>4. VerifyLog(file) = Cardinality(Written(file)) /\ Cardinality(Written(file)) \in Nat
    BY <2>3, WrittenIsFinite DEF VerifyLog, Shape
  <2>5. IndexedRecords(file) = [n \in 1..Cardinality(Written(file)) |->
          RowOf(InOrder(Written(file))[n], EntryAt(file, InOrder(Written(file))[n]))]
    BY <2>2 DEF IndexedRecords, Critical, InOrder
  <2>6. Len(IndexedRecords(file)) = Cardinality(Written(file))
    BY <2>4, <2>5
  <2> QED
    BY <2>2, <2>4, <2>6
<1> QED
  BY <1>1, InitLoss, NextShape, InitCopy, NextCopy, PTL DEF SSpec


---------------------------------------------------------------------------
(* The index and the log, when they hold the same, show the same *)

\* Lines in the order of the file: each of them once.
LEMMA InOrderIsAll ==
  ASSUME NEW S \in SUBSET Nat, IsFiniteSet(S)
  PROVE  InOrder(S) \in Bijection(1..Cardinality(S), S) /\ Cardinality(S) \in Nat
<1> DEFINE N == Cardinality(S)
           Upto(i) == {j \in S : j <= i}
           rank == [i \in S |-> Cardinality(Upto(i))]
<1>1. N \in Nat
  BY FS_CardinalityType
<1>2. ASSUME NEW i \in S PROVE IsFiniteSet(Upto(i)) /\ Cardinality(Upto(i)) \in 1..N
  <2>1. Upto(i) \in SUBSET S /\ i \in Upto(i)
    OBVIOUS
  <2>2. IsFiniteSet(Upto(i)) /\ Cardinality(Upto(i)) <= N
    BY <2>1, FS_Subset
  <2>3. Cardinality(Upto(i)) \in Nat /\ Cardinality(Upto(i)) # 0
    BY <2>1, <2>2, FS_CardinalityType, FS_EmptySet
  <2> QED
    BY <1>1, <2>2, <2>3
<1>3. ASSUME NEW i \in S, NEW k \in S, i < k PROVE Cardinality(Upto(i)) # Cardinality(Upto(k))
  <2>3. i \in Nat /\ k \in Nat
    OBVIOUS
  <2>4. k \in Upto(k) /\ k \notin Upto(i)
    BY <1>3, <2>3
  <2>5. \A j \in Upto(i) : j \in Upto(k)
    BY <1>3, <2>3
  <2>1. Upto(i) \in SUBSET Upto(k) /\ Upto(i) # Upto(k)
    <3> HIDE DEF Upto
    <3> QED
      BY <2>4, <2>5
  <2>2. IsFiniteSet(Upto(k))
    BY <1>2
  <2> HIDE DEF Upto
  <2> QED
    BY <2>1, <2>2, FS_Subset
<1>4. rank \in Injection(S, 1..N)
  <2>1. rank \in [S -> 1..N]
    BY <1>2
  <2>2. \A i, k \in S : rank[i] = rank[k] => i = k
    <3> SUFFICES ASSUME NEW i \in S, NEW k \in S, rank[i] = rank[k], i # k PROVE FALSE
      OBVIOUS
    <3>1. i < k \/ k < i
      OBVIOUS
    <3>2. Cardinality(Upto(i)) = Cardinality(Upto(k))
      OBVIOUS
    <3> HIDE DEF Upto, rank
    <3> QED
      BY <1>3, <3>1, <3>2
  <2> HIDE DEF rank, N
  <2> QED
    BY <2>1, <2>2, Fun_IsInj
<1>5. \A n \in 1..N : \E i \in S : rank[i] = n
  <2>1. IsFiniteSet(1..N) /\ Cardinality(1..N) = N
    BY <1>1, FS_Interval
  <2> HIDE DEF rank
  <2>2. rank \in Surjection(S, 1..N)
    <3>1. Cardinality(S) = Cardinality(1..N)
      BY <2>1
    <3> HIDE DEF N
    <3> QED
      BY <1>4, <2>1, <3>1, FS_Injection
  <2> HIDE DEF N
  <2> QED
    BY <2>2, Fun_SurjectionProperties
<1>6. ASSUME NEW n \in 1..N PROVE InOrder(S)[n] \in S /\ rank[InOrder(S)[n]] = n
  <2>1. InOrder(S)[n] = CHOOSE i \in S : Cardinality(Upto(i)) = n
    BY <1>6 DEF InOrder
  <2>2. \E i \in S : Cardinality(Upto(i)) = n
    BY <1>5
  <2> HIDE DEF Upto
  <2> QED
    BY <2>1, <2>2
<1>7. InOrder(S) \in [1..N -> S]
  <2>1. \E F : InOrder(S) = [n \in 1..N |-> F[n]]
    <3> DEFINE F == InOrder(S)
    <3>1. F = [n \in 1..N |-> CHOOSE i \in S : Cardinality({j \in S : j <= i}) = n]
      BY DEF InOrder
    <3>2. F = [n \in 1..N |-> F[n]]
      BY <3>1, Zenon
    <3> QED
      BY <3>2
  <2> HIDE DEF N
  <2> QED
    BY <1>6, <2>1
<1>8. \A m, n \in 1..N : InOrder(S)[m] = InOrder(S)[n] => m = n
  <2> HIDE DEF rank, N
  <2> QED
    BY <1>6
<1>9. \A i \in S : \E n \in 1..N : InOrder(S)[n] = i
  <2> SUFFICES ASSUME NEW i \in S PROVE InOrder(S)[rank[i]] = i /\ rank[i] \in 1..N
    OBVIOUS
  <2>1. rank[i] \in 1..N /\ \A k \in S : rank[k] = rank[i] => k = i
    <3> HIDE DEF rank, N
    <3>1. rank \in [S -> 1..N] /\ \A a, b \in S : rank[a] = rank[b] => a = b
      BY <1>4, Fun_InjectionProperties
    <3> QED
      BY <3>1
  <2> HIDE DEF rank, N
  <2> QED
    BY <1>6, <2>1
<1> HIDE DEF N, rank
<1>10. InOrder(S) \in Bijection(1..N, S)
  BY <1>7, <1>8, <1>9, Fun_IsBij
<1> QED
  BY <1>1, <1>10 DEF N

\* As many places of the order as there are lines in the part.
LEMMA CountInOrder ==
  ASSUME NEW S \in SUBSET Nat, IsFiniteSet(S), NEW A \in SUBSET S
  PROVE  Cardinality({n \in 1..Cardinality(S) : InOrder(S)[n] \in A}) = Cardinality(A)
<1> DEFINE N == Cardinality(S)
           g == InOrder(S)
           D == {n \in 1..N : g[n] \in A}
           h == [n \in D |-> g[n]]
<1>1. g \in Bijection(1..N, S) /\ N \in Nat
  BY InOrderIsAll
<1>2. /\ \A m, n \in 1..N : g[m] = g[n] => m = n
      /\ \A i \in S : \E n \in 1..N : g[n] = i
  <2> HIDE DEF g, N
  <2> QED
    BY <1>1, Fun_BijectionProperties
<1>3. IsFiniteSet(D)
  <2>1. IsFiniteSet(1..N) /\ D \in SUBSET (1..N)
    BY <1>1, FS_Interval
  <2> HIDE DEF D, N
  <2> QED
    BY <2>1, FS_Subset
<1>4. h \in Bijection(D, A)
  <2>1. h \in [D -> A] /\ \A m, n \in D : h[m] = h[n] => m = n
    BY <1>2
  <2>2. \A i \in A : \E n \in D : h[n] = i
    <3> SUFFICES ASSUME NEW i \in A PROVE \E n \in D : h[n] = i
      OBVIOUS
    <3>1. PICK n \in 1..N : g[n] = i
      BY <1>2
    <3> QED
      BY <3>1
  <2> HIDE DEF h, D
  <2> QED
    BY <2>1, <2>2, Fun_IsBij
<1>5. ExistsBijection(D, A)
  <2> HIDE DEF h, D
  <2> QED
    BY <1>4, Fun_ExistsBij
<1> HIDE DEF D
<1>6. Cardinality(A) = Cardinality(D)
  BY <1>3, <1>5, FS_Bijection
<1> QED
  BY <1>6 DEF D


\* What a row of the index says of its record.
LEMMA RowSays ==
  ASSUME NEW line, NEW entry
  PROVE  /\ RowOf(line, entry)["record_kind"] = "decision" <=> KindOf[entry.id] \in Decisions
         /\ RowOf(line, entry)["decision_kind"] = "allow" <=> KindOf[entry.id] \in {"allow"}
         /\ RowOf(line, entry)["decision_kind"] = "ask_picto" <=> KindOf[entry.id] \in {"ask_picto"}
         /\ RowOf(line, entry)["decision_kind"] = "gommage"
              <=> KindOf[entry.id] \in {"gommage", "hard_stop"}
         /\ RowOf(line, entry)["hard_stop"] = TRUE <=> KindOf[entry.id] \in {"hard_stop"}
         /\ \A t \in CountedEvents :
              RowOf(line, entry)["event_type"] = t <=> KindOf[entry.id] \in {t}
         /\ [line |-> RowOf(line, entry).line, id |-> RowOf(line, entry).raw.id,
             kind |-> RowOf(line, entry).record_kind, summary |-> RowOf(line, entry).summary]
              = StreamItem(line, entry)
<1> DEFINE kind == KindOf[entry.id]
           row == RowOf(line, entry)
<1>1. CASE Decides(entry)
  <2>1. row = IndexDecision(line, entry)
    BY <1>1 DEF RowOf
  <2>2. kind \in Decisions /\ kind \notin CountedEvents /\ None \notin CountedEvents
    BY <1>1, NoneIsNoKind DEF Decides, Decisions, CountedEvents
  <2> HIDE DEF kind, row
  <2>3. /\ row.line = line /\ row.raw = entry /\ row.record_kind = "decision" /\ row.summary = kind
        /\ row.decision_kind = IF kind = "hard_stop" THEN "gommage" ELSE kind
        /\ row.event_type = None
    BY <2>1 DEF IndexDecision, kind
  <2>4. row.hard_stop = (kind = "hard_stop")
    BY <2>1 DEF IndexDecision, kind
  <2>5. StreamItem(line, entry) = [line |-> line, id |-> entry.id, kind |-> "decision", summary |-> kind]
    BY <1>1 DEF StreamItem, kind
  <2> QED
    BY <2>2, <2>3, <2>4, <2>5 DEF kind, row
<1>2. CASE ~Decides(entry)
  <2>1. row = IndexEvent(line, entry)
    BY <1>2 DEF RowOf
  <2>2. kind \notin Decisions /\ None \notin Decisions
    BY <1>2, NoneIsNoKind DEF Decides
  <2> HIDE DEF kind, row
  <2>3. /\ row.line = line /\ row.raw = entry /\ row.record_kind = "event" /\ row.summary = kind
        /\ row.decision_kind = None /\ row.event_type = kind /\ row.hard_stop = FALSE
    BY <2>1 DEF IndexEvent, kind
  <2>4. StreamItem(line, entry) = [line |-> line, id |-> entry.id, kind |-> "event", summary |-> kind]
    BY <1>2 DEF StreamItem, kind
  <2> QED
    BY <2>2, <2>3, <2>4 DEF kind, row, Decisions
<1> QED
  BY <1>1, <1>2

\* The rows of a log whose every line parses.
LEMMA RowsAre ==
  ASSUME NEW f \in Files, Malformed(f) = {}
  PROVE  /\ Written(f) = Parsed(f)
         /\ IndexedRecords(f) = [n \in 1..Cardinality(Parsed(f)) |->
              RowOf(InOrder(Parsed(f))[n], EntryAt(f, InOrder(Parsed(f))[n]))]
         /\ Cardinality(Parsed(f)) \in Nat
         /\ \A n \in 1..Cardinality(Parsed(f)) : InOrder(Parsed(f))[n] \in Parsed(f)
         /\ Parsed(f) \in SUBSET Nat /\ IsFiniteSet(Parsed(f))
<1>1. Written(f) = Parsed(f)
  BY DEF Malformed, Parsed
<1>2. /\ Parsed(f) \in SUBSET Nat /\ IsFiniteSet(Parsed(f)) /\ Cardinality(Parsed(f)) \in Nat
  BY WrittenIsFinite, LinesAreLines
<1>3. InOrder(Parsed(f)) \in [1..Cardinality(Parsed(f)) -> Parsed(f)]
  BY <1>2, InOrderIsAll, Fun_BijectionProperties
<1>4. IndexedRecords(f) = [n \in 1..Cardinality(Parsed(f)) |->
        RowOf(InOrder(Parsed(f))[n], EntryAt(f, InOrder(Parsed(f))[n]))]
  BY <1>1 DEF IndexedRecords, InOrder
<1> QED
  BY <1>1, <1>2, <1>3, <1>4

RowsWith(f, column, value) ==
  Cardinality({i \in DOMAIN IndexedRecords(f) : IndexedRecords(f)[i][column] = value})

EntriesOf(f, set) == Cardinality({i \in Parsed(f) : KindOf[EntryAt(f, i).id] \in set})

\* The rows with a value in a column are the records of the kinds that get it.
LEMMA WhereIsOf ==
  ASSUME NEW f \in Files, Malformed(f) = {}, NEW column, NEW value, NEW set,
         \A line \in Parsed(f) :
           RowOf(line, EntryAt(f, line))[column] = value <=> KindOf[EntryAt(f, line).id] \in set
  PROVE  RowsWith(f, column, value) = EntriesOf(f, set)
<1> DEFINE P == Parsed(f)
           N == Cardinality(P)
           g == InOrder(P)
           A == {i \in P : KindOf[EntryAt(f, i).id] \in set}
           rows == IndexedRecords(f)
<1>1. DOMAIN rows = 1..N /\ \A n \in 1..N : g[n] \in P /\ rows[n] = RowOf(g[n], EntryAt(f, g[n]))
  BY RowsAre
<1>2. \A n \in 1..N : rows[n][column] = value <=> g[n] \in A
  BY <1>1
<1>3. {n \in DOMAIN rows : rows[n][column] = value} = {n \in 1..N : g[n] \in A}
  BY <1>1, <1>2
<1>4. A \in SUBSET P /\ P \in SUBSET Nat /\ IsFiniteSet(P)
  BY RowsAre
<1>5. Cardinality({n \in 1..N : g[n] \in A}) = Cardinality(A)
  <2> HIDE DEF P, A
  <2> QED
    BY <1>4, CountInOrder
<1> QED
  BY <1>3, <1>5 DEF RowsWith, EntriesOf

LEMMA CountersAreMetrics ==
  ASSUME NEW f \in Files, Malformed(f) = {}
  PROVE  Counters(IndexedRecords(f)) = AuditMetrics(f)
<1> DEFINE rows == IndexedRecords(f)
           Row(line) == RowOf(line, EntryAt(f, line))
<1>1. Len(rows) = Cardinality(Parsed(f))
  BY RowsAre
<1>2. RowsWith(f, "record_kind", "decision") = EntriesOf(f, Decisions)
  <2>1. \A line \in Parsed(f) : Row(line)["record_kind"] = "decision" <=> KindOf[EntryAt(f, line).id] \in Decisions
    BY RowSays
  <2> QED
    BY <2>1, WhereIsOf
<1>3. RowsWith(f, "decision_kind", "allow") = EntriesOf(f, {"allow"})
  <2>1. \A line \in Parsed(f) : Row(line)["decision_kind"] = "allow" <=> KindOf[EntryAt(f, line).id] \in {"allow"}
    BY RowSays
  <2> QED
    BY <2>1, WhereIsOf
<1>4. RowsWith(f, "decision_kind", "ask_picto") = EntriesOf(f, {"ask_picto"})
  <2>1. \A line \in Parsed(f) : Row(line)["decision_kind"] = "ask_picto" <=> KindOf[EntryAt(f, line).id] \in {"ask_picto"}
    BY RowSays
  <2> QED
    BY <2>1, WhereIsOf
<1>5. RowsWith(f, "decision_kind", "gommage") = EntriesOf(f, {"gommage", "hard_stop"})
  <2>1. \A line \in Parsed(f) : Row(line)["decision_kind"] = "gommage" <=> KindOf[EntryAt(f, line).id] \in {"gommage", "hard_stop"}
    BY RowSays
  <2> QED
    BY <2>1, WhereIsOf
<1>6. RowsWith(f, "hard_stop", TRUE) = EntriesOf(f, {"hard_stop"})
  <2>1. ASSUME NEW yes, yes = TRUE PROVE RowsWith(f, "hard_stop", yes) = EntriesOf(f, {"hard_stop"})
    <3>1. \A line \in Parsed(f) : Row(line)["hard_stop"] = yes <=> KindOf[EntryAt(f, line).id] \in {"hard_stop"}
      BY <2>1, RowSays
    <3> QED
      BY <3>1, WhereIsOf
  <2> QED
    BY <2>1
<1>7. ASSUME NEW t \in CountedEvents PROVE RowsWith(f, "event_type", t) = EntriesOf(f, {t})
  <2>1. \A line \in Parsed(f) : Row(line)["event_type"] = t <=> KindOf[EntryAt(f, line).id] \in {t}
    BY RowSays
  <2> QED
    BY <2>1, WhereIsOf
<1>8. Counters(rows) = [audit_entries |-> Len(rows),
        decisions |-> RowsWith(f, "record_kind", "decision"), allows |-> RowsWith(f, "decision_kind", "allow"),
        asks |-> RowsWith(f, "decision_kind", "ask_picto"), denies |-> RowsWith(f, "decision_kind", "gommage"),
        hard_stops |-> RowsWith(f, "hard_stop", TRUE),
        events |-> [t \in CountedEvents |-> RowsWith(f, "event_type", t)]]
  BY DEF Counters, RowsWith
<1>9. AuditMetrics(f) = [audit_entries |-> Cardinality(Parsed(f)),
        decisions |-> EntriesOf(f, Decisions), allows |-> EntriesOf(f, {"allow"}),
        asks |-> EntriesOf(f, {"ask_picto"}), denies |-> EntriesOf(f, {"gommage", "hard_stop"}),
        hard_stops |-> EntriesOf(f, {"hard_stop"}),
        events |-> [t \in CountedEvents |-> EntriesOf(f, {t})]]
  BY DEF AuditMetrics, EntriesOf
<1> HIDE DEF rows
<1>10. [t \in CountedEvents |-> RowsWith(f, "event_type", t)] = [t \in CountedEvents |-> EntriesOf(f, {t})]
  BY <1>7
<1> QED
  BY <1>1, <1>2, <1>3, <1>4, <1>5, <1>6, <1>8, <1>9, <1>10 DEF rows

LEMMA StreamsAreTheSame ==
  ASSUME NEW f \in Files, Malformed(f) = {}
  PROVE  LoadRecentItems(IndexedRecords(f)) = RecentItems(f)
<1> DEFINE rows == IndexedRecords(f)
           P == Parsed(f)
           N == Cardinality(P)
           g == InOrder(P)
<1>1. DOMAIN rows = 1..N /\ \A n \in 1..N : rows[n] = RowOf(g[n], EntryAt(f, g[n]))
  BY RowsAre
<1>2. DOMAIN g = 1..N
  BY DEF InOrder
<1> HIDE DEF rows, N, g
<1>3. ASSUME NEW n \in 1..N
      PROVE  [line |-> rows[n].line, id |-> rows[n].raw.id, kind |-> rows[n].record_kind,
              summary |-> rows[n].summary] = StreamItem(g[n], EntryAt(f, g[n]))
  <2>1. rows[n] = RowOf(g[n], EntryAt(f, g[n]))
    BY <1>1
  <2> DEFINE row == RowOf(g[n], EntryAt(f, g[n]))
  <2>2. [line |-> row.line, id |-> row.raw.id, kind |-> row.record_kind, summary |-> row.summary]
          = StreamItem(g[n], EntryAt(f, g[n]))
    BY RowSays, Zenon
  <2> HIDE DEF row
  <2> QED
    BY <2>1, <2>2 DEF row
<1>4. [n \in DOMAIN rows |-> [line |-> rows[n].line, id |-> rows[n].raw.id,
                              kind |-> rows[n].record_kind, summary |-> rows[n].summary]]
        = [n \in DOMAIN g |-> StreamItem(g[n], EntryAt(f, g[n]))]
  BY <1>1, <1>2, <1>3
<1> QED
  BY <1>4 DEF LoadRecentItems, RecentItems, rows, g, P

\* SourcesAgree: the console counts and shows the same whether it reads a current
\* index (load_counters, load_recent_items) or the log (add_audit_metrics,
\* recent_stream_items), which is what lets it take either.
THEOREM IndexAndLogAgree == SSpec => []SourcesAgree
<1>1. Shape /\ CopyInv => SourcesAgree
  <2> SUFFICES ASSUME Shape, CopyInv, QuickCurrent
               PROVE  /\ Counters(index.records) = AuditMetrics(file)
                      /\ LoadRecentItems(index.records) = RecentItems(file)
    BY DEF SourcesAgree
  <2>1. index # None /\ index.stat = Stat
    BY DEF QuickCurrent
  <2>2. index.records = IndexedRecords(file) /\ Malformed(file) = {}
    BY <2>1 DEF CopyInv, CopyOf, Current, Stat, StatOf, Critical
  <2>3. file \in Files
    BY DEF Shape
  <2> QED
    BY <2>2, <2>3, CountersAreMetrics, StreamsAreTheSame
<1> QED
  BY <1>1, InitLoss, NextShape, InitCopy, NextCopy, PTL DEF SSpec


---------------------------------------------------------------------------
(* What a view shows, with one rebuild at a time *)

OneRebuilder == \A r, s \in Rebuilders : r = s

Copied(c) == c.records = IndexedRecords(file) /\ Malformed(file) = {}

\* While a view loads the index, the rows it has and those a rebuild is about to
\* give it have been the log's since the check.
ViewInv ==
  /\ index # None /\ index.stat = StatOf(file, damaged) =>
       \A r \in Rebuilders : job[r].step = "commit" => Copied(job[r])
  /\ view.step = "load" =>
       /\ index # None => LoadRecentItems(index.records) \in seen
       /\ \A r \in Rebuilders : job[r].step = "commit" => LoadRecentItems(job[r].records) \in seen

LEMMA CopiedItems ==
  ASSUME Shape, NEW c, Copied(c)
  PROVE  LoadRecentItems(c.records) = RecentItems(file)
  BY StreamsAreTheSame DEF Shape, Copied

\* ReadRecords gives a rebuild the rows of the log as it is.
LEMMA ReadCopies ==
  ASSUME JobShape, NEW r \in Rebuilders, ReadRecords(r), job'[r].step = "commit"
  PROVE  job'[r].records = IndexedRecords(file) /\ Malformed(file) = {}
<1>1. IndexedRecords(file) # None
  <2> SUFFICES ASSUME IndexedRecords(file) = None PROVE FALSE
    OBVIOUS
  <2>1. job'[r] = Idle
    BY DEF ReadRecords, Becomes, JobShape
  <2> QED
    BY <2>1 DEF Idle
<1>2. Malformed(file) = {}
  BY <1>1 DEF IndexedRecords
<1>3. job'[r] = [job[r] EXCEPT !.step = "commit", !.records = IndexedRecords(file)]
  BY <1>1 DEF ReadRecords, Becomes, JobShape
<1>4. job'[r].records = IndexedRecords(file)
  BY <1>3 DEF JobShape, JobFields
<1> QED
  BY <1>2, <1>4

\* Where each step may leave a rebuild ready to commit.
LEMMA WhoCommits ==
  ASSUME JobShape, [SNext]_vars, NEW r \in Rebuilders, job'[r].step = "commit"
  PROVE  \/ job'[r] = job[r]
         \/ ReadRecords(r) /\ UNCHANGED <<log, view, index>>
<1>1. CASE job' = job
  BY <1>1
<1>2. CASE \E s \in Rebuilders : Rebuild(s) /\ UNCHANGED <<log, view>>
  <2>1. PICK s \in Rebuilders : Rebuild(s) /\ UNCHANGED <<log, view>>
    BY <1>2
  <2>2. CASE s # r
    <3>1. \A new : Becomes(s, new) => job'[r] = job[r]
      BY <2>2 DEF Becomes, JobShape
    <3> QED
      BY <2>1, <3>1 DEF Rebuild, ReadBytes, StatLog, Explain, ReadRecords, Commit
  <2>3. CASE s = r /\ ~ReadRecords(r)
    <3>1. \A new : Becomes(r, new) => job'[r] = new
      BY DEF Becomes, JobShape
    <3>2. DOMAIN job[r] = JobFields
      BY DEF JobShape
    <3>3. /\ [Idle EXCEPT !.step = "stat", !.hash = file].step = "stat"
          /\ [job[r] EXCEPT !.step = "explain", !.stat = Stat].step = "explain"
          /\ [job[r] EXCEPT !.step = "read"].step = "read"
          /\ Idle.step = "idle"
      BY <3>2 DEF Idle, JobFields
    <3>4. job'[r].step # "commit"
      BY <2>1, <2>3, <3>1, <3>3 DEF Rebuild, ReadBytes, StatLog, Explain, Commit
    <3> QED
      BY <3>4
  <2> QED
    BY <2>1, <2>2, <2>3 DEF ReadRecords
<1> QED
  BY <1>1, <1>2 DEF SNext, vars, indexVars, Reset

LEMMA InitView == SInit => ViewInv
  BY DEF SInit, ViewInv

LEMMA NextView ==
  ASSUME OneRebuilder
  PROVE  Shape /\ Shape' /\ CopyInv /\ ViewInv /\ [SNext]_vars => ViewInv'
<1> SUFFICES ASSUME Shape, Shape', CopyInv, ViewInv, [SNext]_vars PROVE ViewInv'
  OBVIOUS
<1>1. CellInv /\ JobShape
  BY DEF CopyInv
<1>2. index' = index \/ index' = None \/ \E r \in Rebuilders : Commit(r) /\ UNCHANGED <<log, view>>
  BY DEF SNext, vars, indexVars, Reset, Rebuild, ReadBytes, StatLog, Explain, ReadRecords
<1>3. ASSUME NEW r \in Rebuilders, Commit(r)
      PROVE  /\ \A s \in Rebuilders : job'[s].step # "commit"
             /\ job[r].step = "commit" /\ index'.records = job[r].records
  <2>1. job'[r] = Idle
    BY <1>1, <1>3 DEF Commit, Becomes, JobShape
  <2>2. \A s \in Rebuilders : s = r
    BY DEF OneRebuilder
  <2> QED
    BY <1>3, <2>1, <2>2 DEF Commit, Idle
<1>4. ASSUME index' # None, index'.stat = StatOf(file', damaged'),
             NEW r \in Rebuilders, job'[r].step = "commit"
      PROVE  job'[r].records = IndexedRecords(file') /\ Malformed(file') = {}
  <2>1. index' = index
    BY <1>2, <1>3, <1>4
  <2>2. Older(index.stat, file, damaged)
    BY <1>4, <2>1 DEF CopyInv, CopyOf
  <2>3. file' = file /\ damaged' = damaged
    BY <1>1, <1>4, <2>1, <2>2, StatMoves
  <2>4. CASE job'[r] = job[r]
    BY <1>4, <2>1, <2>3, <2>4 DEF ViewInv, Copied
  <2>5. CASE ReadRecords(r)
    BY <1>1, <1>4, <2>3, <2>5, ReadCopies
  <2> QED
    BY <1>1, <1>4, <2>4, <2>5, WhoCommits
<1>5. ASSUME view'.step = "load"
      PROVE  /\ index' # None => LoadRecentItems(index'.records) \in seen'
             /\ \A r \in Rebuilders : job'[r].step = "commit" => LoadRecentItems(job'[r].records) \in seen'
  <2>1. CASE view.step = "load"
    <3>1. seen \subseteq seen' /\ (seen' = seen \/ RecentItems(file') \in seen')
      BY <1>5 DEF SNext, Watch, vars
    <3>2. ASSUME index' # None PROVE LoadRecentItems(index'.records) \in seen'
      BY <1>2, <1>3, <2>1, <3>1, <3>2 DEF ViewInv
    <3>3. ASSUME NEW r \in Rebuilders, job'[r].step = "commit"
          PROVE  LoadRecentItems(job'[r].records) \in seen'
      <4>1. CASE job'[r] = job[r]
        BY <2>1, <3>1, <3>3, <4>1 DEF ViewInv
      <4>2. CASE ReadRecords(r) /\ UNCHANGED <<log, view, index>> /\ job'[r] # job[r]
        <5>1. file' = file /\ RecentItems(file') \in seen'
          BY <1>5, <4>2 DEF log, SNext, Watch, vars, indexVars
        <5>2. LoadRecentItems(job'[r].records) = RecentItems(file)
          BY <1>1, <3>3, <4>2, ReadCopies, StreamsAreTheSame DEF Shape
        <5> QED
          BY <5>1, <5>2
      <4> QED
        BY <1>1, <3>3, <4>1, <4>2, WhoCommits
    <3> QED
      BY <3>2, <3>3
  <2>2. CASE view.step # "load"
    <3>1. CheckIndex /\ UNCHANGED <<log, indexVars>> /\ QuickCurrent /\ seen' = seen \union {RecentItems(file')}
      <4>1. view' # view
        BY <1>5, <2>2
      <4>2. /\ AskDaemon \/ CheckIndex \/ LoadItems \/ ScanLog
            /\ UNCHANGED <<log, indexVars>> /\ Watch
        BY <4>1 DEF SNext, vars
      <4>3. /\ \A items : Show(items) => view'.step = "done"
            /\ \A to : Turn(to) => view'.step = to
        BY DEF Show, Turn
      <4>4. CheckIndex /\ QuickCurrent
        BY <1>5, <4>2, <4>3 DEF AskDaemon, CheckIndex, LoadItems, ScanLog
      <4> QED
        BY <1>5, <4>2, <4>4 DEF Watch
    <3>2. /\ file' = file /\ index' = index /\ job' = job /\ RecentItems(file) \in seen'
          /\ index # None /\ index.stat = StatOf(file, damaged)
      BY <3>1 DEF log, indexVars, QuickCurrent, Stat, StatOf
    <3>3. Copied(index)
      BY <3>2 DEF CopyInv, CopyOf, Current, Critical, Copied
    <3>4. \A r \in Rebuilders : job[r].step = "commit" => Copied(job[r])
      BY <3>2 DEF ViewInv
    <3> QED
      BY <3>2, <3>3, <3>4, CopiedItems
  <2> QED
    BY <2>1, <2>2
<1> QED
  BY <1>4, <1>5 DEF ViewInv, Copied

\* ViewIsOfTheLog, for any number of writers and views of any length: where no two
\* rebuilds run at once, the rows a view ends up with are those the log would have
\* given it at some moment since it found the index current (load_stream_snapshot).
THEOREM ViewsAreOfTheLog == OneRebuilder => (SSpec => ViewIsOfTheLog)
<1> SUFFICES ASSUME OneRebuilder PROVE SSpec => ViewIsOfTheLog
  OBVIOUS
<1> DEFINE Step == view.step # "done" /\ view'.step = "done" =>
                     view'.items \in seen \union {RecentItems(file)}
<1>1. Shape /\ ViewInv /\ [SNext]_vars => [Step]_vars
  <2> SUFFICES ASSUME ViewInv, SNext, view.step # "done", view'.step = "done"
               PROVE  view'.items \in seen \union {RecentItems(file)}
    OBVIOUS
  <2>1. LoadItems \/ ScanLog
    <3>1. view' # view
      OBVIOUS
    <3>2. AskDaemon \/ CheckIndex \/ LoadItems \/ ScanLog
      BY <3>1 DEF SNext
    <3>3. \A to : Turn(to) => view'.step = to
      BY DEF Turn
    <3> QED
      BY <3>2, <3>3 DEF AskDaemon, CheckIndex
  <2>2. \A items : Show(items) => view'.items = items
    BY DEF Show
  <2>3. \A to : Turn(to) => view'.step = to
    BY DEF Turn
  <2>4. CASE ScanLog
    BY <2>2, <2>4 DEF ScanLog
  <2>5. CASE LoadItems
    <3>1. index # None /\ Show(LoadRecentItems(index.records)) /\ view.step = "load"
      BY <2>3, <2>5 DEF LoadItems
    <3> QED
      BY <2>2, <3>1 DEF ViewInv
  <2> QED
    BY <2>1, <2>4, <2>5
<1>2. Shape /\ Shape' /\ CopyInv /\ ViewInv /\ [SNext]_vars => ViewInv'
  BY NextView
<1> QED
  BY <1>1, <1>2, InitLoss, NextShape, InitCopy, NextCopy, InitView, PTL DEF SSpec, ViewIsOfTheLog


=============================================================================
