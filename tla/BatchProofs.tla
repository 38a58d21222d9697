---------------------------- MODULE BatchProofs ----------------------------
(***************************************************************************)
(* Proofs about Batch, for scripts of every length.                        *)
(***************************************************************************)
EXTENDS Batch, WellFoundedInduction, TLAPS

(* Facts about the operators of the model.                                  *)

\* Every set of naturals that is not empty has a least element.  Induction over
\* a script is stated with it: a set of counterexamples has a first one.
LEMMA Least ==
    ASSUME NEW T \in SUBSET Nat, T # {}
    PROVE  \E x \in T : \A y \in T : x <= y
<1> DEFINE R == OpToRel(<, Nat)
<1>1. IsWellFoundedOn(R, Nat)
  BY NatLessThanWellFounded
<1>2. \A x, y \in Nat : <<y, x>> \in R <=> y < x
  BY DEF OpToRel
<1> HIDE DEF R
<1>3. \E x \in T : \A y \in T : ~(<<y, x>> \in R)
  BY <1>1, WFMin
<1>4. PICK x \in T : \A y \in T : ~(<<y, x>> \in R)
  BY <1>3, Zenon
<1>5. \A y \in T : ~(y < x)
  BY <1>2, <1>4, Zenon
<1>6. \A y \in T : x <= y
  BY <1>5
<1> QED
  BY <1>6, Zenon

\* The recursive definition of the reading of a script satisfies its equation.
LEMMA ModeDef ==
    ASSUME Len(sql) \in Nat
    PROVE  Mode = [i \in 0..Len(sql) |->
                      IF i = 0 THEN "code" ELSE ModeAfter(Mode[i - 1], sql[i])]
<1> DEFINE D(g, n) == [i \in 0..n |->
                          IF i = 0 THEN "code" ELSE ModeAfter(g[i - 1], sql[i])]
           T == {n \in 0..Len(sql) : ~\E g : g = D(g, n)}
<1>1. ASSUME T # {} PROVE FALSE
  <2>0. T \in SUBSET Nat
    OBVIOUS
  <2>1. PICK n \in T : \A y \in T : n <= y
    <3> HIDE DEF T
    <3> QED
      BY <1>1, <2>0, Least
  <2>2. CASE n = 0
    <3> DEFINE g == [i \in 0..0 |-> "code"]
    <3>1. g = D(g, 0)
      OBVIOUS
    <3> QED
      BY <2>1, <2>2, <3>1
  <2>3. CASE n # 0
    <3>1. n \in Nat \ {0} /\ n - 1 \in 0..Len(sql) /\ n - 1 \notin T
      <4>1. n \in 0..Len(sql)
        BY Zenon
      <4>2. n \in Nat \ {0} /\ n - 1 \in 0..Len(sql) /\ ~(n <= n - 1)
        BY <2>3, <4>1
      <4> HIDE DEF T
      <4> QED
        BY <2>1, <4>2, Zenon
    <3>2. PICK g : g = D(g, n - 1)
      BY <3>1
    <3> DEFINE h == [i \in 0..n |-> IF i < n THEN g[i] ELSE ModeAfter(g[n - 1], sql[n])]
    <3>3. ASSUME NEW i \in 0..n
          PROVE  h[i] = IF i = 0 THEN "code" ELSE ModeAfter(h[i - 1], sql[i])
      BY <3>1, <3>2
    <3>4. h = D(h, n)
      BY <3>3
    <3> QED
      BY <2>1, <3>4
  <2> QED
    BY <2>2, <2>3
<1>2. \E g : g = D(g, Len(sql))
  BY <1>1
<1>3. Mode = CHOOSE g : g = D(g, Len(sql))
  BY DEF Mode
<1> QED
  BY <1>2, <1>3

\* What the reading does with one symbol.
LEMMA ModeStep ==
    ASSUME sql \in Seq(Symbols)
    PROVE  /\ Mode[0] = "code"
           /\ \A i \in 0..(Len(sql) - 1) : Mode[i + 1] = ModeAfter(Mode[i], Sym(i))
<1>1. Len(sql) \in Nat
  OBVIOUS
<1>2. Mode = [i \in 0..Len(sql) |->
                 IF i = 0 THEN "code" ELSE ModeAfter(Mode[i - 1], sql[i])]
  BY <1>1, ModeDef
<1>3. Mode[0] = "code"
  BY <1>1, <1>2
<1>4. ASSUME NEW i \in 0..(Len(sql) - 1)
      PROVE  Mode[i + 1] = ModeAfter(Mode[i], Sym(i))
  <2>1. Mode[i + 1] = ModeAfter(Mode[(i + 1) - 1], sql[i + 1])
    BY <1>1, <1>2
  <2>2. (i + 1) - 1 = i /\ Sym(i) = sql[i + 1]
    BY <1>1 DEF Sym
  <2> QED
    BY <2>1, <2>2
<1> QED
  BY <1>3, <1>4

\* The reading stays in code where nothing else begins.
LEMMA ModeStays ==
    ASSUME sql \in Seq(Symbols), NEW a \in Nat, NEW b \in a..Len(sql),
           Mode[a] = "code",
           \A x \in a..(b - 1) : Sym(x) \notin {"'", "--", "/*"}
    PROVE  Mode[b] = "code"
<1> DEFINE T == {x \in a..b : Mode[x] # "code"}
<1>1. ASSUME T # {} PROVE FALSE
  <2>0. T \in SUBSET Nat
    OBVIOUS
  <2>1. PICK n \in T : \A y \in T : n <= y
    <3> HIDE DEF T
    <3> QED
      BY <1>1, <2>0, Least
  <2>2. n # a /\ n \in a..b
    OBVIOUS
  <2>3. n - 1 \in a..(b - 1) /\ n - 1 \in 0..(Len(sql) - 1) /\ n - 1 \in a..b
    BY <2>2
  <2>4. n - 1 \notin T
    BY <2>1, <2>3
  <2>5. Mode[n - 1] = "code"
    BY <2>3, <2>4
  <2>6. Mode[(n - 1) + 1] = ModeAfter(Mode[n - 1], Sym(n - 1))
    BY <2>3, ModeStep
  <2>7. Mode[n] = "code"
    BY <2>2, <2>3, <2>5, <2>6 DEF ModeAfter
  <2> QED
    BY <2>7
<1> QED
  BY <1>1

\* The recursive definition of the value of a run of digits satisfies its
\* equation, and the value is a natural number.
LEMMA NumberIsNat ==
    ASSUME NEW i \in Nat, NEW j \in Nat, i <= j
    PROVE  Number(i, j) \in Nat
<1> DEFINE D(g, n) == [k \in i..n |->
                          IF k = i THEN 0 ELSE 10 * g[k - 1] + Digit(Sym(k - 1))]
           T == {n \in i..j : ~\E g : g = D(g, n)}
           N == CHOOSE g : g = D(g, j)
           U == {n \in i..j : N[n] \notin Nat}
<1>0. \A x : Digit(x) \in Nat
  BY DEF Digit
<1>1. ASSUME T # {} PROVE FALSE
  <2>0. T \in SUBSET Nat
    OBVIOUS
  <2>1. PICK n \in T : \A y \in T : n <= y
    <3> HIDE DEF T
    <3> QED
      BY <1>1, <2>0, Least
  <2>2. CASE n = i
    <3> DEFINE g == [k \in i..i |-> 0]
    <3>1. g = D(g, i)
      OBVIOUS
    <3> QED
      BY <2>1, <2>2, <3>1
  <2>3. CASE n # i
    <3>1. n \in Nat /\ n > i /\ n - 1 \in i..j /\ n - 1 \notin T
      <4>1. n \in i..j
        BY Zenon
      <4>2. n \in Nat /\ n > i /\ n - 1 \in i..j /\ ~(n <= n - 1)
        BY <2>3, <4>1
      <4> HIDE DEF T
      <4> QED
        BY <2>1, <4>2, Zenon
    <3>2. PICK g : g = D(g, n - 1)
      BY <3>1
    <3> DEFINE h == [k \in i..n |-> IF k < n THEN g[k]
                                    ELSE 10 * g[n - 1] + Digit(Sym(n - 1))]
    <3>3. ASSUME NEW k \in i..n
          PROVE  h[k] = IF k = i THEN 0 ELSE 10 * h[k - 1] + Digit(Sym(k - 1))
      BY <3>1, <3>2
    <3>4. h = D(h, n)
      BY <3>3
    <3> QED
      BY <2>1, <3>4
  <2> QED
    BY <2>2, <2>3
<1>2. j \in i..j
  OBVIOUS
<1>3. \E g : g = D(g, j)
  BY <1>1, <1>2
<1>4. N = D(N, j)
  BY <1>3
<1>5. Number(i, j) = N[j]
  BY DEF Number
<1> HIDE DEF N
<1>6. ASSUME U # {} PROVE FALSE
  <2>0. U \in SUBSET Nat
    OBVIOUS
  <2>1. PICK n \in U : \A y \in U : n <= y
    <3> HIDE DEF U
    <3> QED
      BY <1>6, <2>0, Least
  <2>2. n \in i..j /\ N[n] \notin Nat
    OBVIOUS
  <2>3. n # i
    BY <1>4, <2>2
  <2>4. n - 1 \in i..j /\ ~(n <= n - 1)
    BY <2>2, <2>3
  <2>5. N[n - 1] \in Nat
    BY <2>1, <2>4
  <2>6. N[n] = 10 * N[n - 1] + Digit(Sym(n - 1))
    BY <1>4, <2>2, <2>3
  <2> QED
    BY <1>0, <2>2, <2>5, <2>6
<1> QED
  BY <1>5, <1>6, <1>2

\* First is the first index with a symbol of the set.
LEMMA FirstIs ==
    ASSUME sql \in Seq(Symbols), NEW k \in 0..Len(sql), NEW S
    PROVE  /\ First(k, S) \in k..Len(sql)
           /\ \A j \in k..(First(k, S) - 1) : Sym(j) \notin S
           /\ First(k, S) < Len(sql) => Sym(First(k, S)) \in S
<1> DEFINE T == {i \in k..(Len(sql) - 1) : Sym(i) \in S}
<1>1. CASE T = {}
  <2>1. First(k, S) = Len(sql)
    BY <1>1 DEF First
  <2> QED
    BY <1>1, <2>1
<1>2. CASE T # {}
  <2>0. T \in SUBSET Nat
    OBVIOUS
  <2>1. PICK n \in T : \A y \in T : n <= y
    <3> HIDE DEF T
    <3> QED
      BY <1>2, <2>0, Least
  <2>2. /\ n \in k..(Len(sql) - 1)
        /\ Sym(n) \in S /\ \A j \in k..(n - 1) : Sym(j) \notin S
    BY <2>1
  <2>3. First(k, S) = CHOOSE i \in k..(Len(sql) - 1) :
                         Sym(i) \in S /\ \A j \in k..(i - 1) : Sym(j) \notin S
    BY <2>2, Zenon DEF First
  <2>4. /\ First(k, S) \in k..(Len(sql) - 1)
        /\ Sym(First(k, S)) \in S /\ \A j \in k..(First(k, S) - 1) : Sym(j) \notin S
    BY <2>2, <2>3, Zenon
  <2> QED
    BY <2>4
<1> QED
  BY <1>1, <1>2

(* The inductive invariant.                                                 *)

\* Split has gone past the last symbol, or returned.
Over == state \in {"end", "done"}

\* stateSep is called at a separator only.  When it gives up at the end of the
\* script, there is no newline after the separator.
SepInv ==
    /\ state = "sep" => Sym(at) = "GO"
    /\ state = "end" /\ at < Len(sql) =>
          Sym(at) = "GO" /\ \A j \in at..(Len(sql) - 1) : Sym(j) \notin NL

\* The batches are in order and before Start, and a symbol that they leave out
\* up to there was in the line of a separator or left out by AddCurrent.
BatchInv ==
    /\ \A i \in 1..Len(batch) : \A p \in batch[i] : p < start
    /\ \A i, j \in 1..Len(batch) : i < j => InOrder(batch[i], batch[j])
    /\ \A p \in 0..(Len(sql) - 1) : p < start \/ state = "done" =>
          InBatch(p) \/ OnSeparatorLine(p) \/ LeftOut(p)

\* lexer.Skip has indices of escaped newlines from Start on.
SkipFrom ==
    \A q \in skip : \E e \in start..(at - 1) :
       EscapeAt(e) /\ q \in e..(e + EscapeLen(e) - 1)

\* What a state function takes the symbol at At for.
ReadsAs(s) == IF s \in {"sep", "text", "ws"} THEN "code" ELSE s

\* Up to the first cut, and beyond it in a clean script, the lexer is in step
\* with the reading of the script.
InStep ==
    Clean \/ cuts = <<>> =>
        /\ ~Over => Mode[at] = ReadsAs(state)
        /\ state = "end" /\ at < Len(sql) => Mode[at] = "code"

\* Up to the first cut, the indices to skip are those of the escaped newlines.
\* The lexer is never between the backslash and the end of the newline.
SkipInv ==
    cuts = <<>> =>
        /\ state # "done" /\ start = 0 /\ batch = <<>>
        /\ skip = {i \in 0..(Smaller(at, Len(sql)) - 1) : Escape(i)}
        /\ state = "string" => ~Escaped(at)

\* The first batch.
FirstInv ==
    cuts # <<>> =>
        LET want == {i \in 0..(cuts[1].to - 1) : ~Escape(i)}
        IN  want # {} /\ cuts[1].times > 0 => batch # <<>> /\ batch[1] = want

\* In a clean script every separator alone on its line up to At was cut at, and
\* only stateWhitespace and stateSep are where such a line may begin.
AloneInv ==
    Clean =>
        /\ \A i \in 0..(Len(sql) - 1) : (i < at \/ Over) /\ Alone(i) => i \in Cut
        /\ \A i \in Cut : i = Len(sql) \/ (Sym(i) = "GO" /\ Mode[i] = "code")
        /\ state \in {"line", "block", "string"} => ~Begins(at)
        /\ \A i \in {at} : state = "text" => ~Alone(i) /\ (Begins(i) => Sym(i) # "sp")

IInv ==
    /\ TypeOK
    /\ sql # <<>> => /\ SepInv /\ BatchInv /\ SkipFrom
                     /\ InStep /\ SkipInv /\ FirstInv /\ AloneInv
    /\ sql = <<>> => state = "done"

-----------------------------------------------------------------------------
(* Steps.                                                                   *)

\* What depends on the script alone does not change: no state function writes
\* to lexer.Sql.
LEMMA SameScript ==
    ASSUME sql' = sql
    PROVE  /\ Mode' = Mode /\ (Clean' <=> Clean)
           /\ \A i : /\ Sym(i)' = Sym(i) /\ (Escape(i)' <=> Escape(i))
                    /\ (Escaped(i)' <=> Escaped(i)) /\ (EscapeAt(i)' <=> EscapeAt(i))
                    /\ EscapeLen(i)' = EscapeLen(i)
                    /\ (Alone(i)' <=> Alone(i)) /\ (Begins(i)' <=> Begins(i))
<1>1. Mode' = Mode
  BY DEF Mode
<1>2. \A i : Sym(i)' = Sym(i)
  BY DEF Sym
<1>3. \A i, S : First(i, S)' = First(i, S)
  BY DEF First, Sym
<1>4. Clean' <=> Clean
  <2>1. \A i : Line(i)' = Line(i)
    BY <1>3 DEF Line
  <2>2. \A i : CleanLine(i)' <=> CleanLine(i)
    BY <1>2, <2>1 DEF CleanLine
  <2> QED
    BY <1>1, <1>2, <2>2 DEF Clean
<1>5. \A i : Begins(i)' <=> Begins(i)
  BY <1>1, <1>2 DEF Begins
<1>6. \A i : Alone(i)' <=> Alone(i)
  <2>1. \A i, j : Number(i, j)' = Number(i, j)
    BY DEF Number, Sym
  <2>2. \A i : Fits(i)' <=> Fits(i)
    BY <1>2, <1>3, <2>1 DEF Fits
  <2> QED
    BY <1>1, <1>2, <1>3, <1>5, <2>2 DEF Alone
<1>7. \A i : (EscapeAt(i)' <=> EscapeAt(i)) /\ EscapeLen(i)' = EscapeLen(i)
  BY <1>2 DEF EscapeAt, EscapeLen
<1>8. \A i : Escaped(i)' <=> Escaped(i)
  BY <1>1, <1>7 DEF Escaped
<1>9. \A i : Escape(i)' <=> Escape(i)
  BY <1>1, <1>7, <1>8 DEF Escape
<1> QED
  BY <1>1, <1>2, <1>4, <1>5, <1>6, <1>7, <1>8, <1>9

\* Where the lexer is.
LEMMA Places ==
    ASSUME TypeOK
    PROVE  /\ MaxLen \in Nat /\ sql \in Seq(Symbols)
           /\ Len(sql) \in Nat /\ Len(sql) <= MaxLen
           /\ at \in 0..(Len(sql) + 1) /\ at \in Nat
           /\ start \in 0..(Len(sql) + 1) /\ start \in Nat
           /\ state \in {"sep", "text"} => at < Len(sql)
           /\ state \notin {"end", "done"} => at <= Len(sql)
           /\ state # "done" => start <= at /\ start <= Len(sql)
<1>1. /\ MaxLen \in Nat /\ sql \in Seq(Symbols) /\ Len(sql) <= MaxLen
      /\ at \in 0..(Len(sql) + 1) /\ start \in 0..(Len(sql) + 1)
      /\ state \in {"sep", "text"} => at < Len(sql)
      /\ state \notin {"end", "done"} => at <= Len(sql)
      /\ state # "done" => start <= Smaller(at, Len(sql))
  BY MaxLenAssumption, Zenon DEF TypeOK
<1>2. Len(sql) \in Nat /\ at \in Nat /\ start \in Nat
  BY <1>1
<1>3. state # "done" => start <= at /\ start <= Len(sql)
  BY <1>1, <1>2 DEF Smaller
<1> QED
  BY <1>1, <1>2, <1>3, Zenon

\* A step that does not cut leaves the batches, the cuts and Start as they are.
LEMMA NoCut ==
    ASSUME IInv, sql # <<>>, state # "done", state' # "done",
           UNCHANGED <<sql, cuts, batch, start>>
    PROVE  BatchInv' /\ FirstInv'
<1>1. sql' = sql /\ cuts' = cuts /\ batch' = batch /\ start' = start /\ state' # "done"
  OBVIOUS
<1>2. \A i : /\ Sym(i)' = Sym(i) /\ (Escape(i)' <=> Escape(i))
             /\ (EscapeAt(i)' <=> EscapeAt(i)) /\ EscapeLen(i)' = EscapeLen(i)
  BY <1>1, SameScript
<1>3. \A p : (InBatch(p)' <=> InBatch(p)) /\ (OnSeparatorLine(p)' <=> OnSeparatorLine(p))
  BY <1>1, <1>2 DEF InBatch, OnSeparatorLine, Cut
<1>4. \A p : LeftOut(p)' <=> LeftOut(p)
  BY <1>1, <1>2 DEF LeftOut
<1>5. BatchInv'
  BY <1>1, <1>3, <1>4 DEF IInv, BatchInv
<1>6. FirstInv'
  BY <1>1, <1>2 DEF IInv, FirstInv
<1> QED
  BY <1>5, <1>6

\* A move leaves the indices to skip as they are, too.
LEMMA MovesKeep ==
    ASSUME IInv, TypeOK, sql # <<>>, state # "done",
           NEW n \in Nat, NEW s, s # "done", Moves(n, s)
    PROVE  BatchInv' /\ FirstInv' /\ SkipFrom'
<1>1. /\ sql' = sql /\ cuts' = cuts /\ batch' = batch /\ start' = start /\ skip' = skip
      /\ state' # "done" /\ at' = at + n
  BY DEF Moves
<1>2. BatchInv' /\ FirstInv'
  BY <1>1, NoCut
<1>3. \A i : (EscapeAt(i)' <=> EscapeAt(i)) /\ EscapeLen(i)' = EscapeLen(i)
  BY <1>1, SameScript
<1>4. \A e \in start..(at - 1) : e \in start..(at' - 1)
  BY <1>1, Places
<1>5. SkipFrom'
  BY <1>1, <1>3, <1>4, Zenon DEF IInv, SkipFrom
<1> QED
  BY <1>2, <1>5

\* A line goes on with a space, or begins after a newline in code.
LEMMA BeginsNext ==
    ASSUME sql \in Seq(Symbols), NEW i \in 0..(Len(sql) - 1), Begins(i + 1)
    PROVE  \/ Sym(i) \in NL /\ Mode[i] # "string" /\ Mode[i] # "block"
           \/ Sym(i) = "sp" /\ Begins(i)
<1>1. PICK h \in 0..(i + 1) :
         /\ h = 0 \/ (Sym(h - 1) \in NL /\ Mode[h - 1] # "string" /\ Mode[h - 1] # "block")
         /\ \A j \in h..((i + 1) - 1) : Sym(j) = "sp"
  BY Zenon DEF Begins
<1>2. (i + 1) - 1 = i /\ i \in Nat
  OBVIOUS
<1>3. CASE h = i + 1
  BY <1>1, <1>2, <1>3
<1>4. CASE h # i + 1
  <2>1. h \in 0..i /\ i \in h..i
    BY <1>1, <1>2, <1>4
  <2>2. \A j \in h..(i - 1) : j \in h..i
    BY <2>1
  <2>3. Begins(i)
    BY <1>1, <1>2, <2>1, <2>2, Zenon DEF Begins
  <2> QED
    BY <1>1, <1>2, <2>1, <2>3
<1> QED
  BY <1>3, <1>4

\* All symbols of an escaped newline are in a string.
LEMMA EscapeInString ==
    ASSUME sql \in Seq(Symbols), NEW i \in 0..(Len(sql) - 1), Escape(i)
    PROVE  Mode[i] = "string"
<1>1. CASE Escaped(i)
  <2>1. PICK b \in 0..(i - 1) : EscapeAt(b) /\ Mode[b] = "string" /\ i < b + EscapeLen(b)
    BY <1>1 DEF Escaped
  <2>2. b \in 0..(Len(sql) - 1) /\ Len(sql) \in Nat
    OBVIOUS
  <2>3. Sym(b) = "\\" /\ Sym(b + 1) \in NL
    BY <2>1 DEF EscapeAt
  <2>4. Mode[b + 1] = "string"
    BY <2>1, <2>2, <2>3, ModeStep DEF ModeAfter
  <2>5. CASE i = b + 1
    BY <2>4, <2>5
  <2>6. CASE i # b + 1
    <3>1. i = b + 2
      BY <2>1, <2>2, <2>6 DEF EscapeLen
    <3>2. b + 1 \in 0..(Len(sql) - 1) /\ (b + 1) + 1 = i
      BY <2>2, <3>1
    <3>3. Mode[(b + 1) + 1] = ModeAfter(Mode[b + 1], Sym(b + 1))
      BY <3>2, ModeStep
    <3> QED
      BY <2>3, <2>4, <3>2, <3>3 DEF ModeAfter, NL
  <2> QED
    BY <2>5, <2>6
<1> QED
  BY <1>1 DEF Escape

\* A state function that looks at a symbol and goes on to the next keeps the
\* invariant, if it takes the symbol for what it is.
LEMMA OneSymbol ==
    ASSUME IInv, TypeOK, sql # <<>>, at < Len(sql),
           state \in {"text", "ws", "line", "block", "string"},
           NEW s \in {"text", "ws", "line", "block", "string", "end"}, Moves(1, s),
           s = "text" => at + 1 < Len(sql),
           s = "end" => at + 1 >= Len(sql),
           s # "end" => ModeAfter(ReadsAs(state), Sym(at)) = ReadsAs(s),
           state = "ws" => s = "ws" /\ Sym(at) \in NL \cup {"sp"},
           state \in {"text", "line"} /\ s # "ws" => Sym(at) \notin NL,
           state = "string" => ~EscapeAt(at)
    PROVE  IInv'
<1>1. /\ sql' = sql /\ at' = at + 1 /\ state' = s /\ cuts' = cuts
      /\ batch' = batch /\ start' = start /\ skip' = skip
  BY DEF Moves
<1>2. /\ Mode' = Mode /\ (Clean' <=> Clean)
      /\ \A i : /\ Sym(i)' = Sym(i) /\ (Escape(i)' <=> Escape(i))
               /\ (Alone(i)' <=> Alone(i)) /\ (Begins(i)' <=> Begins(i))
               /\ (Escaped(i)' <=> Escaped(i))
  BY <1>1, SameScript
<1>3. /\ sql \in Seq(Symbols) /\ Len(sql) \in Nat /\ at \in 0..(Len(sql) - 1)
      /\ start \in Nat /\ start <= at /\ Len(sql) <= MaxLen
  BY Places DEF Smaller
<1>4. Mode[at + 1] = ModeAfter(Mode[at], Sym(at))
  BY <1>3, ModeStep
<1>5. TypeOK'
  BY <1>1, <1>3, MaxLenAssumption DEF IInv, TypeOK, Smaller
<1>6. SepInv'
  BY <1>1, <1>3 DEF SepInv
<1>7. BatchInv' /\ FirstInv' /\ SkipFrom'
  BY MovesKeep
<1>8. Clean \/ cuts = <<>> => Mode[at] = ReadsAs(state)
  BY DEF IInv, InStep, Over
<1>9. InStep'
  BY <1>1, <1>2, <1>3, <1>4, <1>8 DEF InStep, Over
<1>10. SkipInv'
  <2>1. SUFFICES ASSUME cuts = <<>> PROVE SkipInv'
    BY <1>1 DEF SkipInv
  <2>2. /\ start = 0 /\ batch = <<>> /\ skip = {i \in 0..(at - 1) : Escape(i)}
        /\ state = "string" => ~Escaped(at)
    BY <1>3, <2>1 DEF IInv, SkipInv, Smaller
  <2>3. ~Escape(at)
    <3>1. SUFFICES ASSUME Escape(at) PROVE FALSE
      OBVIOUS
    <3>2. state = "string"
      BY <1>3, <1>8, <2>1, <3>1, EscapeInString DEF ReadsAs
    <3> QED
      BY <2>2, <3>1, <3>2 DEF Escape
  <2>4. skip = {i \in 0..at : Escape(i)}
    BY <1>3, <2>2, <2>3
  <2>5. Smaller(at, Len(sql))' = at + 1 /\ (at + 1) - 1 = at
    BY <1>1, <1>3 DEF Smaller
  <2>6. skip' = {i \in 0..(Smaller(at, Len(sql))' - 1) : Escape(i)'}
    BY <1>1, <1>2, <2>4, <2>5
  <2>7. ~Escaped(at + 1)
    <3>1. SUFFICES ASSUME NEW b \in 0..((at + 1) - 1), EscapeAt(b), Mode[b] = "string",
                          at + 1 < b + EscapeLen(b)
                   PROVE  FALSE
      BY DEF Escaped
    <3>2. b = at \/ b \in 0..(at - 1)
      BY <1>3
    <3>3. b # at
      BY <2>3, <3>1 DEF Escape
    <3>4. EscapeLen(b) \in Nat
      BY DEF EscapeLen
    <3>5. Escaped(at)
      BY <1>3, <3>1, <3>2, <3>3, <3>4 DEF Escaped
    <3> QED
      BY <2>3, <3>5 DEF Escape
  <2>8. Escaped(at)' <=> Escaped(at + 1)
    BY <1>1, <1>2 DEF Escaped, EscapeAt, EscapeLen, Sym
  <2> QED
    BY <1>1, <2>2, <2>6, <2>7, <2>8 DEF SkipInv
<1>11. AloneInv'
  <2>1. SUFFICES ASSUME Clean PROVE AloneInv'
    BY <1>2 DEF AloneInv
  <2>2. /\ \A i \in 0..(Len(sql) - 1) : i < at /\ Alone(i) => i \in Cut
        /\ \A i \in Cut : i = Len(sql) \/ (Sym(i) = "GO" /\ Mode[i] = "code")
        /\ state \in {"line", "block", "string"} => ~Begins(at)
        /\ \A i \in {at} : state = "text" => ~Alone(i) /\ (Begins(i) => Sym(i) # "sp")
    BY <2>1 DEF IInv, AloneInv
  <2>3. ~Alone(at)
    BY <1>8, <2>1, <2>2 DEF Alone, ReadsAs, NL
  <2>4. s \in {"text", "line", "block", "string"} => ~Begins(at + 1)
    <3>1. SUFFICES ASSUME s \in {"text", "line", "block", "string"}, Begins(at + 1)
                   PROVE  FALSE
      OBVIOUS
    <3>2. \/ Sym(at) \in NL /\ Mode[at] # "string" /\ Mode[at] # "block"
          \/ Sym(at) = "sp" /\ Begins(at)
      BY <1>3, <3>1, BeginsNext
    <3> QED
      BY <1>8, <2>1, <2>2, <3>1, <3>2 DEF ReadsAs
  <2>5. Cut' = Cut
    BY <1>1 DEF Cut
  <2>6. \A i \in 0..(Len(sql) - 1) : (i < at + 1 \/ s = "end") /\ Alone(i) => i \in Cut
    BY <1>3, <2>2, <2>3
  <2>7. \A i \in 0..(Len(sql)' - 1) : (i < at' \/ Over') /\ Alone(i)' => i \in Cut'
    BY <1>1, <1>2, <2>5, <2>6 DEF Over
  <2>8. \A i \in Cut' : i = Len(sql)' \/ (Sym(i)' = "GO" /\ Mode'[i] = "code")
    BY <1>1, <1>2, <2>2, <2>5
  <2>9. Begins(at)' <=> Begins(at + 1)
    BY <1>1, <1>2 DEF Begins, Sym
  <2>10. \A i \in {at + 1} : s = "text" => ~Alone(i)' /\ ~Begins(i)'
    BY <1>2, <2>4 DEF Alone
  <2> QED
    BY <1>1, <2>4, <2>7, <2>8, <2>9, <2>10 DEF AloneInv
<1> QED
  BY <1>1, <1>5, <1>6, <1>7, <1>9, <1>10, <1>11 DEF IInv

\* So does one that leaves the symbol to another.
LEMMA NoSymbol ==
    ASSUME IInv, TypeOK, sql # <<>>, state \in {"sep", "ws", "line", "string"},
           NEW s \in {"sep", "text", "end"}, Moves(0, s),
           s = "sep" => state = "ws" /\ Sym(at) = "GO",
           s = "text" => state \in {"sep", "ws"} /\ at < Len(sql),
           s = "text" /\ Clean => ~Alone(at) /\ Sym(at) # "sp",
           s = "end" => \/ at >= Len(sql)
                        \/ /\ state = "sep"
                           /\ \A j \in at..(Len(sql) - 1) : Sym(j) \notin NL
    PROVE  IInv'
<1>1. /\ sql' = sql /\ at' = at /\ state' = s /\ cuts' = cuts
      /\ batch' = batch /\ start' = start /\ skip' = skip
  <2>1. /\ sql' = sql /\ at' = at + 0 /\ state' = s /\ cuts' = cuts
        /\ batch' = batch /\ start' = start /\ skip' = skip
    BY DEF Moves
  <2> QED
    BY <2>1, Places
<1>2. /\ Mode' = Mode /\ (Clean' <=> Clean)
      /\ \A i : /\ Sym(i)' = Sym(i) /\ (Escape(i)' <=> Escape(i))
               /\ (Alone(i)' <=> Alone(i)) /\ (Begins(i)' <=> Begins(i))
  BY <1>1, SameScript
<1>3. /\ sql \in Seq(Symbols) /\ Len(sql) \in Nat /\ at \in 0..Len(sql)
      /\ start \in Nat /\ start <= at /\ Len(sql) <= MaxLen
  BY Places
<1>4. s = "sep" => at < Len(sql)
  BY <1>3 DEF Sym
<1>5. TypeOK'
  BY <1>1, <1>3, <1>4 DEF TypeOK, Smaller
<1>6. SepInv'
  BY <1>1, <1>2, <1>3 DEF IInv, SepInv
<1>7. BatchInv' /\ FirstInv' /\ SkipFrom'
  BY MovesKeep
<1>8. Clean \/ cuts = <<>> => Mode[at] = ReadsAs(state)
  BY DEF IInv, InStep, Over
<1>9. InStep'
  BY <1>1, <1>2, <1>3, <1>8 DEF InStep, Over, ReadsAs
<1>10. SkipInv'
  BY <1>1, <1>2 DEF IInv, SkipInv
<1>11. AloneInv'
  <2>1. SUFFICES ASSUME Clean PROVE AloneInv'
    BY <1>2 DEF AloneInv
  <2>2. /\ \A i \in 0..(Len(sql) - 1) : i < at /\ Alone(i) => i \in Cut
        /\ \A i \in Cut : i = Len(sql) \/ (Sym(i) = "GO" /\ Mode[i] = "code")
    BY <2>1 DEF IInv, AloneInv
  <2>3. ASSUME s = "end", NEW i \in 0..(Len(sql) - 1), Alone(i) PROVE i < at
    <3>1. First(i, NL) < Len(sql)
      BY <2>3 DEF Alone
    <3>2. First(i, NL) \in i..(Len(sql) - 1) /\ Sym(First(i, NL)) \in NL
      BY <1>3, <3>1, FirstIs
    <3> QED
      BY <1>3, <2>3, <3>2
  <2>4. Cut' = Cut
    BY <1>1 DEF Cut
  <2>5. \A i \in 0..(Len(sql)' - 1) : (i < at' \/ Over') /\ Alone(i)' => i \in Cut'
    BY <1>1, <1>2, <2>2, <2>3, <2>4 DEF Over
  <2>6. \A i \in Cut' : i = Len(sql)' \/ (Sym(i)' = "GO" /\ Mode'[i] = "code")
    BY <1>1, <1>2, <2>2, <2>4
  <2>7. \A i \in {at'} : state' = "text" => ~Alone(i)' /\ Sym(i)' # "sp"
    BY <1>1, <1>2, <2>1
  <2> QED
    BY <1>1, <2>5, <2>6, <2>7 DEF AloneInv
<1> QED
  BY <1>1, <1>5, <1>6, <1>7, <1>9, <1>10, <1>11 DEF IInv

\* What lies at an index within the script, and beyond it.
LEMMA SymIs ==
    ASSUME sql \in Seq(Symbols), NEW i \in Nat
    PROVE  Sym(i) = "none" <=> i >= Len(sql)
BY DEF Sym, Symbols

\* lexer.Next, by what the state functions that call it know of the symbol.
LEMMA NextSymbol ==
    ASSUME IInv, TypeOK, sql # <<>>, at < Len(sql),
           state \in {"text", "line", "block", "string"}, NextIn(state),
           ModeAfter(ReadsAs(state), Sym(at)) = ReadsAs(state),
           state \in {"text", "line"} => Sym(at) \notin NL,
           state = "string" => ~EscapeAt(at)
    PROVE  IInv'
<1>1. CASE at + 1 < Len(sql)
  <2>1. Moves(1, state)
    BY <1>1 DEF NextIn
  <2> QED
    BY <1>1, <2>1, OneSymbol
<1>2. CASE ~(at + 1 < Len(sql))
  <2>1. Moves(1, "end") /\ at + 1 >= Len(sql)
    BY <1>2, Places DEF NextIn
  <2> QED
    BY <2>1, OneSymbol
<1> QED
  BY <1>1, <1>2

\* The actions, one by one.
LEMMA TextStep ==
    ASSUME IInv, TypeOK, sql # <<>>, StateText
    PROVE  IInv'
<1>1. state = "text" /\ at < Len(sql)
  BY Places DEF StateText
<1>2. CASE Sym(at) = "--" /\ Moves(1, "line")
  BY <1>1, <1>2, OneSymbol DEF ModeAfter, ReadsAs, NL
<1>3. CASE Sym(at) = "/*" /\ Moves(1, "block")
  BY <1>1, <1>3, OneSymbol DEF ModeAfter, ReadsAs, NL
<1>4. CASE Sym(at) = "'" /\ Moves(1, "string")
  BY <1>1, <1>4, OneSymbol DEF ModeAfter, ReadsAs, NL
<1>5. CASE Sym(at) \in NL /\ Moves(1, "ws")
  BY <1>1, <1>5, OneSymbol DEF ModeAfter, ReadsAs, NL
<1>6. CASE Sym(at) \notin NL \cup {"--", "/*", "'"} /\ NextIn("text")
  BY <1>1, <1>6, NextSymbol DEF ModeAfter, ReadsAs, NL
<1> QED
  BY <1>2, <1>3, <1>4, <1>5, <1>6 DEF StateText

LEMMA WhitespaceStep ==
    ASSUME IInv, TypeOK, sql # <<>>, StateWhitespace
    PROVE  IInv'
<1>1. state = "ws" /\ (Sym(at) = "none" <=> at >= Len(sql))
  BY Places, SymIs DEF StateWhitespace
<1>2. CASE Sym(at) = "none" /\ Moves(0, "end")
  BY <1>1, <1>2, NoSymbol
<1>3. CASE Sym(at) \in NL \cup {"sp"} /\ Moves(1, "ws")
  <2>1. at < Len(sql)
    BY <1>1, <1>3, Places DEF NL
  <2> QED
    BY <1>1, <1>3, <2>1, OneSymbol DEF ModeAfter, ReadsAs, NL
<1>4. CASE Sym(at) = "GO" /\ Moves(0, "sep")
  BY <1>1, <1>4, NoSymbol
<1>5. CASE Sym(at) \notin NL \cup {"none", "sp", "GO"} /\ Moves(0, "text")
  <2>1. at < Len(sql)
    BY <1>1, <1>5, Places
  <2> QED
    BY <1>1, <1>5, <2>1, NoSymbol DEF Alone
<1> QED
  BY <1>2, <1>3, <1>4, <1>5 DEF StateWhitespace

LEMMA LineCommentStep ==
    ASSUME IInv, TypeOK, sql # <<>>, StateLineComment
    PROVE  IInv'
<1>1. state = "line" /\ (Sym(at) = "none" <=> at >= Len(sql))
  BY Places, SymIs DEF StateLineComment
<1>2. CASE Sym(at) = "none" /\ Moves(0, "end")
  BY <1>1, <1>2, NoSymbol
<1>3. CASE Sym(at) \in NL /\ Moves(1, "ws")
  <2>1. at < Len(sql)
    BY <1>1, <1>3, Places DEF NL
  <2> QED
    BY <1>1, <1>3, <2>1, OneSymbol DEF ModeAfter, ReadsAs, NL
<1>4. CASE Sym(at) \notin NL \cup {"none"} /\ NextIn("line")
  <2>1. at < Len(sql)
    BY <1>1, <1>4, Places
  <2> QED
    BY <1>1, <1>4, <2>1, NextSymbol DEF ModeAfter, ReadsAs, NL
<1> QED
  BY <1>2, <1>3, <1>4 DEF StateLineComment

\* A block comment without an end: stateMultiComment steps beyond the script.
LEMMA MultiCommentEnds ==
    ASSUME IInv, TypeOK, sql # <<>>, state = "block", at = Len(sql), Moves(1, "end")
    PROVE  IInv'
<1>1. /\ sql' = sql /\ at' = at + 1 /\ state' = "end" /\ cuts' = cuts
      /\ batch' = batch /\ start' = start /\ skip' = skip
  BY DEF Moves
<1>2. /\ Mode' = Mode /\ (Clean' <=> Clean)
      /\ \A i : /\ Sym(i)' = Sym(i) /\ (Escape(i)' <=> Escape(i))
               /\ (Alone(i)' <=> Alone(i))
  BY <1>1, SameScript
<1>3. /\ sql \in Seq(Symbols) /\ Len(sql) \in Nat
      /\ start \in Nat /\ start <= Len(sql) /\ Len(sql) <= MaxLen /\ MaxLen \in Nat
  BY Places
<1>4. Smaller(at, Len(sql))' = Len(sql) /\ Smaller(at, Len(sql)) = Len(sql)
  BY <1>1, <1>3 DEF Smaller
<1>5. TypeOK'
  <2>1. at' \in 0..(Len(sql) + 1) /\ start' <= Smaller(at, Len(sql))'
    BY <1>1, <1>3, <1>4
  <2> QED
    BY <1>1, <2>1 DEF TypeOK
<1>6. SepInv' /\ InStep'
  BY <1>1, <1>3 DEF SepInv, InStep, Over
<1>7. BatchInv' /\ FirstInv' /\ SkipFrom'
  BY MovesKeep
<1>8. SkipInv'
  BY <1>1, <1>2, <1>4 DEF IInv, SkipInv
<1>9. Cut' = Cut
  BY <1>1 DEF Cut
<1>10. AloneInv'
  BY <1>1, <1>2, <1>3, <1>9 DEF IInv, AloneInv, Over
<1> QED
  BY <1>1, <1>5, <1>6, <1>7, <1>8, <1>10 DEF IInv

LEMMA MultiCommentStep ==
    ASSUME IInv, TypeOK, sql # <<>>, StateMultiComment
    PROVE  IInv'
<1>1. /\ state = "block" /\ (Sym(at) = "none" <=> at >= Len(sql))
      /\ at \in Nat /\ at <= Len(sql) /\ Len(sql) \in Nat
  BY Places, SymIs DEF StateMultiComment
<1>2. CASE Sym(at) = "*/"
  <2>1. at < Len(sql) /\ Moves(1, "ws")
    BY <1>1, <1>2 DEF StateMultiComment
  <2> QED
    BY <1>1, <1>2, <2>1, OneSymbol DEF ModeAfter, ReadsAs
<1>3. CASE Sym(at) # "*/" /\ at < Len(sql)
  <2>1. NextIn("block")
    BY <1>3 DEF StateMultiComment
  <2> QED
    BY <1>1, <1>3, <2>1, NextSymbol DEF ModeAfter, ReadsAs
<1>4. CASE Sym(at) # "*/" /\ ~(at < Len(sql))
  <2>1. NextIn("block")
    BY <1>4 DEF StateMultiComment
  <2>2. at = Len(sql) /\ Moves(1, "end")
    BY <1>1, <1>4, <2>1 DEF NextIn
  <2> QED
    BY <1>1, <2>2, MultiCommentEnds
<1> QED
  BY <1>2, <1>3, <1>4

\* stateString takes n symbols at once, those in K as symbols to skip.
LEMMA ManySymbols ==
    ASSUME IInv, TypeOK, sql # <<>>, state = "string",
           NEW n \in {2, 3}, at + n <= Len(sql), at' = at + n,
           NEW K, K \subseteq at..(at + n - 1), skip' = skip \cup K,
           UNCHANGED <<sql, start, batch, state, cuts>>,
           \A q \in K : EscapeAt(at) /\ q \in at..(at + EscapeLen(at) - 1),
           \A i \in at..(at + n - 1) : Sym(i) # "GO",
           Mode[at] = "string" =>
              /\ Mode[at + n] = "string" /\ ~Begins(at + n) /\ ~Escaped(at + n)
              /\ ~Escaped(at) => \A i \in at..(at + n - 1) : Escape(i) <=> i \in K
    PROVE  IInv'
<1>1. /\ sql' = sql /\ state' = state /\ cuts' = cuts
      /\ batch' = batch /\ start' = start
  OBVIOUS
<1>2. /\ Mode' = Mode /\ (Clean' <=> Clean)
      /\ \A i : /\ Sym(i)' = Sym(i) /\ (Escape(i)' <=> Escape(i))
               /\ (EscapeAt(i)' <=> EscapeAt(i)) /\ EscapeLen(i)' = EscapeLen(i)
               /\ (Escaped(i)' <=> Escaped(i))
               /\ (Alone(i)' <=> Alone(i)) /\ (Begins(i)' <=> Begins(i))
  BY <1>1, SameScript
<1>3. /\ sql \in Seq(Symbols) /\ Len(sql) \in Nat /\ at \in Nat
      /\ start \in Nat /\ start <= at /\ Len(sql) <= MaxLen /\ MaxLen \in Nat
  BY Places
<1>4. TypeOK'
  <2>0. skip \subseteq 0..(Len(sql) - 1)
    BY Zenon DEF TypeOK
  <2>1. at' \in 0..(Len(sql) + 1) /\ at' <= Len(sql)
    BY <1>3
  <2>2. start' <= Smaller(at, Len(sql))'
    BY <1>1, <1>3 DEF Smaller
  <2>3. skip' \subseteq 0..(Len(sql) - 1)
    <3>1. at..(at + n - 1) \subseteq 0..(Len(sql) - 1)
      BY <1>3
    <3> QED
      BY <2>0, <3>1, Zenon
  <2> QED
    BY <1>1, <2>1, <2>2, <2>3 DEF TypeOK
<1>5. SepInv'
  BY <1>1 DEF SepInv
<1>6. BatchInv' /\ FirstInv'
  BY NoCut
<1>7. SkipFrom'
  <2>1. \A e \in start..(at - 1) : e \in start..(at' - 1)
    BY <1>3
  <2>2. at \in start..(at' - 1)
    BY <1>3
  <2>3. ASSUME NEW q \in skip
        PROVE  \E e \in start..(at' - 1) : EscapeAt(e) /\ q \in e..(e + EscapeLen(e) - 1)
    BY <2>1, Zenon DEF IInv, SkipFrom
  <2>4. ASSUME NEW q \in K
        PROVE  \E e \in start..(at' - 1) : EscapeAt(e) /\ q \in e..(e + EscapeLen(e) - 1)
    BY <2>2, Zenon
  <2>5. ASSUME NEW q \in skip'
        PROVE  \E e \in start'..(at' - 1) : EscapeAt(e)' /\ q \in e..(e + EscapeLen(e)' - 1)
    <3>1. \E e \in start..(at' - 1) : EscapeAt(e) /\ q \in e..(e + EscapeLen(e) - 1)
      BY <2>3, <2>4, Zenon
    <3> QED
      BY <1>1, <1>2, <3>1
  <2> QED
    BY <2>5 DEF SkipFrom
<1>8. Clean \/ cuts = <<>> => Mode[at] = "string"
  BY DEF IInv, InStep, Over, ReadsAs
<1>9. InStep'
  BY <1>1, <1>2, <1>8 DEF InStep, Over, ReadsAs
<1>10. SkipInv'
  <2>1. SUFFICES ASSUME cuts = <<>> PROVE SkipInv'
    BY <1>1 DEF SkipInv
  <2>2. /\ start = 0 /\ batch = <<>> /\ skip = {i \in 0..(at - 1) : Escape(i)}
        /\ ~Escaped(at)
    BY <1>3, <2>1 DEF IInv, SkipInv, Smaller
  <2>3. ~Escaped(at + n) /\ \A i \in at..(at + n - 1) : Escape(i) <=> i \in K
    BY <1>8, <2>1, <2>2
  <2>4. skip' = {i \in 0..(at + n - 1) : Escape(i)}
    <3>1. \A i \in 0..(at + n - 1) : i \in 0..(at - 1) \/ i \in at..(at + n - 1)
      BY <1>3
    <3>2. /\ \A i \in 0..(at - 1) : i \in 0..(at + n - 1)
          /\ \A i \in at..(at + n - 1) : i \in 0..(at + n - 1)
      BY <1>3
    <3> QED
      BY <2>2, <2>3, <3>1, <3>2
  <2>5. Smaller(at, Len(sql))' = at + n
    BY <1>1, <1>3 DEF Smaller
  <2>6. skip' = {i \in 0..(Smaller(at, Len(sql))' - 1) : Escape(i)'}
    <3>1. \A i : Escape(i)' <=> Escape(i)
      BY <1>2
    <3>2. Smaller(at, Len(sql))' - 1 = at + n - 1
      BY <1>1, <1>3 DEF Smaller
    <3>3. {i \in 0..(at + n - 1) : Escape(i)} = {i \in 0..(at + n - 1) : Escape(i)'}
      BY <3>1, Zenon
    <3> QED
      BY <2>4, <3>2, <3>3, Zenon
  <2>7. ~Escaped(at)'
    BY <1>2, <2>3 DEF Escaped, EscapeAt, EscapeLen, Sym
  <2> QED
    BY <1>1, <2>2, <2>6, <2>7 DEF SkipInv
<1>11. AloneInv'
  <2>1. SUFFICES ASSUME Clean PROVE AloneInv'
    BY <1>2 DEF AloneInv
  <2>2. /\ \A i \in 0..(Len(sql) - 1) : i < at /\ Alone(i) => i \in Cut
        /\ \A i \in Cut : i = Len(sql) \/ (Sym(i) = "GO" /\ Mode[i] = "code")
    BY <2>1 DEF IInv, AloneInv
  <2>3. \A i \in at..(at + n - 1) : ~Alone(i)
    BY DEF Alone
  <2>4. \A i \in 0..(Len(sql) - 1) : i < at + n /\ Alone(i) => i \in Cut
    BY <1>3, <2>2, <2>3
  <2>5. Cut' = Cut
    BY <1>1 DEF Cut
  <2>6. ~Begins(at)'
    BY <1>2, <1>8, <2>1 DEF Begins, Sym
  <2>7. \A i \in 0..(Len(sql)' - 1) : (i < at' \/ Over') /\ Alone(i)' => i \in Cut'
    BY <1>1, <1>2, <2>4, <2>5 DEF Over
  <2>8. \A i \in Cut' : i = Len(sql)' \/ (Sym(i)' = "GO" /\ Mode'[i] = "code")
    BY <1>1, <1>2, <2>2, <2>5
  <2> QED
    BY <1>1, <2>6, <2>7, <2>8 DEF AloneInv
<1> QED
  BY <1>1, <1>4, <1>5, <1>6, <1>7, <1>9, <1>10, <1>11 DEF IInv

\* An escaped newline is within the script, and a string goes on after it.
LEMMA EscapeWhole ==
    ASSUME sql \in Seq(Symbols), NEW a \in Nat, EscapeAt(a), NEW n, n = EscapeLen(a)
    PROVE  /\ n \in {2, 3} /\ a + n <= Len(sql) /\ Sym(a) = "\\"
           /\ \A i \in (a + 1)..(a + n - 1) : Sym(i) \in NL
           /\ Mode[a] = "string" => \A i \in (a + 1)..(a + n) : Mode[i] = "string"
<1>1. Len(sql) \in Nat /\ n \in {2, 3}
  BY DEF EscapeLen
<1>2. Sym(a) = "\\" /\ Sym(a + 1) \in NL /\ (n = 3 => Sym(a + 2) \in NL)
  BY DEF EscapeAt, EscapeLen, NL
<1>3. a + 1 < Len(sql) /\ (n = 3 => a + 2 < Len(sql))
  BY <1>1, <1>2 DEF Sym, NL
<1>4. \A i \in (a + 1)..(a + n - 1) : Sym(i) \in NL
  <2>1. \A i \in (a + 1)..(a + n - 1) : i = a + 1 \/ (n = 3 /\ i = a + 2)
    BY <1>1
  <2> QED
    BY <1>2, <2>1
<1>5. ASSUME Mode[a] = "string", NEW i \in (a + 1)..(a + n) PROVE Mode[i] = "string"
  <2>1. Mode[a + 1] = "string"
    <3>1. a \in 0..(Len(sql) - 1)
      BY <1>1, <1>3
    <3> QED
      BY <1>2, <1>5, <3>1, ModeStep DEF ModeAfter
  <2>2. Mode[a + 2] = "string"
    <3>1. a + 1 \in 0..(Len(sql) - 1) /\ (a + 1) + 1 = a + 2
      BY <1>1, <1>3
    <3>2. Mode[(a + 1) + 1] = ModeAfter(Mode[a + 1], Sym(a + 1))
      BY <3>1, ModeStep
    <3> QED
      BY <1>2, <2>1, <3>1, <3>2 DEF ModeAfter, NL
  <2>3. n = 3 => Mode[a + 3] = "string"
    <3>1. SUFFICES ASSUME n = 3 PROVE Mode[a + 3] = "string"
      OBVIOUS
    <3>2. a + 2 \in 0..(Len(sql) - 1) /\ (a + 2) + 1 = a + 3
      BY <1>1, <1>3, <3>1
    <3>3. Mode[(a + 2) + 1] = ModeAfter(Mode[a + 2], Sym(a + 2))
      BY <3>2, ModeStep
    <3> QED
      BY <1>2, <2>2, <3>1, <3>2, <3>3 DEF ModeAfter, NL
  <2>4. i = a + 1 \/ i = a + 2 \/ (n = 3 /\ i = a + 3)
    BY <1>1
  <2> QED
    BY <2>1, <2>2, <2>3, <2>4
<1> QED
  BY <1>1, <1>2, <1>3, <1>4, <1>5

LEMMA EscapeStep ==
    ASSUME IInv, TypeOK, sql # <<>>, state = "string",
           EscapeAt(at), at' = at + EscapeLen(at),
           skip' = skip \cup at..(at + EscapeLen(at) - 1),
           UNCHANGED <<sql, start, batch, state, cuts>>
    PROVE  IInv'
<1> DEFINE n == EscapeLen(at)
           K == at..(at + n - 1)
<1>1. sql \in Seq(Symbols) /\ Len(sql) \in Nat /\ at \in Nat
  BY Places
<1>2. /\ n \in {2, 3} /\ at + n <= Len(sql) /\ Sym(at) = "\\"
      /\ \A i \in (at + 1)..(at + n - 1) : Sym(i) \in NL
      /\ Mode[at] = "string" => \A i \in (at + 1)..(at + n) : Mode[i] = "string"
  BY <1>1, EscapeWhole
<1>3. \A q \in K : EscapeAt(at) /\ q \in at..(at + EscapeLen(at) - 1)
  BY DEF n
<1>4. at' = at + n /\ skip' = skip \cup K
  BY DEF n
<1>5. \A b \in Nat : EscapeLen(b) \in {2, 3} /\ (b = at => EscapeLen(b) = n)
  BY DEF EscapeLen
<1> HIDE DEF n
<1>6. \A i \in at..(at + n - 1) : Sym(i) # "GO"
  <2>1. \A i \in at..(at + n - 1) : i = at \/ i \in (at + 1)..(at + n - 1)
    BY <1>1, <1>2
  <2> QED
    BY <1>2, <2>1 DEF NL
<1>7. ASSUME Mode[at] = "string"
      PROVE  /\ Mode[at + n] = "string" /\ ~Begins(at + n) /\ ~Escaped(at + n)
             /\ \A i \in at..(at + n - 1) : Escape(i)
  <2>1. at + n \in (at + 1)..(at + n) /\ at + n - 1 \in (at + 1)..(at + n - 1)
        /\ at + n - 1 \in (at + 1)..(at + n) /\ at + n - 1 \in 0..(Len(sql) - 1)
        /\ (at + n - 1) + 1 = at + n
    BY <1>1, <1>2
  <2>2. Mode[at + n] = "string" /\ Mode[at + n - 1] = "string" /\ Sym(at + n - 1) \in NL
    BY <1>2, <1>7, <2>1
  <2>3. ~Begins((at + n - 1) + 1)
    BY <1>1, <2>1, <2>2, BeginsNext DEF NL
  <2>4. ~Escaped(at + n)
    <3>1. SUFFICES ASSUME NEW b \in 0..((at + n) - 1), EscapeAt(b), at + n < b + EscapeLen(b)
                   PROVE  FALSE
      BY DEF Escaped
    <3>2. b \in Nat /\ EscapeLen(b) \in {2, 3} /\ (b = at => EscapeLen(b) = n)
      BY <1>1, <1>2, <1>5
    <3>3. b \in (at + 1)..(at + n - 1)
      BY <1>1, <1>2, <3>1, <3>2
    <3> QED
      BY <1>2, <3>1, <3>3 DEF EscapeAt, NL
  <2>5. ASSUME NEW i \in at..(at + n - 1) PROVE Escape(i)
    <3>1. CASE i = at
      BY <1>7, <3>1 DEF Escape
    <3>2. CASE i # at
      <4>1. at \in 0..(i - 1) /\ i < at + EscapeLen(at)
        BY <1>1, <1>2, <1>5, <3>2
      <4> QED
        BY <1>7, <4>1 DEF Escape, Escaped
    <3> QED
      BY <3>1, <3>2
  <2> QED
    BY <2>1, <2>2, <2>3, <2>4, <2>5
<1>8. Mode[at] = "string" =>
         /\ Mode[at + n] = "string" /\ ~Begins(at + n) /\ ~Escaped(at + n)
         /\ ~Escaped(at) => \A i \in at..(at + n - 1) : Escape(i) <=> i \in K
  BY <1>7 DEF K
<1>9. K \subseteq at..(at + n - 1)
  BY DEF K
<1> HIDE DEF K
<1> QED
  BY <1>2, <1>3, <1>4, <1>6, <1>8, <1>9, ManySymbols

LEMMA QuotesStep ==
    ASSUME IInv, TypeOK, sql # <<>>, state = "string",
           Sym(at) = "'", Sym(at + 1) = "'", Moves(2, "string")
    PROVE  IInv'
<1>1. sql \in Seq(Symbols) /\ Len(sql) \in Nat /\ at \in Nat
  BY Places
<1>2. at \in 0..(Len(sql) - 1) /\ at + 1 \in 0..(Len(sql) - 1)
  BY <1>1 DEF Sym
<1>3. \A b \in Nat : EscapeLen(b) \in {2, 3}
  BY DEF EscapeLen
<1>4. ~EscapeAt(at) /\ ~EscapeAt(at + 1)
  BY DEF EscapeAt
<1>5. Mode[at] = "string" => Mode[at + 2] = "string"
  <2>1. (at + 1) + 1 = at + 2
    BY <1>1
  <2>2. /\ Mode[at + 1] = ModeAfter(Mode[at], Sym(at))
        /\ Mode[(at + 1) + 1] = ModeAfter(Mode[at + 1], Sym(at + 1))
    BY <1>1, <1>2, ModeStep
  <2> QED
    BY <2>1, <2>2 DEF ModeAfter
<1>6. ~Begins(at + 2)
  <2>1. ~Begins((at + 1) + 1)
    BY <1>1, <1>2, BeginsNext DEF NL
  <2>2. (at + 1) + 1 = at + 2
    BY <1>1
  <2> QED
    BY <2>1, <2>2
<1>7. ~Escaped(at + 2)
  <2>1. SUFFICES ASSUME NEW b \in 0..((at + 2) - 1), EscapeAt(b), at + 2 < b + EscapeLen(b)
                 PROVE  FALSE
    BY DEF Escaped
  <2>2. b \in Nat /\ EscapeLen(b) \in {2, 3}
    BY <1>1, <1>3
  <2>3. b = at \/ b = at + 1
    BY <1>1, <2>1, <2>2
  <2> QED
    BY <1>4, <2>1, <2>3
<1>8. ASSUME ~Escaped(at) PROVE ~Escape(at) /\ ~Escape(at + 1)
  <2>1. SUFFICES ASSUME Escaped(at + 1) PROVE FALSE
    BY <1>4, <1>8 DEF Escape
  <2>2. PICK b \in 0..((at + 1) - 1) :
           EscapeAt(b) /\ Mode[b] = "string" /\ at + 1 < b + EscapeLen(b)
    BY <2>1 DEF Escaped
  <2>3. b \in Nat /\ EscapeLen(b) \in {2, 3} /\ b # at
    BY <1>1, <1>3, <1>4, <2>2
  <2>4. b \in 0..(at - 1) /\ at < b + EscapeLen(b)
    BY <1>1, <2>2, <2>3
  <2> QED
    BY <1>8, <2>2, <2>4 DEF Escaped
<1> DEFINE K == {}
<1>9. /\ at' = at + 2 /\ skip' = skip \cup K
      /\ UNCHANGED <<sql, start, batch, state, cuts>>
  BY DEF Moves
<1>10. \A i \in at..(at + 2 - 1) : i = at \/ i = at + 1
  BY <1>1
<1>11. at + 2 <= Len(sql)
  BY <1>1, <1>2
<1>12. Mode[at] = "string" =>
         /\ Mode[at + 2] = "string" /\ ~Begins(at + 2) /\ ~Escaped(at + 2)
         /\ ~Escaped(at) => \A i \in at..(at + 2 - 1) : Escape(i) <=> i \in K
  BY <1>5, <1>6, <1>7, <1>8, <1>10
<1>13. \A i \in at..(at + 2 - 1) : Sym(i) # "GO"
  BY <1>10
<1>14. /\ K \subseteq at..(at + 2 - 1)
       /\ \A q \in K : EscapeAt(at) /\ q \in at..(at + EscapeLen(at) - 1)
  OBVIOUS
<1>15. 2 \in {2, 3}
  OBVIOUS
<1> HIDE DEF K
<1> QED
  BY <1>9, <1>11, <1>12, <1>13, <1>14, <1>15, ManySymbols

LEMMA StringStep ==
    ASSUME IInv, TypeOK, sql # <<>>, StateString
    PROVE  IInv'
<1>1. state = "string" /\ (Sym(at) = "none" <=> at >= Len(sql))
  BY Places, SymIs DEF StateString
<1>2. CASE Sym(at) = "none" /\ Moves(0, "end")
  BY <1>1, <1>2, NoSymbol
<1>3. CASE /\ EscapeAt(at) /\ at' = at + EscapeLen(at)
           /\ skip' = skip \cup at..(at + EscapeLen(at) - 1)
           /\ UNCHANGED <<sql, start, batch, state, cuts>>
  BY <1>1, <1>3, EscapeStep
<1>4. CASE Sym(at) = "'" /\ Sym(at + 1) = "'" /\ Moves(2, "string")
  BY <1>1, <1>4, QuotesStep
<1>5. CASE Sym(at) = "'" /\ Sym(at + 1) # "'" /\ Moves(1, "ws")
  <2>1. at < Len(sql)
    BY <1>1, <1>5, Places
  <2>2. ~EscapeAt(at)
    BY <1>5 DEF EscapeAt
  <2> QED
    BY <1>1, <1>5, <2>1, <2>2, OneSymbol DEF ModeAfter, ReadsAs
<1>6. CASE Sym(at) \notin {"none", "'"} /\ ~EscapeAt(at) /\ NextIn("string")
  <2>1. at < Len(sql)
    BY <1>1, <1>6, Places
  <2> QED
    BY <1>1, <1>6, <2>1, NextSymbol DEF ModeAfter, ReadsAs
<1> QED
  BY <1>2, <1>3, <1>4, <1>5, <1>6 DEF StateString

\* Sequences that grow at the end.
LEMMA Appended ==
    ASSUME NEW S, NEW q \in Seq(S), NEW e \in S
    PROVE  /\ Append(q, e) \in Seq(S) /\ Len(Append(q, e)) = Len(q) + 1
           /\ \A i \in 1..Len(q) : Append(q, e)[i] = q[i]
           /\ Append(q, e)[Len(q) + 1] = e
OBVIOUS

LEMMA Repeated ==
    ASSUME NEW S, NEW q \in Seq(S), NEW x \in S, NEW c \in Nat,
           NEW r, r = q \o [i \in 1..c |-> x]
    PROVE  /\ r \in Seq(S) /\ Len(r) = Len(q) + c
           /\ \A i \in 1..Len(q) : r[i] = q[i]
           /\ \A i \in 1..Len(r) : i \in 1..Len(q) \/ r[i] = x
<1> DEFINE t == [i \in 1..c |-> x]
<1>1. t \in Seq(S) /\ Len(t) = c /\ Len(q) \in Nat
  OBVIOUS
<1>2. /\ r \in Seq(S) /\ Len(r) = Len(q) + c
      /\ \A i \in 1..Len(r) : r[i] = IF i <= Len(q) THEN q[i] ELSE t[i - Len(q)]
  OBVIOUS
<1>3. \A i \in 1..Len(r) : i \in 1..Len(q) \/ i - Len(q) \in 1..c
  BY <1>1, <1>2
<1> QED
  BY <1>1, <1>2, <1>3

\* AddCurrent: what a cut does to the batches and to the cuts.  The symbols
\* from the cut to the new Start are the line of a separator.
LEMMA CutStep ==
    ASSUME IInv, TypeOK, sql # <<>>, state # "done", sql' = sql,
           NEW count \in Nat, NEW n \in Nat, AddCurrent(count, n),
           NEW to, to = Smaller(at, Len(sql)),
           \A p \in to..(Len(sql) - 1) : p < to + 1 + n \/ state' = "done" => Sym(p) \notin NL,
           \/ state' = "ws" /\ to + 1 + n <= Len(sql)
           \/ state' = "done" /\ n = 0
    PROVE  /\ TypeOK' /\ BatchInv' /\ SkipFrom' /\ FirstInv' /\ SkipInv' /\ SepInv'
           /\ Cut' = Cut \cup {to} /\ cuts' # <<>>
<1> DEFINE text == {i \in start..(to - 1) : i - start \notin skip}
           new == [from |-> start, to |-> to, times |-> count]
           Cuts == [from : 0..Len(sql), to : 0..Len(sql), times : Nat]
           c == Smaller(count, Limit)
           S == SUBSET (0..(Len(sql) - 1))
<1>1. /\ batch' = IF text = {} THEN batch ELSE batch \o [i \in 1..c |-> text]
      /\ skip' = {} /\ at' = to + 1 + n /\ start' = to + 1 + n
      /\ cuts' = Append(cuts, new)
  BY DEF AddCurrent
<1>2. /\ sql \in Seq(Symbols) /\ Len(sql) \in Nat /\ at \in Nat
      /\ start \in Nat /\ start <= at /\ start <= Len(sql)
      /\ Len(sql) <= MaxLen /\ MaxLen \in Nat
  BY Places
<1>3. to \in Nat /\ to <= Len(sql) /\ start <= to
  BY <1>2 DEF Smaller
<1>4. c \in Nat /\ (count > 0 => c > 0)
  BY LimitAssumption DEF Smaller
<1> HIDE DEF c
<1>5. cuts \in Seq(Cuts) /\ new \in Cuts
  <2>1. cuts \in Seq(Cuts)
    BY Zenon DEF TypeOK
  <2> QED
    BY <1>2, <1>3, <2>1
<1>6. batch \in Seq(S) /\ text \in S
  <2>1. batch \in Seq(S)
    BY Zenon DEF TypeOK
  <2>2. text \in S
    BY <1>2, <1>3
  <2> QED
    BY <2>1, <2>2, Zenon
<1> HIDE DEF Cuts
<1>7. /\ cuts' \in Seq(Cuts) /\ Len(cuts') = Len(cuts) + 1 /\ Len(cuts) \in Nat
      /\ \A i \in 1..Len(cuts) : cuts'[i] = cuts[i]
      /\ cuts'[Len(cuts) + 1] = new
  <2>1. Len(cuts) \in Nat
    BY <1>5
  <2> HIDE DEF new
  <2> QED
    BY <1>1, <1>5, <2>1, Appended
<1>8. cuts' # <<>>
  BY <1>7
<1>9. /\ batch' \in Seq(S) /\ Len(batch) \in Nat /\ Len(batch') \in Nat
      /\ Len(batch) <= Len(batch')
      /\ \A i \in 1..Len(batch) : batch'[i] = batch[i]
      /\ \A i \in 1..Len(batch') : i \in 1..Len(batch) \/ batch'[i] = text
      /\ text # {} /\ count > 0 => Len(batch') > Len(batch)
  <2> HIDE DEF text, S
  <2>0. Len(batch) \in Nat
    BY <1>6
  <2>1. CASE text = {}
    BY <1>1, <1>6, <2>0, <2>1
  <2>2. CASE text # {}
    <3>1. batch' = batch \o [i \in 1..c |-> text]
      BY <1>1, <2>2, Zenon
    <3>2. /\ batch' \in Seq(S) /\ Len(batch') = Len(batch) + c
          /\ \A i \in 1..Len(batch) : batch'[i] = batch[i]
          /\ \A i \in 1..Len(batch') : i \in 1..Len(batch) \/ batch'[i] = text
      BY <1>4, <1>6, <3>1, Repeated
    <3> QED
      BY <1>4, <2>0, <3>2
  <2> QED
    BY <2>1, <2>2
<1>10. TypeOK'
  <2>1. /\ at' \in 0..(Len(sql) + 1) /\ start' \in 0..(Len(sql) + 1)
        /\ state' \notin {"end", "done"} => at' <= Len(sql)
        /\ state' # "done" => start' <= Smaller(at, Len(sql))'
    <3>1. at' = to + 1 + n /\ start' = to + 1 + n
      BY <1>1, Zenon
    <3>2. at' \in 0..(Len(sql) + 1) /\ (state' # "done" => at' <= Len(sql))
      BY <1>2, <1>3, <3>1
    <3>3. state' # "done" => start' <= Smaller(at', Len(sql))
      BY <1>2, <3>1, <3>2 DEF Smaller
    <3>4. Smaller(at, Len(sql))' = Smaller(at', Len(sql))
      BY Zenon DEF Smaller
    <3> QED
      BY <3>1, <3>2, <3>3, <3>4
  <2>2. skip' \subseteq 0..(Len(sql) - 1)
    BY <1>1
  <2>3. cuts' \in Seq([from : 0..Len(sql), to : 0..Len(sql), times : Nat])
    BY <1>7, Zenon DEF Cuts
  <2>4. sql' \in Seq(Symbols) /\ Len(sql') <= MaxLen
    BY <1>2
  <2>5. /\ state' \in {"sep", "text", "ws", "line", "block", "string", "end", "done"}
        /\ state' \notin {"sep", "text"}
    OBVIOUS
  <2> QED
    BY <1>9, <2>1, <2>2, <2>3, <2>4, <2>5, Zenon DEF TypeOK
<1>11. SepInv' /\ SkipInv' /\ SkipFrom'
  BY <1>1, <1>8 DEF SepInv, SkipInv, SkipFrom
<1>12. \A i \in 1..Len(cuts') : i \in 1..Len(cuts) \/ i = Len(cuts) + 1
  BY <1>7
<1>13. (\A i \in 1..Len(cuts) : i \in 1..Len(cuts')) /\ Len(cuts) + 1 \in 1..Len(cuts')
  BY <1>7
<1>14. new.from = start /\ new.to = to /\ new.times = count
  OBVIOUS
<1>15. \A i : i \in text <=> i \in start..(to - 1) /\ i - start \notin skip
  OBVIOUS
<1> HIDE DEF new, text, S
<1>16. Cut' = Cut \cup {to}
  BY <1>7, <1>12, <1>13, <1>14, Zenon DEF Cut
<1>17. /\ \A i : Sym(i)' = Sym(i) /\ (Escape(i)' <=> Escape(i))
      /\ \A i : (EscapeAt(i)' <=> EscapeAt(i)) /\ EscapeLen(i)' = EscapeLen(i)
  BY SameScript
<1>18. start' = to + 1 + n /\ start' \in Nat /\ to < start' /\ start < start'
  BY <1>1, <1>2, <1>3
<1>19. BatchInv'
  <2>1. /\ \A i \in 1..Len(batch) : \A p \in batch[i] : p < start
        /\ \A i, j \in 1..Len(batch) : i < j => InOrder(batch[i], batch[j])
        /\ \A p \in 0..(Len(sql) - 1) : p < start =>
              InBatch(p) \/ OnSeparatorLine(p) \/ LeftOut(p)
    BY DEF IInv, BatchInv
  <2>2. \A p \in text : p \in Nat /\ start <= p /\ p < to
    BY <1>2, <1>3, <1>15
  <2>3. \A i \in 1..Len(batch) : \A p \in batch[i] : p \in Nat
    BY <1>2, <1>6 DEF S
  <2>4. ASSUME NEW i \in 1..Len(batch'), NEW p \in batch'[i] PROVE p < start'
    <3>1. CASE i \in 1..Len(batch)
      BY <1>2, <1>9, <1>18, <2>1, <2>3, <3>1
    <3>2. CASE batch'[i] = text
      BY <1>3, <1>18, <2>2, <3>2
    <3> QED
      BY <1>9, <3>1, <3>2
  <2>5. ASSUME NEW i \in 1..Len(batch'), NEW j \in 1..Len(batch'), i < j
        PROVE  InOrder(batch'[i], batch'[j])
    <3>1. CASE i \in 1..Len(batch) /\ j \in 1..Len(batch)
      BY <1>9, <2>1, <2>5, <3>1
    <3>2. CASE i \in 1..Len(batch) /\ batch'[j] = text
      <4>1. batch'[i] = batch[i]
        BY <1>9, <3>2
      <4>2. \A p \in batch[i], q \in text : p < q
        BY <1>2, <2>1, <2>2, <2>3, <3>2
      <4> QED
        BY <3>2, <4>1, <4>2 DEF InOrder
    <3>3. CASE i \notin 1..Len(batch)
      <4>1. j \notin 1..Len(batch)
        BY <1>9, <2>5, <3>3
      <4>2. batch'[i] = text /\ batch'[j] = text
        BY <1>9, <3>3, <4>1
      <4> QED
        BY <4>2 DEF InOrder
    <3> QED
      BY <1>9, <3>1, <3>2, <3>3
  <2>6. ASSUME NEW p \in 0..(Len(sql) - 1), p < start' \/ state' = "done"
        PROVE  (InBatch(p) \/ OnSeparatorLine(p) \/ LeftOut(p))'
    <3>1. CASE p < start
      <4>1. CASE InBatch(p)
        <5>1. PICK i \in 1..Len(batch) : p \in batch[i]
          BY <4>1 DEF InBatch
        <5>2. i \in 1..Len(batch') /\ p \in batch'[i]
          BY <1>9, <5>1
        <5> QED
          BY <5>2, Zenon DEF InBatch
      <4>2. CASE OnSeparatorLine(p)
        BY <1>16, <1>17, <4>2 DEF OnSeparatorLine
      <4>3. CASE LeftOut(p)
        <5>1. PICK d \in 1..Len(cuts) :
                 /\ cuts[d].from <= p /\ p < cuts[d].to
                 /\ \/ cuts[d].times = 0
                    \/ \E e \in cuts[d].from..(cuts[d].to - 1) :
                          EscapeAt(e) /\ p - cuts[d].from \in e..(e + EscapeLen(e) - 1)
          BY <4>3 DEF LeftOut
        <5>2. d \in 1..Len(cuts') /\ cuts'[d] = cuts[d]
          BY <1>7, <1>13
        <5> QED
          BY <1>17, <5>1, <5>2, Zenon DEF LeftOut
      <4> QED
        BY <2>1, <3>1, <4>1, <4>2, <4>3
    <3>2. CASE start <= p /\ p < to
      <4> DEFINE d == Len(cuts) + 1
      <4>1. d \in 1..Len(cuts') /\ cuts'[d].from = start /\ cuts'[d].to = to
            /\ cuts'[d].times = count
        BY <1>7, <1>13, <1>14
      <4> HIDE DEF d
      <4>2. CASE count = 0
        BY <3>2, <4>1, <4>2 DEF LeftOut
      <4>3. CASE count # 0 /\ p \in text
        <5>1. Len(batch) + 1 \in 1..Len(batch')
          BY <1>9, <4>3
        <5>2. Len(batch) + 1 \notin 1..Len(batch)
          BY <1>9
        <5>3. batch'[Len(batch) + 1] = text
          BY <1>9, <5>1, <5>2
        <5> QED
          BY <4>3, <5>1, <5>3 DEF InBatch
      <4>4. CASE p \notin text
        <5>1. p - start \in skip
          BY <1>2, <1>3, <1>15, <3>2, <4>4
        <5>2. PICK e \in start..(at - 1) :
                 EscapeAt(e) /\ p - start \in e..(e + EscapeLen(e) - 1)
          BY <5>1 DEF IInv, SkipFrom
        <5>3. e < Len(sql)
          BY <1>2, <5>2 DEF EscapeAt, Sym
        <5>4. e \in start..(to - 1)
          BY <1>2, <5>3 DEF Smaller
        <5> QED
          BY <1>17, <3>2, <4>1, <5>2, <5>4 DEF LeftOut
      <4> QED
        BY <4>2, <4>3, <4>4
    <3>3. CASE to <= p
      <4>1. to \in 0..p /\ to \in Cut'
        BY <1>3, <1>16, <3>3
      <4>2. \A j \in to..p : Sym(j) \notin NL
        <5>1. \A j \in to..p : j \in to..(Len(sql) - 1) /\ (p < to + 1 + n => j < to + 1 + n)
          BY <1>2, <1>3, <3>3
        <5> QED
          BY <1>18, <2>6, <5>1, Zenon
      <4> QED
        BY <1>17, <4>1, <4>2 DEF OnSeparatorLine
    <3> QED
      BY <1>2, <1>3, <3>1, <3>2, <3>3
  <2> QED
    BY <2>4, <2>5, <2>6 DEF BatchInv
<1>20. FirstInv'
  <2>1. CASE cuts = <<>>
    <3>1. cuts'[1].to = to /\ cuts'[1].times = count
      BY <1>7, <1>14, <2>1
    <3>2. start = 0 /\ batch = <<>> /\ skip = {i \in 0..(to - 1) : Escape(i)}
      BY <2>1 DEF IInv, SkipInv
    <3>3. text = {i \in 0..(to - 1) : ~Escape(i)}
      BY <1>3, <3>2 DEF text
    <3>4. text # {} /\ count > 0 => batch' # <<>> /\ batch'[1] = text
      BY <1>9, <3>2
    <3> QED
      BY <1>17, <3>1, <3>3, <3>4 DEF FirstInv
  <2>2. CASE cuts # <<>>
    <3>1. 1 \in 1..Len(cuts)
      BY <1>7, <2>2
    <3>2. cuts'[1] = cuts[1]
      BY <1>7, <3>1
    <3>3. LET want == {i \in 0..(cuts[1].to - 1) : ~Escape(i)}
          IN  want # {} /\ cuts[1].times > 0 => batch # <<>> /\ batch[1] = want
      BY <2>2 DEF IInv, FirstInv
    <3>4. batch # <<>> => batch' # <<>> /\ batch'[1] = batch[1]
      BY <1>6, <1>9
    <3> QED
      BY <1>17, <3>2, <3>3, <3>4 DEF FirstInv
  <2> QED
    BY <2>1, <2>2
<1> QED
  BY <1>8, <1>10, <1>11, <1>16, <1>19, <1>20

\* In a clean script, what stateSep meets up to the newline.
LEMMA CleanSep ==
    ASSUME IInv, TypeOK, sql # <<>>, state = "sep", Clean,
           NEW x \in (at + 1)..Len(sql), \A y \in (at + 1)..(x - 1) : Sym(y) \notin NL
    PROVE  x \in Line(at) /\ Sym(x) \in NL \cup Digits \cup {"sp", "none"} /\ CleanLine(at)
<1>1. /\ sql \in Seq(Symbols) /\ Len(sql) \in Nat
      /\ at \in 0..(Len(sql) - 1) /\ at \in 0..Len(sql)
  BY Places
<1>2. Sym(at) = "GO" /\ Mode[at] = "code"
  BY DEF IInv, SepInv, InStep, Over, ReadsAs
<1>3. CleanLine(at)
  BY <1>1, <1>2 DEF Clean
<1> DEFINE f == First(at, NL)
<1>4. f \in at..Len(sql) /\ (f < Len(sql) => Sym(f) \in NL)
  BY <1>1, FirstIs
<1> HIDE DEF f
<1>5. x <= f
  BY <1>1, <1>2, <1>4 DEF NL
<1>6. x \in at..f /\ x # at
  BY <1>1, <1>4, <1>5
<1>7. x \in Line(at) /\ x # at
  BY <1>6 DEF Line, f
<1> QED
  BY <1>3, <1>7 DEF CleanLine

\* A cut at a separator.  The lexer goes on behind the separator and its count.
LEMMA SepCut ==
    ASSUME IInv, TypeOK, sql # <<>>, state = "sep", state' = "ws", sql' = sql,
           NEW count \in Nat, NEW n \in Nat, AddCurrent(count, n),
           at + 1 + n <= Len(sql), \A x \in (at + 1)..(at + n) : Sym(x) \notin NL
    PROVE  IInv'
<1>1. /\ sql \in Seq(Symbols) /\ Len(sql) \in Nat /\ at \in Nat /\ at < Len(sql)
  BY Places
<1>2. Sym(at) = "GO"
  BY DEF IInv, SepInv
<1>3. at = Smaller(at, Len(sql))
  BY <1>1 DEF Smaller
<1>4. \A p \in at..(Len(sql) - 1) : p < at + 1 + n => Sym(p) \notin NL
  BY <1>1, <1>2 DEF NL
<1>5. /\ TypeOK' /\ BatchInv' /\ SkipFrom' /\ FirstInv' /\ SkipInv' /\ SepInv'
      /\ Cut' = Cut \cup {at} /\ cuts' # <<>>
  BY <1>1, <1>2, <1>3, <1>4, CutStep
<1>6. at' = at + 1 + n
  BY <1>3 DEF AddCurrent
<1>7. /\ Mode' = Mode /\ (Clean' <=> Clean)
      /\ \A i : Sym(i)' = Sym(i) /\ (Alone(i)' <=> Alone(i))
  BY SameScript
<1>8. ASSUME Clean, NEW x \in (at + 1)..(at + n) PROVE Sym(x) \in NL \cup Digits \cup {"sp", "none"}
  <2>1. x \in (at + 1)..Len(sql) /\ \A y \in (at + 1)..(x - 1) : y \in (at + 1)..(at + n)
    BY <1>1, <1>8
  <2> QED
    BY <1>8, <2>1, CleanSep
<1>9. Clean => Mode[at] = "code"
  BY DEF IInv, InStep, Over, ReadsAs
<1>10. InStep'
  <2>1. ASSUME Clean PROVE Mode[at + 1 + n] = "code"
    <3>1. \A x \in at..((at + 1 + n) - 1) : x = at \/ x \in (at + 1)..(at + n)
      BY <1>1
    <3>2. \A x \in at..((at + 1 + n) - 1) : Sym(x) \notin {"'", "--", "/*"}
      BY <1>2, <1>8, <2>1, <3>1 DEF NL, Digits
    <3>3. at + 1 + n \in at..Len(sql)
      BY <1>1
    <3> QED
      BY <1>1, <1>9, <2>1, <3>2, <3>3, ModeStays
  <2> QED
    BY <1>5, <1>6, <1>7, <2>1 DEF InStep, Over, ReadsAs
<1>11. AloneInv'
  <2>1. SUFFICES ASSUME Clean PROVE AloneInv'
    BY <1>7 DEF AloneInv
  <2>2. /\ \A i \in 0..(Len(sql) - 1) : i < at /\ Alone(i) => i \in Cut
        /\ \A i \in Cut : i = Len(sql) \/ (Sym(i) = "GO" /\ Mode[i] = "code")
    BY <2>1 DEF IInv, AloneInv
  <2>3. \A i \in 0..(Len(sql) - 1) : i < at + 1 + n /\ Alone(i) => i \in Cut \cup {at}
    <3>1. SUFFICES ASSUME NEW i \in 0..(Len(sql) - 1), i < at + 1 + n, Alone(i),
                          i # at, ~(i < at)
                   PROVE  FALSE
      BY <2>2
    <3>2. i \in (at + 1)..(at + n)
      BY <1>1, <3>1
    <3> QED
      BY <1>8, <2>1, <3>1, <3>2 DEF Alone, NL, Digits
  <2>4. \A i \in 0..(Len(sql)' - 1) : (i < at' \/ Over') /\ Alone(i)' => i \in Cut'
    BY <1>5, <1>6, <1>7, <2>3 DEF Over
  <2>5. \A i \in Cut' : i = Len(sql)' \/ (Sym(i)' = "GO" /\ Mode'[i] = "code")
    BY <1>2, <1>5, <1>7, <1>9, <2>1, <2>2
  <2> QED
    BY <2>4, <2>5 DEF AloneInv
<1> QED
  BY <1>5, <1>10, <1>11 DEF IInv

\* A run of symbols of a set.
LEMMA Run ==
    ASSUME sql \in Seq(Symbols), NEW k \in 0..Len(sql), NEW C
    PROVE  /\ First(k, Symbols \ C) \in k..Len(sql)
           /\ \A x \in k..(First(k, Symbols \ C) - 1) : Sym(x) \in C
           /\ First(k, Symbols \ C) < Len(sql) => Sym(First(k, Symbols \ C)) \notin C
<1> DEFINE S == Symbols \ C
           f == First(k, S)
<1>1. \A x \in 0..(Len(sql) - 1) : Sym(x) \in Symbols
  BY DEF Sym
<1>2. \A x \in 0..(Len(sql) - 1) : Sym(x) \in S <=> Sym(x) \notin C
  BY <1>1, Zenon
<1> HIDE DEF S
<1>3. /\ f \in k..Len(sql) /\ \A x \in k..(f - 1) : Sym(x) \notin S
      /\ f < Len(sql) => Sym(f) \in S
  BY FirstIs
<1> HIDE DEF f
<1>4. \A x \in k..(f - 1) : x \in 0..(Len(sql) - 1)
  BY <1>3
<1>5. f < Len(sql) => f \in 0..(Len(sql) - 1)
  BY <1>3
<1>6. /\ f \in k..Len(sql) /\ \A x \in k..(f - 1) : Sym(x) \in C
      /\ f < Len(sql) => Sym(f) \notin C
  BY <1>2, <1>3, <1>4, <1>5, Zenon
<1> QED
  BY <1>6, Zenon DEF f, S

LEMMA SepStep ==
    ASSUME IInv, TypeOK, sql # <<>>, StateSep
    PROVE  IInv'
<1> DEFINE i == First(After, NL \cup Digits)
           j == First(i, Symbols \ Digits)
           k == First(j, Symbols \ {"sp"})
           count == Number(i, j)
<1>0. /\ sql \in Seq(Symbols) /\ Len(sql) \in Nat /\ at \in Nat /\ at < Len(sql)
      /\ state = "sep" /\ After \in 0..Len(sql) /\ After = at + 1
  BY Places DEF StateSep, After
<1>1. /\ i \in (at + 1)..Len(sql) /\ j \in i..Len(sql) /\ k \in j..Len(sql)
      /\ \A x \in (at + 1)..(i - 1) : Sym(x) \notin NL \cup Digits
      /\ \A x \in i..(j - 1) : Sym(x) \in Digits
      /\ \A x \in j..(k - 1) : Sym(x) \in {"sp"}
      /\ j < Len(sql) => Sym(j) \notin Digits
      /\ k < Len(sql) => Sym(k) \notin {"sp"}
  <2>1. /\ i \in (at + 1)..Len(sql)
        /\ \A x \in (at + 1)..(i - 1) : Sym(x) \notin NL \cup Digits
    BY <1>0, FirstIs
  <2> HIDE DEF i
  <2>2. i \in 0..Len(sql)
    BY <1>0, <2>1
  <2>3. /\ j \in i..Len(sql) /\ \A x \in i..(j - 1) : Sym(x) \in Digits
        /\ j < Len(sql) => Sym(j) \notin Digits
    BY <1>0, <2>2, Run
  <2> HIDE DEF j
  <2>4. j \in 0..Len(sql)
    BY <1>0, <2>2, <2>3
  <2>5. /\ k \in j..Len(sql) /\ \A x \in j..(k - 1) : Sym(x) \in {"sp"}
        /\ k < Len(sql) => Sym(k) \notin {"sp"}
    BY <1>0, <2>4, Run
  <2> HIDE DEF k
  <2> QED
    BY <2>1, <2>3, <2>5, Zenon
<1>2. \/ Sym(After) \in {"a", "GO"} /\ Moves(0, "text")
      \/ i = Len(sql) /\ Moves(0, "end")
      \/ Sym(i) \in NL /\ AddCurrent(1, 0) /\ state' = "ws" /\ UNCHANGED sql
      \/ /\ Sym(i) \in Digits
         /\ \/ count > MaxInt /\ Moves(0, "text")
            \/ Sym(k) = "none" /\ Moves(0, "end")
            \/ /\ Sym(k) \in NL /\ AddCurrent(count, j - After)
               /\ state' = "ws" /\ UNCHANGED sql
            \/ Sym(k) \notin NL \cup {"none"} /\ Moves(0, "text")
  BY DEF StateSep
<1>3. Sym(i) \in Digits /\ count > MaxInt => ~Alone(at)
  <2>1. SUFFICES ASSUME Sym(i) \in Digits, count > MaxInt, Fits(at) PROVE FALSE
    BY DEF Alone
  <2>2. count <= MaxInt
    BY <2>1 DEF Fits, After
  <2>3. i \in Nat /\ j \in Nat /\ i <= j
    BY <1>0, <1>1
  <2>4. count \in Nat
    BY <2>3, NumberIsNat
  <2> HIDE DEF count
  <2> QED
    BY <2>1, <2>2, <2>4, MaxIntAssumption
<1> HIDE DEF i, j, k
<1>4. /\ state = "sep" /\ at \in Nat /\ Len(sql) \in Nat /\ at < Len(sql)
      /\ sql \in Seq(Symbols) /\ After = at + 1
  BY <1>0, Zenon
<1>5. i \in Nat /\ j \in Nat /\ k \in Nat /\ at + 1 <= i /\ i <= j /\ j <= k /\ k <= Len(sql)
  BY <1>1, <1>4
<1>6. count \in Nat
  BY <1>5, NumberIsNat
<1> HIDE DEF count
<1>7. Sym(at) = "GO"
  BY <1>4 DEF IInv, SepInv
<1>8. \A x \in at..(i - 1) : Sym(x) \notin NL
  BY <1>1, <1>4, <1>5, <1>7 DEF NL
<1>9. \A x \in at..(k - 1) : Sym(x) \notin NL
  <2>1. \A x \in at..(k - 1) : x \in at..(i - 1) \/ x \in i..(j - 1) \/ x \in j..(k - 1)
    BY <1>4, <1>5
  <2> QED
    BY <1>1, <1>8, <2>1 DEF NL, Digits
<1>10. CASE Sym(After) \in {"a", "GO"} /\ Moves(0, "text")
  <2>1. ~Clean
    <3>1. at + 1 \in (at + 1)..Len(sql) /\ \A y \in (at + 1)..((at + 1) - 1) : FALSE
      BY <1>4
    <3> QED
      BY <1>4, <1>10, <3>1, CleanSep DEF NL, Digits
  <2> QED
    BY <1>4, <1>10, <2>1, NoSymbol
<1>11. CASE i = Len(sql) /\ Moves(0, "end")
  BY <1>4, <1>8, <1>11, NoSymbol
<1>12. CASE Sym(i) \in NL /\ AddCurrent(1, 0) /\ state' = "ws" /\ UNCHANGED sql
  <2>1. at + 1 + 0 <= Len(sql) /\ \A x \in (at + 1)..(at + 0) : FALSE
    BY <1>4
  <2> QED
    BY <1>4, <1>12, <2>1, SepCut
<1>13. CASE Sym(i) \in Digits /\ count > MaxInt /\ Moves(0, "text")
  BY <1>3, <1>4, <1>7, <1>13, NoSymbol
<1>14. CASE Sym(i) \in Digits /\ Sym(k) = "none" /\ Moves(0, "end")
  <2>1. k = Len(sql)
    BY <1>4, <1>5, <1>14, SymIs
  <2> QED
    BY <1>4, <1>9, <1>14, <2>1, NoSymbol
<1>15. CASE /\ Sym(i) \in Digits /\ Sym(k) \in NL /\ AddCurrent(count, j - After)
            /\ state' = "ws" /\ UNCHANGED sql
  <2>1. /\ j - After \in Nat /\ at + 1 + (j - After) = j /\ at + (j - After) = j - 1
        /\ j <= Len(sql)
    BY <1>4, <1>5
  <2>2. \A x \in (at + 1)..(j - 1) : Sym(x) \notin NL
    BY <1>4, <1>5, <1>9
  <2> QED
    BY <1>4, <1>6, <1>15, <2>1, <2>2, SepCut
<1>16. CASE Sym(i) \in Digits /\ Sym(k) \notin NL \cup {"none"} /\ Moves(0, "text")
  <2>1. ASSUME Clean PROVE FALSE
    <3>1. k < Len(sql)
      BY <1>4, <1>5, <1>16, SymIs
    <3>2. k \in (at + 1)..Len(sql) /\ i \in (at + 1)..Len(sql)
      BY <1>4, <1>5
    <3>3. /\ \A y \in (at + 1)..(k - 1) : y \in at..(k - 1)
          /\ \A y \in (at + 1)..(i - 1) : y \in at..(i - 1)
      BY <1>4
    <3>4. /\ k \in Line(at) /\ i \in Line(at) /\ CleanLine(at)
          /\ Sym(k) \in NL \cup Digits \cup {"sp", "none"}
      BY <1>4, <1>8, <1>9, <2>1, <3>2, <3>3, CleanSep
    <3>5. Sym(k) \in Digits
      BY <1>1, <1>16, <3>1, <3>4
    <3>6. j # i
      BY <1>1, <1>5, <1>16, <3>1
    <3>7. i < k /\ j \in i..k
      BY <1>5, <3>6
    <3>8. Sym(j) \in Digits
      BY <1>16, <3>4, <3>5, <3>7 DEF CleanLine
    <3> QED
      BY <1>1, <1>5, <3>1, <3>8
  <2> QED
    BY <1>4, <1>16, <2>1, NoSymbol
<1> QED
  BY <1>2, <1>10, <1>11, <1>12, <1>13, <1>14, <1>15, <1>16

LEMMA EndStep ==
    ASSUME IInv, TypeOK, sql # <<>>, SplitEnd
    PROVE  IInv'
<1> DEFINE to == Smaller(at, Len(sql))
<1>1. state = "end" /\ state' = "done" /\ AddCurrent(1, 0) /\ sql' = sql
  BY DEF SplitEnd
<1>2. sql \in Seq(Symbols) /\ Len(sql) \in Nat /\ at \in Nat
  BY Places
<1>3. /\ to \in Nat /\ to <= Len(sql)
      /\ to < Len(sql) => to = at /\ at < Len(sql)
  BY <1>2 DEF Smaller
<1> HIDE DEF to
<1>4. /\ to < Len(sql) => Sym(to) = "GO"
      /\ \A p \in to..(Len(sql) - 1) : Sym(p) \notin NL
  BY <1>1, <1>2, <1>3 DEF IInv, SepInv
<1>5. /\ TypeOK' /\ BatchInv' /\ SkipFrom' /\ FirstInv' /\ SkipInv' /\ SepInv'
      /\ Cut' = Cut \cup {to} /\ cuts' # <<>>
  BY <1>1, <1>4, CutStep DEF to
<1>6. InStep'
  BY <1>1 DEF InStep, Over
<1>7. /\ Mode' = Mode /\ (Clean' <=> Clean)
      /\ \A i : Sym(i)' = Sym(i) /\ (Alone(i)' <=> Alone(i))
  BY <1>1, SameScript
<1>8. AloneInv'
  <2>1. SUFFICES ASSUME Clean PROVE AloneInv'
    BY <1>7 DEF AloneInv
  <2>2. /\ \A i \in 0..(Len(sql) - 1) : Alone(i) => i \in Cut
        /\ \A i \in Cut : i = Len(sql) \/ (Sym(i) = "GO" /\ Mode[i] = "code")
    BY <1>1, <2>1 DEF IInv, AloneInv, Over
  <2>3. to < Len(sql) => Mode[to] = "code"
    BY <1>1, <1>3, <2>1 DEF IInv, InStep
  <2>4. \A i \in 0..(Len(sql)' - 1) : Alone(i)' => i \in Cut'
    BY <1>1, <1>5, <1>7, <2>2
  <2>5. \A i \in Cut' : i = Len(sql)' \/ (Sym(i)' = "GO" /\ Mode'[i] = "code")
    BY <1>1, <1>2, <1>3, <1>4, <1>5, <1>7, <2>2, <2>3
  <2> QED
    BY <1>1, <2>4, <2>5 DEF AloneInv
<1> QED
  BY <1>1, <1>5, <1>6, <1>8 DEF IInv

-----------------------------------------------------------------------------
(* Theorems.                                                                *)

LEMMA InitInv == Init => IInv
<1>1. SUFFICES ASSUME Init PROVE IInv
  OBVIOUS
<1>2. /\ sql \in UNION {[1..n -> Symbols] : n \in 0..MaxLen}
      /\ at = 0 /\ start = 0 /\ skip = {} /\ cuts = <<>>
      /\ batch = (IF sql = <<>> THEN <<{}>> ELSE <<>>)
      /\ state = (IF sql = <<>> THEN "done" ELSE "ws")
  BY <1>1, Zenon DEF Init
<1>3. sql \in Seq(Symbols) /\ Len(sql) \in Nat /\ Len(sql) <= MaxLen
  <2>1. PICK n \in 0..MaxLen : sql \in [1..n -> Symbols]
    BY <1>2
  <2> QED
    BY <2>1, MaxLenAssumption
<1>4. TypeOK
  <2>1. batch \in Seq(SUBSET (0..(Len(sql) - 1)))
    <3>1. {} \in SUBSET (0..(Len(sql) - 1))
      OBVIOUS
    <3>2. \A S : \A e \in S : <<e>> \in Seq(S) /\ <<>> \in Seq(S)
      OBVIOUS
    <3> QED
      BY <1>2, <3>1, <3>2, Zenon
  <2>2. cuts \in Seq([from : 0..Len(sql), to : 0..Len(sql), times : Nat])
    BY <1>2
  <2>3. at \in 0..(Len(sql) + 1) /\ start \in 0..(Len(sql) + 1) /\ at <= Len(sql)
    BY <1>2, <1>3, MaxLenAssumption
  <2>4. start <= Smaller(at, Len(sql))
    BY <1>2, <1>3 DEF Smaller
  <2>5. skip \subseteq 0..(Len(sql) - 1)
    BY <1>2
  <2>6. /\ state \in {"sep", "text", "ws", "line", "block", "string", "end", "done"}
        /\ state \notin {"sep", "text"}
    BY <1>2
  <2> QED
    BY <1>3, <2>1, <2>2, <2>3, <2>4, <2>5, <2>6, Zenon DEF TypeOK
<1>5. ASSUME sql # <<>>
      PROVE  /\ SepInv /\ BatchInv /\ SkipFrom
             /\ InStep /\ SkipInv /\ FirstInv /\ AloneInv
  <2>1. state = "ws" /\ batch = <<>> /\ Len(cuts) = 0
    BY <1>2, <1>5
  <2>2. SepInv /\ BatchInv /\ SkipFrom /\ FirstInv
    BY <1>2, <1>3, <2>1 DEF SepInv, BatchInv, SkipFrom, FirstInv
  <2>3. InStep
    BY <1>2, <1>3, <2>1, ModeStep DEF InStep, ReadsAs
  <2>4. SkipInv
    BY <1>2, <1>3, <2>1 DEF SkipInv, Smaller
  <2>5. AloneInv
    BY <1>2, <2>1 DEF AloneInv, Cut, Over
  <2> QED
    BY <2>2, <2>3, <2>4, <2>5
<1> QED
  BY <1>2, <1>4, <1>5 DEF IInv

LEMMA NextInv == IInv /\ [Next]_vars => IInv'
<1>1. SUFFICES ASSUME IInv, [Next]_vars PROVE IInv'
  OBVIOUS
<1>2. TypeOK
  BY <1>1 DEF IInv
<1>3. CASE UNCHANGED vars
  <2>1. /\ sql' = sql /\ at' = at /\ start' = start /\ skip' = skip
        /\ batch' = batch /\ state' = state /\ cuts' = cuts
    BY <1>3 DEF vars
  <2>2. /\ Mode' = Mode /\ (Clean' <=> Clean)
        /\ \A i : /\ Sym(i)' = Sym(i) /\ (Escape(i)' <=> Escape(i))
                 /\ (Escaped(i)' <=> Escaped(i)) /\ (EscapeAt(i)' <=> EscapeAt(i))
                 /\ EscapeLen(i)' = EscapeLen(i)
                 /\ (Alone(i)' <=> Alone(i)) /\ (Begins(i)' <=> Begins(i))
    BY <2>1, SameScript
  <2>3. Cut' = Cut /\ \A p : InBatch(p)' <=> InBatch(p)
    BY <2>1 DEF Cut, InBatch
  <2>4. \A p : (LeftOut(p)' <=> LeftOut(p)) /\ (OnSeparatorLine(p)' <=> OnSeparatorLine(p))
    BY <2>1, <2>2, <2>3 DEF LeftOut, OnSeparatorLine
  <2>5. TypeOK' /\ (SepInv => SepInv')
    BY <1>2, <2>1, <2>2 DEF TypeOK, SepInv
  <2>6. (BatchInv => BatchInv') /\ (SkipFrom => SkipFrom')
    BY <2>1, <2>2, <2>3, <2>4 DEF BatchInv, SkipFrom
  <2>7. (InStep => InStep') /\ (SkipInv => SkipInv')
    BY <2>1, <2>2 DEF InStep, Over, SkipInv
  <2>8. FirstInv => FirstInv'
    BY <2>1, <2>2 DEF FirstInv
  <2>9. AloneInv => AloneInv'
    BY <2>1, <2>2, <2>3 DEF AloneInv, Over
  <2> QED
    BY <1>1, <2>1, <2>5, <2>6, <2>7, <2>8, <2>9 DEF IInv
<1>4. CASE Next
  <2>1. sql # <<>>
    BY <1>1, <1>4 DEF IInv, Next, StateSep, StateText, StateWhitespace,
       StateLineComment, StateMultiComment, StateString, SplitEnd
  <2> QED
    BY <1>1, <1>2, <1>4, <2>1, SepStep, TextStep, WhitespaceStep, LineCommentStep,
       MultiCommentStep, StringStep, EndStep DEF Next
<1> QED
  BY <1>1, <1>3, <1>4

LEMMA InductiveInvariant == Spec => []IInv
BY InitInv, NextInv, PTL DEF Spec

\* For scripts of every length, the lexer's variables have their types, and no
\* index or slice expression of the lexer is out of range.
THEOREM TypeCorrect == Spec => []TypeOK
<1>1. IInv => TypeOK
  BY DEF IInv
<1> QED
  BY <1>1, InductiveInvariant, PTL

\* Split cuts a clean script at every separator that is alone on its line, if
\* its count is within an int64, and nowhere inside of strings and comments: its
\* state functions take every symbol for what a reading of the whole script
\* takes it for.
THEOREM CutsAtSeparators == Spec => []SplitsAtSeparators
<1>1. IInv => SplitsAtSeparators
  BY DEF IInv, AloneInv, Over, SplitsAtSeparators
<1> QED
  BY <1>1, InductiveInvariant, PTL

\* The batches that Split returns for any script, clean or not, have its symbols
\* in order, and a symbol that is in none of them is in the line of a separator,
\* in a part with the count 0, or at the distance from the start of its part
\* that an escaped newline of the part has from the start of the script.
THEOREM NothingElseLost == Spec => []OnlySeparatorsLost
<1>1. IInv => OnlySeparatorsLost
  BY DEF IInv, BatchInv, OnlySeparatorsLost
<1> QED
  BY <1>1, InductiveInvariant, PTL

\* The first part of any script, if it is a batch, is one without the escaped
\* newlines of its strings, CR LF included, and with all its other symbols: up to
\* the first cut lexer.Skip has their indices and no others.
THEOREM FirstBatchIsRight == Spec => []EscapesAreDropped
<1>1. SUFFICES ASSUME IInv PROVE EscapesAreDropped
  BY InductiveInvariant, PTL
<1>2. state = "done" /\ sql # <<>> => cuts # <<>>
  BY <1>1 DEF IInv, SkipInv
<1> QED
  BY <1>1, <1>2 DEF IInv, FirstInv, EscapesAreDropped

\* How many steps are left at most.
Weight(s) == IF s = "ws" THEN 4 ELSE IF s = "sep" THEN 3
             ELSE IF s = "end" THEN 1 ELSE IF s = "done" THEN 0 ELSE 2
Rank == 5 * (Len(sql) + 1 - at) + Weight(state)

LEMMA MovesRank ==
    ASSUME TypeOK, NEW n \in Nat, NEW s, sql' = sql, at' = at + n, state' = s,
           n > 0 \/ Weight(s) < Weight(state)
    PROVE  Rank' < Rank
<1>1. sql' = sql /\ at' = at + n /\ state' = s
  OBVIOUS
<1>2. Len(sql) \in Nat /\ at \in Nat
  BY Places
<1>3. \A w : Weight(w) \in 0..4
  BY DEF Weight
<1>4. Rank' = 5 * (Len(sql) + 1 - (at + n)) + Weight(s)
  BY <1>1 DEF Rank, Weight
<1>5. Weight(s) \in 0..4 /\ Weight(state) \in 0..4
  BY <1>3
<1> QED
  BY <1>2, <1>4, <1>5 DEF Rank

LEMMA AddCurrentRank ==
    ASSUME TypeOK, state # "done", sql' = sql, NEW count, NEW n \in Nat, AddCurrent(count, n),
           state' \in {"ws", "done"}, at < Len(sql) \/ Weight(state') < Weight(state)
    PROVE  Rank' < Rank
<1>1. Len(sql) \in Nat /\ at \in Nat
  BY Places
<1>2. at' = Smaller(at, Len(sql)) + 1 + n
  BY DEF AddCurrent
<1>3. at' \in Nat /\ (at < Len(sql) => at' >= at + 1)
  BY <1>1, <1>2 DEF Smaller
<1>4. Weight(state') \in 0..4 /\ Weight(state) \in 0..4
  BY DEF Weight
<1>5. /\ Rank' = 5 * (Len(sql) + 1 - at') + Weight(state')
      /\ Rank = 5 * (Len(sql) + 1 - at) + Weight(state)
  BY DEF Rank, Weight
<1>6. /\ \A l, a, b \in Nat : \A v, w \in 0..4 :
            b >= a + 1 => 5 * (l + 1 - b) + v < 5 * (l + 1 - a) + w
      /\ \A l, a, b \in Nat : \A v, w \in 0..4 :
            b >= a /\ v < w => 5 * (l + 1 - b) + v < 5 * (l + 1 - a) + w
  OBVIOUS
<1>7. CASE at < Len(sql)
  BY <1>1, <1>3, <1>4, <1>5, <1>6, <1>7
<1>8. CASE ~(at < Len(sql))
  <2>1. at' >= Len(sql) + 1
    BY <1>1, <1>2, <1>8 DEF Smaller
  <2>2. at <= Len(sql) + 1 /\ Weight(state') < Weight(state)
    BY <1>1, <1>8, Places
  <2>3. at' >= at
    BY <1>1, <1>3, <2>1, <2>2
  <2> QED
    BY <1>1, <1>3, <1>4, <1>5, <1>6, <2>2, <2>3
<1> QED
  BY <1>7, <1>8

\* Every step of every state function brings the lexer nearer to its end, also
\* where stateWhitespace, stateSep and stateText hand a position to each other
\* without moving: Split has no loop that does not end.
THEOREM LexerAdvances == Spec => [](Rank \in Nat) /\ [][Rank' < Rank]_vars
<1>1. IInv => Rank \in Nat
  <2>1. SUFFICES ASSUME IInv PROVE Rank \in Nat
    OBVIOUS
  <2>2. TypeOK
    BY <2>1 DEF IInv
  <2>3. Len(sql) \in Nat /\ at \in 0..(Len(sql) + 1)
    BY <2>2, Places
  <2>4. Weight(state) \in 0..4
    BY DEF Weight
  <2> QED
    BY <2>3, <2>4 DEF Rank
<1>2. IInv /\ [Next]_vars => [Rank' < Rank]_vars
  <2>1. SUFFICES ASSUME IInv, Next PROVE Rank' < Rank
    OBVIOUS
  <2>2. TypeOK
    BY <2>1 DEF IInv
  <2>3. CASE StateText
    BY <2>2, <2>3, MovesRank DEF StateText, NextIn, Moves
  <2>4. CASE StateWhitespace
    BY <2>2, <2>4, MovesRank DEF StateWhitespace, Moves, Weight
  <2>5. CASE StateLineComment
    BY <2>2, <2>5, MovesRank DEF StateLineComment, NextIn, Moves, Weight
  <2>6. CASE StateMultiComment
    BY <2>2, <2>6, MovesRank DEF StateMultiComment, NextIn, Moves
  <2>7. CASE StateString
    <3>1. EscapeLen(at) \in Nat /\ EscapeLen(at) > 0
      BY DEF EscapeLen
    <3> QED
      BY <2>2, <2>7, <3>1, MovesRank DEF StateString, NextIn, Moves, Weight
  <2>8. CASE StateSep
    <3>1. state = "sep" /\ Weight("sep") = 3 /\ Weight("text") = 2 /\ Weight("end") = 1
      BY <2>8 DEF StateSep, Weight
    <3>2. Len(sql) \in Nat /\ at \in Nat /\ at < Len(sql)
      BY <2>2, <3>1, Places
    <3>3. CASE Moves(0, "text") \/ Moves(0, "end")
      BY <2>2, <3>1, <3>3, MovesRank DEF Moves
    <3>4. CASE AddCurrent(1, 0) /\ state' = "ws" /\ sql' = sql
      BY <2>2, <3>1, <3>2, <3>4, AddCurrentRank
    <3>5. ASSUME NEW i, i = First(After, NL \cup Digits),
                 NEW j, j = First(i, Symbols \ Digits),
                 AddCurrent(Number(i, j), j - After), state' = "ws", sql' = sql
          PROVE  Rank' < Rank
      <4>1. sql \in Seq(Symbols) /\ After \in 0..Len(sql) /\ After \in Nat
        BY <2>2, <3>2, Places DEF After
      <4>2. i \in After..Len(sql)
        BY <3>5, <4>1, FirstIs
      <4>3. i \in 0..Len(sql)
        BY <4>1, <4>2
      <4>4. j \in i..Len(sql)
        BY <3>5, <4>1, <4>3, FirstIs
      <4>5. j - After \in Nat
        BY <4>1, <4>2, <4>4
      <4> QED
        BY <2>2, <3>1, <3>2, <3>5, <4>5, AddCurrentRank
    <3> QED
      BY <2>8, <3>3, <3>4, <3>5 DEF StateSep
  <2>9. CASE SplitEnd
    BY <2>2, <2>9, AddCurrentRank DEF SplitEnd, Weight
  <2> QED
    BY <2>1, <2>3, <2>4, <2>5, <2>6, <2>7, <2>8, <2>9 DEF Next
<1> QED
  BY <1>1, <1>2, InductiveInvariant, PTL DEF Spec

=============================================================================
