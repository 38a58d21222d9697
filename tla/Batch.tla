------------------------------- MODULE Batch -------------------------------
(***************************************************************************)
(* batch.Split: a lexer cuts a script at the lines with the separator,     *)
(* outside of strings and comments, and drops newlines that are escaped    *)
(* with a backslash inside of strings.  One action per state function; a   *)
(* step of a state function that loops is one turn of the loop.            *)
(*                                                                         *)
(* A script is a sequence of symbols: the separator "GO", "--", "/*" and   *)
(* "*/" are one symbol each, "cr" and "nl" stand for a carriage return and *)
(* a newline, "sp" for a space, "a" for a letter, "0" and "2" for digits.  *)
(* A batch is the set of indices of the symbols that it is made of: its    *)
(* text is these symbols, in order.                                        *)
(***************************************************************************)
EXTENDS Integers, Sequences

CONSTANTS
    MaxLen,  \* bound: symbols of a script
    Limit,   \* the limit for the number of times a batch is repeated (1000)
    MaxInt   \* the largest count that strconv.ParseInt returns (2^63 - 1)

ASSUME MaxLenAssumption == MaxLen \in Nat
ASSUME LimitAssumption == Limit \in Nat \ {0}
ASSUME MaxIntAssumption == MaxInt \in Nat

Symbols == {"GO", "a", "cr", "nl", "sp", "'", "0", "2", "--", "/*", "*/", "\\"}
Digits == {"0", "2"}
NL == {"cr", "nl"}

VARIABLES
    sql,    \* lexer.Sql
    at,     \* lexer.At
    start,  \* lexer.Start
    skip,   \* lexer.Skip
    batch,  \* lexer.Batch
    state,  \* the state function to be called
    cuts    \* history: the parts of the script that AddCurrent took, and
            \* the number of times that the separator asked for

vars == <<sql, at, start, skip, batch, state, cuts>>

Smaller(m, n) == IF m < n THEN m ELSE n

\* Every variable has its type, and every index and slice expression of the
\* lexer is within the script: Sql[At] in stateText, Sql[At:] in stateSep and
\* stateMultiComment, Sql[Start:At] in AddCurrent.
TypeOK ==
    /\ sql \in Seq(Symbols) /\ Len(sql) <= MaxLen
    /\ at \in 0..(Len(sql) + 1) /\ start \in 0..(Len(sql) + 1)
    /\ skip \subseteq 0..(Len(sql) - 1)
    /\ batch \in Seq(SUBSET (0..(Len(sql) - 1)))
    /\ cuts \in Seq([from : 0..Len(sql), to : 0..Len(sql), times : Nat])
    /\ state \in {"sep", "text", "ws", "line", "block", "string", "end", "done"}
    /\ state \in {"sep", "text"} => at < Len(sql)
    /\ state \notin {"end", "done"} => at <= Len(sql)
    /\ state # "done" => start <= Smaller(at, Len(sql))

\* Split returns a script that is shorter than the separator as it is.
Init ==
    /\ sql \in UNION {[1..n -> Symbols] : n \in 0..MaxLen}
    /\ at = 0 /\ start = 0 /\ skip = {} /\ cuts = <<>>
    /\ batch = IF sql = <<>> THEN <<{}>> ELSE <<>>
    /\ state = IF sql = <<>> THEN "done" ELSE "ws"

Sym(i) == IF i < Len(sql) THEN sql[i + 1] ELSE "none"

-----------------------------------------------------------------------------
\* Mutant of AddCurrent: Start stays where it was.
AddCurrentKeepsStart(count, n) ==
    LET to == Smaller(at, Len(sql))
        text == {i \in start..(to - 1) : i - start \notin skip}
    IN  /\ batch' = IF text = {} THEN batch
                    ELSE batch \o [i \in 1..Smaller(count, Limit) |-> text]
        /\ skip' = {} /\ at' = to + 1 + n /\ UNCHANGED start
        /\ cuts' = Append(cuts, [from |-> start, to |-> to, times |-> count])

\* AddCurrent(count), and a move of n past the separator.  The indices to skip
\* count from the start of the script, those of the text from Start.
AddCurrent(count, n) ==
    LET to == Smaller(at, Len(sql))
        text == {i \in start..(to - 1) : i - start \notin skip}
    IN  /\ batch' = IF text = {} THEN batch
                    ELSE batch \o [i \in 1..Smaller(count, Limit) |-> text]
        /\ skip' = {} /\ at' = to + 1 + n /\ start' = to + 1 + n
        /\ cuts' = Append(cuts, [from |-> start, to |-> to, times |-> count])

Moves(n, s) ==
    /\ at' = at + n /\ state' = s
    /\ UNCHANGED <<sql, start, skip, batch, cuts>>

\* Mutant of NextIn: the end of the script is not looked for.
NextInUnchecked(s) == Moves(1, s)

\* lexer.Next: on to the next symbol, or nil.
NextIn(s) == Moves(1, IF at + 1 < Len(sql) THEN s ELSE "end")

-----------------------------------------------------------------------------
(* The state functions.                                                     *)

\* The symbols after the separator, and the first of them from k on that is
\* in a set; Len(sql) if there is none.
After == at + 1
First(k, S) == IF \E i \in k..(Len(sql) - 1) : Sym(i) \in S
               THEN CHOOSE i \in k..(Len(sql) - 1) :
                       Sym(i) \in S /\ \A j \in k..(i - 1) : Sym(j) \notin S
               ELSE Len(sql)

\* The number in the digits from i to j - 1.
Digit(symbol) == IF symbol = "2" THEN 2 ELSE 0
Number(i, j) ==
    LET n[k \in i..j] == IF k = i THEN 0 ELSE 10 * n[k - 1] + Digit(Sym(k - 1))
    IN  n[j]

\* Mutant of StateSep: a line of text that begins with the separator goes
\* back to stateWhitespace.
StateSepBack ==
    /\ state = "sep"
    /\ \/ Sym(After) \in {"a", "GO"} /\ Moves(0, "ws")
       \/ Sym(After) \notin {"a", "GO"} /\ AddCurrent(1, 0) /\ state' = "ws" /\ UNCHANGED sql

\* A separator and its count end at a newline.  Other symbols between the
\* separator and its count are passed over; after the count they make the
\* line a line of text, and so does a count that ParseInt refuses.
StateSep ==
    /\ state = "sep"
    /\ LET i == First(After, NL \cup Digits)
           j == First(i, Symbols \ Digits)
           k == First(j, Symbols \ {"sp"})
           count == Number(i, j)
       IN  \/ Sym(After) \in {"a", "GO"} /\ Moves(0, "text")
           \/ Sym(After) \notin {"a", "GO"} /\ i = Len(sql) /\ Moves(0, "end")
           \/ /\ Sym(After) \notin {"a", "GO"} /\ Sym(i) \in NL
              /\ AddCurrent(1, 0) /\ state' = "ws" /\ UNCHANGED sql
           \/ /\ Sym(After) \notin {"a", "GO"} /\ Sym(i) \in Digits
              /\ \/ count > MaxInt /\ Moves(0, "text")
                 \/ count <= MaxInt /\ Sym(k) = "none" /\ Moves(0, "end")
                 \/ /\ count <= MaxInt /\ Sym(k) \in NL
                    /\ AddCurrent(count, j - After) /\ state' = "ws" /\ UNCHANGED sql
                 \/ count <= MaxInt /\ Sym(k) \notin NL \cup {"none"} /\ Moves(0, "text")

\* Mutant of StateText: a quote does not begin a string.
StateTextUnquoted ==
    /\ state = "text"
    /\ \/ Sym(at) = "--" /\ Moves(1, "line")
       \/ Sym(at) = "/*" /\ Moves(1, "block")
       \/ Sym(at) \in NL /\ Moves(1, "ws")
       \/ Sym(at) \notin NL \cup {"--", "/*"} /\ NextIn("text")

StateText ==
    /\ state = "text"
    /\ \/ Sym(at) = "--" /\ Moves(1, "line")
       \/ Sym(at) = "/*" /\ Moves(1, "block")
       \/ Sym(at) = "'" /\ Moves(1, "string")
       \/ Sym(at) \in NL /\ Moves(1, "ws")
       \/ Sym(at) \notin NL \cup {"--", "/*", "'"} /\ NextIn("text")

StateWhitespace ==
    /\ state = "ws"
    /\ \/ Sym(at) = "none" /\ Moves(0, "end")
       \/ Sym(at) \in NL \cup {"sp"} /\ Moves(1, "ws")
       \/ Sym(at) = "GO" /\ Moves(0, "sep")
       \/ Sym(at) \notin NL \cup {"none", "sp", "GO"} /\ Moves(0, "text")

StateLineComment ==
    /\ state = "line"
    /\ \/ Sym(at) = "none" /\ Moves(0, "end")
       \/ Sym(at) \in NL /\ Moves(1, "ws")
       \/ Sym(at) \notin NL \cup {"none"} /\ NextIn("line")

StateMultiComment ==
    /\ state = "block"
    /\ IF Sym(at) = "*/" THEN Moves(1, "ws") ELSE NextIn("block")

\* A backslash before a newline, and how many symbols the two are.
EscapeAt(i) == Sym(i) = "\\" /\ Sym(i + 1) \in NL
EscapeLen(i) == IF Sym(i + 1) = "cr" /\ Sym(i + 2) = "nl" THEN 3 ELSE 2

\* Mutant of StateString: the newline of an escaped CR LF stays.
StateStringKeepsNewline ==
    /\ state = "string"
    /\ \/ Sym(at) = "none" /\ Moves(0, "end")
       \/ /\ EscapeAt(at) /\ at' = at + 2 /\ skip' = skip \cup {at, at + 1}
          /\ UNCHANGED <<sql, start, batch, state, cuts>>
       \/ Sym(at) = "'" /\ Sym(at + 1) = "'" /\ Moves(2, "string")
       \/ Sym(at) = "'" /\ Sym(at + 1) # "'" /\ Moves(1, "ws")
       \/ Sym(at) \notin {"none", "'"} /\ ~EscapeAt(at) /\ NextIn("string")

StateString ==
    /\ state = "string"
    /\ \/ Sym(at) = "none" /\ Moves(0, "end")
       \/ /\ EscapeAt(at) /\ at' = at + EscapeLen(at)
          /\ skip' = skip \cup at..(at + EscapeLen(at) - 1)
          /\ UNCHANGED <<sql, start, batch, state, cuts>>
       \/ Sym(at) = "'" /\ Sym(at + 1) = "'" /\ Moves(2, "string")
       \/ Sym(at) = "'" /\ Sym(at + 1) # "'" /\ Moves(1, "ws")
       \/ Sym(at) \notin {"none", "'"} /\ ~EscapeAt(at) /\ NextIn("string")

\* The end of Split.
SplitEnd ==
    /\ state = "end" /\ state' = "done"
    /\ AddCurrent(1, 0)
    /\ UNCHANGED sql

Next == \/ StateSep \/ StateText \/ StateWhitespace \/ StateLineComment
        \/ StateMultiComment \/ StateString \/ SplitEnd

Spec == Init /\ [][Next]_vars /\ WF_vars(Next)

-----------------------------------------------------------------------------
(* Properties, against a reading of the script that does not split it.      *)

\* Where the reading is after a symbol: a string, a comment or code begins,
\* or nothing changes.
ModeAfter(m, symbol) ==
    IF m = "code"
    THEN IF symbol = "'" THEN "string" ELSE IF symbol = "--" THEN "line"
         ELSE IF symbol = "/*" THEN "block" ELSE "code"
    ELSE IF \/ m = "string" /\ symbol = "'"
            \/ m = "line" /\ symbol \in NL
            \/ m = "block" /\ symbol = "*/"
         THEN "code" ELSE m

\* Where the symbol with index i is: in code, or in what.
Mode ==
    LET m[i \in 0..Len(sql)] ==
          IF i = 0 THEN "code" ELSE ModeAfter(m[i - 1], sql[i])
    IN  m

Line(i) == i..First(i, NL)

\* Separators in code are followed by spaces and one number at most.
CleanLine(i) ==
    /\ \A j \in Line(i) \ {i} : Sym(j) \in NL \cup Digits \cup {"sp", "none"}
    /\ \A j, k \in Line(i) : Sym(j) \in Digits /\ j < k /\ Sym(k) \in Digits =>
          \A h \in j..k : Sym(h) \in Digits
Clean ==
    \A i \in 0..(Len(sql) - 1) : Sym(i) = "GO" /\ Mode[i] = "code" => CleanLine(i)

\* The number after the separator at i, if there is one, is one that ParseInt
\* returns.
Fits(i) ==
    LET d == First(i + 1, NL \cup Digits)
    IN  Sym(d) \in Digits => Number(d, First(d, Symbols \ Digits)) <= MaxInt

\* Nothing but spaces is before i in its line, which begins at h.  A newline in
\* a string or in a block comment does not count.
Begins(i) ==
    \E h \in 0..i :
       /\ h = 0 \/ (Sym(h - 1) \in NL /\ Mode[h - 1] # "string" /\ Mode[h - 1] # "block")
       /\ \A j \in h..(i - 1) : Sym(j) = "sp"

\* A separator alone on a line that is not the last.
Alone(i) ==
    /\ Sym(i) = "GO" /\ Mode[i] = "code" /\ Begins(i)
    /\ First(i, NL) < Len(sql) /\ Fits(i)

Cut == {cuts[i].to : i \in 1..Len(cuts)}

\* Every separator that is alone on its line ends a batch, unless its count is
\* beyond an int64, and no batch ends inside of a string or a comment, however
\* strings, comments and separators follow each other (stateWhitespace to
\* stateString).
SplitsAtSeparators ==
    state = "done" /\ Clean /\ sql # <<>> =>
        /\ \A i \in 0..(Len(sql) - 1) : Alone(i) => i \in Cut
        /\ \A i \in Cut : i = Len(sql) \/ (Sym(i) = "GO" /\ Mode[i] = "code")

\* Batches are copies of each other, or all of one is before all of the other.
InOrder(b, c) == b = c \/ \A p \in b, q \in c : p < q

InBatch(p) == \E i \in 1..Len(batch) : p \in batch[i]

\* The symbol p is in the line of a separator that was cut at.
OnSeparatorLine(p) == \E i \in 0..p : i \in Cut /\ \A j \in i..p : Sym(j) \notin NL

\* AddCurrent left p out of its part: the part is to be repeated zero times, or
\* p is as far from the start of the part as a symbol of an escaped newline of
\* the part is from the start of the script.
LeftOut(p) ==
    \E c \in 1..Len(cuts) :
       /\ cuts[c].from <= p /\ p < cuts[c].to
       /\ \/ cuts[c].times = 0
          \/ \E e \in cuts[c].from..(cuts[c].to - 1) :
                EscapeAt(e) /\ p - cuts[c].from \in e..(e + EscapeLen(e) - 1)

\* The batches of any script, clean or not, hold its symbols in order and none
\* twice, but for the copies that a count asks for.  A symbol that is in no
\* batch is in the line of a separator, from the separator on, or AddCurrent
\* left it out for the count 0 or for lexer.Skip.
OnlySeparatorsLost ==
    state = "done" /\ sql # <<>> =>
        /\ \A i, j \in 1..Len(batch) : i < j => InOrder(batch[i], batch[j])
        /\ \A p \in 0..(Len(sql) - 1) : InBatch(p) \/ OnSeparatorLine(p) \/ LeftOut(p)

\* The symbol i is of a newline that is escaped inside of a string, not its
\* backslash; or it is the backslash.
Escaped(i) ==
    \E b \in 0..(i - 1) : EscapeAt(b) /\ Mode[b] = "string" /\ i < b + EscapeLen(b)
Escape(i) == (EscapeAt(i) /\ Mode[i] = "string") \/ Escaped(i)

\* The part of a script up to the first cut, if its count is not 0, is the first
\* batch, without the newlines that are escaped inside of its strings, CR LF
\* included, and without anything else lost (stateString, AddCurrent).  It says
\* nothing of later batches: lexer.Skip counts from the start of the script and
\* AddCurrent from the start of the batch.
EscapesAreDropped ==
    state = "done" /\ sql # <<>> =>
        LET want == {i \in 0..(cuts[1].to - 1) : ~Escape(i)}
        IN  want # {} /\ cuts[1].times > 0 => batch # <<>> /\ batch[1] = want

\* The lexer ends (stateText and stateSep hand the position to each other).
SplitEnds == <>(state = "done")
=============================================================================
