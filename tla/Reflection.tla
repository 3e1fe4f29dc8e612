----------------------------- MODULE Reflection -----------------------------
(***************************************************************************)
(* boost::pfr, the library by which serde.hpp walks over the fields of a   *)
(* message: how it counts the fields of a struct, binds them to names by   *)
(* structured bindings, and visits, compares and streams them one by one.  *)
(*                                                                         *)
(* These are pure functions of the compiler; an action asks one question,  *)
(* and the answer is compared with what the documentation promises.  What  *)
(* the library rejects with a static_assert is never asked.                *)
(***************************************************************************)
EXTENDS Integers, SequencesExt

CONSTANTS
  MaxCounted, \* bound: fields of a struct that is counted
  MaxTied,    \* bound: fields of a struct that is bound to names
  MaxFields,  \* bound: fields of a struct that is compared or streamed
  Numbers     \* what such a field may hold

ASSUME FieldsAssumption == MaxCounted \in Nat /\ MaxTied \in Nat /\ MaxFields \in Nat
ASSUME NumbersAssumption == \A m \in Numbers : m \in Int

VARIABLES question, answer
reflectionVars == <<question, answer>>

-----------------------------------------------------------------------------
(* The compiler's layout of a struct, from its fields' sizes and alignments. *)
RoundedUp(n, width) == ((n + width - 1) \div width) * width

Ends(sizes, aligns) ==
  LET end[i \in 0..Len(sizes)] ==
        IF i = 0 THEN 0 ELSE RoundedUp(end[i - 1], aligns[i]) + sizes[i]
  IN  end

StructAlign(aligns) == Max({1} \cup ToSet(aligns))
StructSize(sizes, aligns) ==
  IF sizes = <<>> THEN 1 ELSE RoundedUp(Ends(sizes, aligns)[Len(sizes)], StructAlign(aligns))

-----------------------------------------------------------------------------
(* fields_count.  A struct can be made from so many initialisers; if from    *)
(* none, then from every number up to its fields: the search goes forward by *)
(* a step (Middle - Begin), which it halves until it is 0.  Otherwise every  *)
(* number is tried, the larger first, in a range of so many more than one.   *)
DetectFieldsCount(enough, first, distance) ==
  LET detect[at \in Nat \X Nat] ==
        LET begin == at[1]  step == at[2]
        IN  IF step = 0 THEN begin
            ELSE IF begin + step \in enough THEN detect[<<begin + step, (step + 1) \div 2>>]
            ELSE detect[<<begin, step \div 2>>]
  IN  detect[<<first, distance>>]

DetectFieldsCountModest(enough, first, others) ==  \* broken: the smaller numbers first
  LET greedy[range \in Nat \X Nat] ==
        LET begin == range[1]  more == range[2]  half == more \div 2
            small == greedy[<<begin, half>>]
        IN  IF more = 0 THEN IF begin \in enough THEN begin ELSE 0
            ELSE IF small # 0 THEN small ELSE greedy[<<begin + half + 1, more - half - 1>>]
  IN  greedy[<<first, others>>]

DetectFieldsCountGreedy(enough, first, others) ==
  LET greedy[range \in Nat \X Nat] ==
        LET begin == range[1]  more == range[2]  half == more \div 2
            big == greedy[<<begin + half + 1, more - half - 1>>]
        IN  IF more = 0 THEN IF begin \in enough THEN begin ELSE 0
            ELSE IF big # 0 THEN big ELSE greedy[<<begin, half>>]
  IN  greedy[<<first, others>>]

FieldsCount(size, enough) ==
  IF 0 \in enough THEN DetectFieldsCount(enough, 0, (size * 8) \div 2 + 1)
  ELSE DetectFieldsCountGreedy(enough, 0, size * 8)

TupleSize(sizes, aligns) == FieldsCount(StructSize(sizes, aligns), 0..Len(sizes))

BuildSequence(min, size) ==
  LET build[range \in Nat \X Nat] ==
        LET first == range[1]  more == range[2]  half == more \div 2
        IN  IF more = 0 THEN <<first>>
            ELSE build[<<first, half>>] \o build[<<first + half + 1, more - half - 1>>]
  IN  build[<<min, size>>]

MakeIndexSequence(n) == IF n = 0 THEN <<>> ELSE BuildSequence(0, n - 1)

-----------------------------------------------------------------------------
(* C++17: every field gets a name of its own, which is a letter, or two of   *)
(* them, except those that look like a digit; the tuple is made of the names.*)
Name(k) == <<(k - 1) \div 47, (k - 1) % 47>>

TieAsTuple(fields) ==
  LET names == [k \in DOMAIN fields |-> Name(k)]
      bound == [name \in ToSet(names) |-> fields[CHOOSE k \in DOMAIN fields : names[k] = name]]
  IN  [k \in DOMAIN fields |-> bound[names[k]]]

(* sequence_tuple: a tuple has one base class for each index; get takes the  *)
(* value of the base that carries this index.                                *)
TupleBase(indexes, values) ==
  [index \in ToSet(indexes) |-> values[CHOOSE k \in DOMAIN indexes : indexes[k] = index]]
GetImpl(bases, index) == bases[index]
Get(tuple, index) == GetImpl(TupleBase(MakeIndexSequence(Len(tuple)), tuple), index)

(* for_each_field: every field, in the order of the indices. *)
ForEachFieldImpl(tuple, indexes) == [k \in DOMAIN indexes |-> Get(tuple, indexes[k])]
ForEachField(fields) == ForEachFieldImpl(TieAsTuple(fields), MakeIndexSequence(Len(fields)))

-----------------------------------------------------------------------------
(* eq_fields, ne_fields and so on: field by field up to the shorter struct.  *)
Operators == {"eq", "ne", "lt", "le", "gt", "ge"}
Holds(op, m, n) ==
  CASE op = "eq" -> m = n [] op = "ne" -> m # n [] op = "lt" -> m < n
    [] op = "le" -> m <= n [] op = "gt" -> m > n [] op = "ge" -> m >= n
Strict == [le |-> "lt", lt |-> "lt", ge |-> "gt", gt |-> "gt"]

Shorter(x, y) == IF Len(x) <= Len(y) THEN Len(x) ELSE Len(y)

(* One field, and what the others say. *)
Decide(op, l, r, rest) ==
  CASE op = "eq" -> l = r /\ rest
    [] op = "ne" -> l # r \/ rest
    [] OTHER     -> Holds(Strict[op], l, r) \/ (l = r /\ rest)

Visit(op, x, y) ==
  LET visit[index \in 0..Shorter(x, y)] ==
        IF index = Shorter(x, y) THEN Holds(op, Len(x), Len(y))
        ELSE Decide(op, Get(x, index), Get(y, index), visit[index + 1])
  IN  visit[0]

BinaryVisit(op, x, y) == Visit(op, TieAsTuple(x), TieAsTuple(y))

(* io_fields, over a stream of characters and of whole values.  A stream     *)
(* that has failed gives nothing any more.  print_impl and read_impl take    *)
(* the fields from the first to the last: here, what n of them make of it.   *)
Char(c) == <<"char", c>>
Value(n) == <<"value", n>>

Printed(fields) ==
  LET print[n \in 0..Len(fields)] ==
        IF n = 0 THEN <<Char("{")>>
        ELSE (print[n - 1] \o (IF n = 1 THEN <<>> ELSE <<Char(","), Char(" ")>>))
               \o <<Value(Get(TieAsTuple(fields), n - 1))>>
  IN  print
Out(fields) == Printed(fields)[Len(fields)] \o <<Char("}")>>

Took(in, token) == in.good /\ in.rest # <<>> /\ Head(in.rest)[1] = token
Skip(in, c) ==
  IF Took(in, "char") THEN [in EXCEPT !.rest = Tail(@), !.good = Head(in.rest) = Char(c)]
  ELSE [in EXCEPT !.good = FALSE]
TakeValue(in) ==
  IF Took(in, "value") THEN [in EXCEPT !.rest = Tail(@), !.got = Append(@, Head(in.rest)[2])]
  ELSE [in EXCEPT !.good = FALSE]

ReadFrom(stream, count) ==
  LET read[n \in 0..count] ==
        IF n = 0 THEN Skip([rest |-> stream, good |-> TRUE, got |-> <<>>], "{")
        ELSE TakeValue(IF n = 1 THEN read[0] ELSE Skip(Skip(read[n - 1], ","), " "))
  IN  read
In(stream, count) == Skip(ReadFrom(stream, count)[count], "}")

-----------------------------------------------------------------------------
(* The questions. *)
Structs == UNION {[1..k -> Numbers] : k \in 0..MaxFields}
Tokens == {Char(c) : c \in {"{", "}", ",", " "}} \cup {Value(v) : v \in Numbers}

Asks == [of |-> "nothing"]
ReflectionInit == question = Asks /\ answer = Asks

Asked(q, a) == question' = q /\ answer' = a

(* Of n bytes, as tight as a struct can be. *)
CountFields(n, least) ==
  LET bytes == [i \in 1..n |-> 1]
  IN  Asked([of |-> "count", n |-> n], FieldsCount(StructSize(bytes, bytes), least..n))
Tie(n) == Asked([of |-> "tie", n |-> n], ForEachField([i \in 1..n |-> i]))
Compare(op, x, y) ==
  Asked([of |-> "compare", op |-> op, x |-> x, y |-> y], BinaryVisit(op, x, y))
Stream(x, place, token) ==
  LET sent == IF place = 0 THEN Out(x) ELSE [Out(x) EXCEPT ![place] = token]
  IN  Asked([of |-> "stream", x |-> x, sent |-> sent], In(sent, Len(x)))

AskAgain == question # Asks /\ question' = Asks /\ answer' = Asks

Question ==
  \/ \E n \in 0..MaxTied : Tie(n)
  \/ \E n \in 0..MaxCounted : \E least \in 0..n : CountFields(n, least)
  \/ \E op \in Operators, x, y \in Structs : Compare(op, x, y)
  \/ \E x \in Structs : \E place \in 0..Len(Out(x)) : \E token \in Tokens : Stream(x, place, token)

ReflectionNext == (question = Asks /\ Question) \/ AskAgain

ReflectionSpec == ReflectionInit /\ [][ReflectionNext]_reflectionVars

-----------------------------------------------------------------------------
(* What the documentation promises of a comparison: that of the common       *)
(* fields, the first different one deciding, then that of the sizes.         *)
FirstDifference(x, y, op) ==
  \E i \in DOMAIN x \cap DOMAIN y : Holds(op, x[i], y[i]) /\ \A j \in 1..i - 1 : x[j] = y[j]
Documented(op, x, y) ==
  LET same == \A i \in DOMAIN x \cap DOMAIN y : x[i] = y[i]
  IN  CASE op = "eq" -> x = y
        [] op = "ne" -> x # y
        [] OTHER     -> FirstDifference(x, y, Strict[op]) \/ (same /\ Holds(op, Len(x), Len(y)))

(* The reflection of structs does what it promises: every field is counted,  *)
(* tied and visited once and in order, whichever of the two searches counts; *)
(* the six comparisons agree with one another; and a stream gives a struct   *)
(* back if it was written as io_fields writes it, and fails otherwise.       *)
ReflectionAgrees ==
  CASE question.of = "nothing" -> TRUE
    [] question.of = "count"   -> answer = question.n
    [] question.of = "tie"     -> answer = [i \in 1..question.n |-> i]
    [] question.of = "compare" -> answer = Documented(question.op, question.x, question.y)
    [] question.of = "stream"  ->
         /\ answer.good <=> \E x \in Structs : Len(x) = Len(question.x) /\ Out(x) = question.sent
         /\ answer.good => Out(answer.got) = question.sent
=============================================================================
