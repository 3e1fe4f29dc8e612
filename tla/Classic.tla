------------------------------- MODULE Classic -------------------------------
(***************************************************************************)
(* The older engine of boost::pfr, for compilers without structured        *)
(* bindings: it writes the types of a struct's fields down as numbers,     *)
(* reads the numbers back as types and computes where the fields are.      *)
(*                                                                         *)
(* As in Reflection, an action asks about one type, and what the library   *)
(* rejects with a static_assert is not asked.                              *)
(***************************************************************************)
EXTENDS Reflection

CONSTANTS
  WordBits,  \* the bits of a size_t: 32 on this processor
  NativeIds  \* the fundamental types that fields are made of

ASSUME WordBitsAssumption == WordBits \in Nat /\ WordBits > 7
ASSUME NativeIdsAssumption == NativeIds \subseteq 1..23

VARIABLES
  subject,  \* the type asked about, or NoType
  result    \* its fields' types and where they are, as the engine has them
classicVars == <<subject, result>>

-----------------------------------------------------------------------------
(* Types.  1 to 23 are the fundamental ones, as the library numbers them.    *)
Native(id) == [is |-> "native", id |-> id]
Pointer(cv, to) == [is |-> "pointer", cv |-> cv, to |-> to]
Enum(of) == [is |-> "enum", of |-> of]
Struct(fields) == [is |-> "struct", fields |-> fields]

NativeSize == <<1, 2, 4, 4, 8, 1, 2, 4, 4, 8, 1, 4, 2, 4, 4, 8, 8, 1, 4, 4, 4, 4, 4>>

RECURSIVE AlignOf(_)
AlignOf(t) ==
  CASE t.is = "native"  -> NativeSize[t.id]
    [] t.is = "pointer" -> 4
    [] t.is = "enum"    -> AlignOf(t.of)
    [] t.is = "struct"  -> StructAlign([i \in DOMAIN t.fields |-> AlignOf(t.fields[i])])

AlignsOf(fields) == [i \in DOMAIN fields |-> AlignOf(fields[i])]

RECURSIVE SizeOf(_)
SizeOf(t) ==
  CASE t.is = "struct" -> StructSize([i \in DOMAIN t.fields |-> SizeOf(t.fields[i])], AlignsOf(t.fields))
    [] t.is = "enum"   -> SizeOf(t.of)
    [] OTHER           -> AlignOf(t)

SizesOf(fields) == [i \in DOMAIN fields |-> SizeOf(fields[i])]

OffsetOf(fields, i) ==
  RoundedUp(Ends(SizesOf(fields), AlignsOf(fields))[i - 1], AlignOf(fields[i]))

-----------------------------------------------------------------------------
(* C++14: a type as a number.  Each level of a pointer takes three bits,     *)
(* pushed in from above; there must be room below for those that move down.  *)
Extension == 2 ^ (WordBits - 3)

ApplyInPlace(id, cv) == (id % 32) + cv * Extension  \* broken: the levels below are forgotten
ExtensionApply(id, cv) == (((id \div 32) * 32) \div 8) + (id % 32) + cv * Extension
ExtensionFits(id) == (((id \div 32) * 32) \div 8) % 32 = 0
Remove1Ext(id) == (((id \div 32) * 32 * 8) % (2 ^ WordBits)) + (id % 32)

RECURSIVE ScalarToId(_)
ScalarToId(type) ==
  CASE type.is = "native"  -> type.id
    [] type.is = "enum"    -> ScalarToId(type.of)
    [] type.is = "pointer" -> ExtensionApply(ScalarToId(type.to), type.cv)

RECURSIVE IdToType(_)
IdToType(id) ==
  IF id < Extension THEN Native(id) ELSE Pointer(id \div Extension, IdToType(Remove1Ext(id)))

(* A nested struct stands between two tags, unless it is a single number.    *)
(* The array has three places for each byte, and those left 0 are dropped.   *)
TupleBegin == 24
TupleEnd == 25

Tupled(ids) == IF Len(ids) # 1 THEN <<TupleBegin>> \o ids \o <<TupleEnd>> ELSE ids
Places(type) == SizeOf(type) * 3

RECURSIVE FlatIds(_)
FlatIds(fields) ==
  IF fields = <<>> THEN <<>>
  ELSE (IF Head(fields).is = "struct" THEN Tupled(FlatIds(Head(fields).fields))
        ELSE <<ScalarToId(Head(fields))>>) \o FlatIds(Tail(fields))

(* And back: a tag opens a tuple that ends where as many were closed.        *)
TillMatching(a, from) ==
  LET many(tag, count) == Cardinality({p \in from..from + count - 1 : a[p] = tag})
  IN  IF a[from] # TupleBegin THEN 0
      ELSE Min({c \in 1..Len(a) - from + 1 : many(TupleBegin, c) = many(TupleEnd, c)})

(* The places of a range that are not inside a tuple begun in it. *)
RemoveSubtuples(a, range) ==
  {p \in range : \A o \in range : o < p => o + TillMatching(a, o) <= p}

CountSkips(a, begin, end) ==
  MapThenSumSet(LAMBDA p : TillMatching(a, p) - 1,
                {p \in RemoveSubtuples(a, begin..end - 1) : a[p] = TupleBegin})

RECURSIVE AsFlatTuple(_, _, _)
AsFlatTuple(a, first, count) ==
  LET kept == SetToSortSeq(RemoveSubtuples(a, first..first + count - 1), <)
      prepared(p) == IF a[p] = TupleBegin THEN Struct(AsFlatTuple(a, p + 1, TillMatching(a, p) - 2))
                     ELSE IdToType(a[p])
  IN  [k \in 1..count - CountSkips(a, first, first + count - 1) |-> prepared(kept[k])]

TupleWithSameAlignment(type) ==
  LET a == FlatIds(type.fields) IN AsFlatTuple(a, 1, Len(a))

(* Where the fields are, by halves; each at its place in a like tuple. *)
RECURSIVE FlatTupleOfReferences(_, _, _)
FlatTupleOfReferences(tuple, begin, size) ==
  IF size = 0 THEN <<>>
  ELSE IF size = 1 THEN <<OffsetOf(tuple, begin + 1)>>
  ELSE LET half == size \div 2
       IN  FlatTupleOfReferences(tuple, begin, half)
             \o FlatTupleOfReferences(tuple, begin + half, size - half)

References(tuple) == FlatTupleOfReferences(tuple, 0, Len(tuple))

(* Only a flat struct keeps its types as numbers; for another one the types  *)
(* are found one by one, each with those before it.                          *)
IsFlatReflectable(type) ==
  \A i \in DOMAIN type.fields :
    LET field == type.fields[i]
    IN  field.is = "native" \/ (field.is = "pointer" /\ field.to.is = "native")

RECURSIVE InDepth(_, _)
InDepth(type, found) ==
  IF Len(found) = Len(type.fields) THEN References(found)
  ELSE InDepth(type, Append(found, type.fields[Len(found) + 1]))

ForEachReference(type) ==
  IF IsFlatReflectable(type) THEN References(TupleWithSameAlignment(type)) ELSE InDepth(type, <<>>)

-----------------------------------------------------------------------------
(* The questions. *)
SeqsUpTo(S, n) == UNION {[1..k -> S] : k \in 0..n}
Natives == {Native(id) : id \in NativeIds}
PointersTo(S) == {Pointer(cv, to) : cv \in 1..4, to \in S}
Scalars == Natives \cup {Enum(t) : t \in Natives} \cup {Pointer(2, t) : t \in Natives}
Flat == {Struct(f) : f \in SeqsUpTo(Natives \cup {Pointer(2, Enum(t)) : t \in Natives}, 2)}
Nested == {Struct(f) : f \in SeqsUpTo(Natives \cup (Flat \ {Struct(<<>>)}), 2)}
Twice == {Struct(<<t, f, t>>) : t \in Nested \ {Struct(<<>>)}, f \in Natives}
Pointers == {Struct(<<p>>) : p \in UNION {PointersTo(Scalars), PointersTo(PointersTo(Natives))}}
Types == Nested \cup Twice \cup Pointers

RECURSIVE Encodable(_)
Encodable(type) ==
  CASE type.is = "pointer" -> Encodable(type.to) /\ ExtensionFits(ScalarToId(type.to))
    [] type.is = "struct"  -> /\ \A i \in DOMAIN type.fields : Encodable(type.fields[i])
                              /\ Len(Tupled(FlatIds(type.fields))) <= Places(type)
    [] OTHER               -> TRUE

NoType == [is |-> "none"]
ClassicInit == subject = NoType /\ result = NoType

Represent(t) ==
  /\ subject = NoType /\ Encodable(t)
  /\ subject' = t
  /\ result' = [tuple |-> TupleWithSameAlignment(t), at |-> ForEachReference(t)]

AnotherType == subject # NoType /\ subject' = NoType /\ result' = NoType

ClassicNext == (\E t \in Types : Represent(t)) \/ AnotherType

ClassicSpec == ClassicInit /\ [][ClassicNext]_classicVars

-----------------------------------------------------------------------------
RECURSIVE Simplified(_)
Simplified(type) ==
  CASE type.is = "native"  -> type
    [] type.is = "enum"    -> Simplified(type.of)
    [] type.is = "pointer" -> Pointer(type.cv, Simplified(type.to))
    [] type.is = "struct"  -> LET fields == [i \in DOMAIN type.fields |-> Simplified(type.fields[i])]
                              IN  IF Len(fields) = 1 /\ fields[1].is # "struct" THEN fields[1]
                                  ELSE Struct(fields)

(* The classic engine gives back the types it took, in the same size, and    *)
(* finds every field where the compiler put it; an enum becomes its number,  *)
(* a struct of one scalar that scalar.                                       *)
ClassicAgrees ==
  subject # NoType =>
    /\ result.tuple = [i \in DOMAIN subject.fields |-> Simplified(subject.fields[i])]
    /\ SizeOf(Struct(result.tuple)) = SizeOf(subject)
    /\ result.at = [i \in DOMAIN subject.fields |-> OffsetOf(subject.fields, i)]
=============================================================================
