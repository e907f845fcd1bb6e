------------------------------ MODULE Variant -------------------------------
(***************************************************************************)
(* The dynamically typed values of base/variant.c: what variant_print and  *)
(* variant_print_buffer write, and when variant_equal takes two values for *)
(* equal.  A piece of text is what one call writes; of its characters only *)
(* the number matters.  Values are built up by a client, two at a time.    *)
(***************************************************************************)
EXTENDS Integers, Sequences, SequencesExt, FiniteSets, TLC

CONSTANTS
    Atom,       \* the values that hold no others
    MaxNodes,   \* bound on the values in a value
    Sizes,      \* the buffer sizes that are tried
    Width       \* the bits of size_t, 64 in the code

VariantAssumption ==
    MaxNodes \in Nat /\ Width \in Nat /\ Sizes \subseteq 0 .. 2 ^ Width - 1

VARIABLES x, y

vars == <<x, y>>

\* variant_t: the type and what it tells the union to be.
Typed(type, via) == [type |-> type, via |-> via]
Nil == Typed("nil", 0)
Boolean(b) == Typed("boolean", b)
Integer(n) == Typed(IF n < 0 THEN "negative" ELSE "positive", n)
Float(f) == Typed("float", f)           \* "0.000000", "-0.000000", "nan" ...
Str(bytes) == Typed("str", bytes)       \* a sequence of "quote", "print", "other", "nul"
Bin(bytes) == Typed("bin", bytes)
Ext(n, bytes) == Typed("ext", [type |-> n, bytes |-> bytes])
Unknown(n) == Typed("unknown", n)
Array(values) == Typed("array", values)
Map(pairs) == Typed("map", pairs)       \* a sequence of <<key, value>>

\* The values in a value, itself included.
RECURSIVE Parts(_)
Parts(v) ==
    {v} \cup CASE v.type = "array" -> UNION {Parts(v.via[i]) : i \in DOMAIN v.via}
               [] v.type = "map" -> UNION {Parts(v.via[i][1]) \cup Parts(v.via[i][2]) :
                                              i \in DOMAIN v.via}
               [] OTHER -> {}

RECURSIVE Nodes(_)
Nodes(v) ==
    1 + CASE v.type = "array" -> FoldLeft(LAMBDA n, w : n + Nodes(w), 0, v.via)
          [] v.type = "map" -> FoldLeft(LAMBDA n, kv : n + Nodes(kv[1]) + Nodes(kv[2]), 0, v.via)
          [] OTHER -> 0

-----------------------------------------------------------------------------
(* The text.                                                               *)

\* What one call writes: formatted, or a single character that is copied.
Piece(name, len) == [name |-> name, len |-> len, copied |-> FALSE]
Quote == Piece("quotation mark", 1)

Digits(n) == IF n > 99 THEN 3 ELSE IF n > 9 THEN 2 ELSE 1
Number(n) == Piece(<<"number", n>>, IF n < 0 THEN Digits(-n) + 1 ELSE Digits(n))
FloatLength == [f \in {"0.000000", "1.000000"} |-> 8] @@ [f \in {"-0.000000"} |-> 9]
               @@ [f \in {"nan"} |-> 3]

\* variant_bin_print
Printed(byte) ==
    CASE byte = "quote" -> Piece("escaped quote", 2)
      [] byte = "print" -> [Piece("character", 1) EXCEPT !.copied = TRUE]
      [] OTHER -> Piece(<<"hex", byte>>, 4)

\* variant_bin_print_buffer
Buffered(byte) ==
    CASE byte = "quote" -> Piece("escaped quote", 2)
      [] byte = "print" -> [Piece("character", 1) EXCEPT !.copied = TRUE]
      [] OTHER -> Piece(<<"hex", byte>>, 4)

UpTo(bytes, byte) == SelectInSeq(bytes, LAMBDA b : b = byte)

\* fwrite writes all of a string; "%.*s" stops at a null character.
WrittenStr(bytes) == Piece(<<"str", bytes>>, Len(bytes))
FormattedStr(bytes) ==
    LET nul == UpTo(bytes, "nul")
    IN  WrittenStr(IF nul = 0 THEN bytes ELSE SubSeq(bytes, 1, nul - 1))

Between(seqs, separator) ==
    FoldLeft(LAMBDA s, t : IF s = <<>> THEN t ELSE s \o <<separator>> \o t, <<>>, seqs)

\* The switch over the type, the same in both functions but for strings and
\* the bytes of binary data.
RECURSIVE Pieces(_, _)
Pieces(v, to) ==
    LET each(s) == [i \in DOMAIN s |-> Pieces(s[i], to)]
        pair(kv) == Pieces(kv[1], to) \o <<Piece("=>", 2)>> \o Pieces(kv[2], to)
        str == IF to = "file" THEN WrittenStr(v.via) ELSE FormattedStr(v.via)
        bin(bytes) == <<Quote>>
                      \o [i \in DOMAIN bytes |-> IF to = "file" THEN Printed(bytes[i])
                                                 ELSE Buffered(bytes[i])]
                      \o <<Quote>>
    IN  CASE v.type = "nil" -> <<Piece("nil", 3)>>
          [] v.type = "boolean" -> <<Piece(v.via, IF v.via THEN 4 ELSE 5)>>
          [] v.type \in {"positive", "negative"} -> <<Number(v.via)>>
          [] v.type = "float" -> <<Piece(v.via, FloatLength[v.via])>>
          [] v.type = "str" -> <<Quote, str, Quote>>
          [] v.type = "bin" -> bin(v.via)
          [] v.type = "ext" -> <<Piece(<<"ext", v.via.type>>, 7 + Digits(v.via.type))>>
                               \o bin(v.via.bytes)
          [] v.type = "array" -> <<Piece("[", 1)>> \o Between(each(v.via), Piece(", ", 2))
                                 \o <<Piece("]", 1)>>
          [] v.type = "map" -> <<Piece("{", 1)>>
                               \o Between([i \in DOMAIN v.via |-> pair(v.via[i])], Piece(", ", 2))
                               \o <<Piece("}", 1)>>
          [] OTHER -> <<Piece(<<"unknown", v.via>>, 13 + Digits(v.via))>>

\* variant_print
variant_print(v) == Pieces(v, "file")

\* What variant_print_buffer has to write.
BufferPieces(v) == Pieces(v, "buffer")

Length(pieces) == FoldLeft(LAMBDA n, p : n + p.len, 0, pieces)

-----------------------------------------------------------------------------
(* variant_print_buffer.                                                   *)

\* One beyond the last character that snprintf writes: as much as there is
\* room for, and a null character.
Reach(b, p) == b.pos + (IF p.len < b.avail THEN p.len ELSE b.avail - 1) + 1

Larger(a, b) == IF a > b THEN a ELSE b

\* Mutant: the null character is counted.
LeftWithNul(b, p) == (b.avail - p.len - 1) % 2 ^ Width

\* aux_buffer_size - ret: the length that would have been written is taken
\* off, modulo the width of size_t.
Left(b, p) == (b.avail - p.len) % 2 ^ Width

\* One call: a character is copied only if there is room, and without a null
\* character; snprintf moves on by the whole length.
Write(b, p) ==
    IF p.copied
    THEN IF b.avail > 0
         THEN [pos |-> b.pos + 1, avail |-> b.avail - 1, top |-> Larger(b.top, b.pos + 1),
               text |-> Append(b.text, p)]
         ELSE b
    ELSE [pos |-> b.pos + p.len, avail |-> Left(b, p),
          top |-> IF b.avail = 0 THEN b.top ELSE Larger(b.top, Reach(b, p)),
          text |-> Append(b.text, p)]

\* A nested call gets the rest of the buffer, and what it returns is what it
\* took: it goes on where its caller was.
variant_print_buffer(v, size) ==
    FoldLeft(Write, [pos |-> 0, avail |-> size, top |-> 0, text |-> <<>>], BufferPieces(v))

Returned(v, size) == (size - variant_print_buffer(v, size).avail) % 2 ^ Width

-----------------------------------------------------------------------------
(* variant_equal.                                                          *)

\* Mutant: a value that runs out of elements is equal.
SameSizePrefix(s, t) == Len(s) <= Len(t)

SameSize(s, t) == Len(s) = Len(t)

\* Floats are compared as numbers.
FloatEqual(f, g) ==
    /\ f # "nan" /\ g # "nan"
    /\ f = g \/ {f, g} = {"0.000000", "-0.000000"}

RECURSIVE variant_equal(_, _)
variant_equal(v, w) ==
    /\ v.type = w.type
    /\ CASE v.type = "nil" -> TRUE
         [] v.type \in {"boolean", "positive", "negative", "str", "bin", "ext"} -> v.via = w.via
         [] v.type = "float" -> FloatEqual(v.via, w.via)
         [] v.type = "array" ->
              SameSize(v.via, w.via) /\ \A i \in DOMAIN v.via : variant_equal(v.via[i], w.via[i])
         [] v.type = "map" ->
              /\ SameSize(v.via, w.via)
              /\ \A i \in DOMAIN v.via, j \in {1, 2} : variant_equal(v.via[i][j], w.via[i][j])
         [] OTHER -> FALSE

-----------------------------------------------------------------------------
(* A client builds values.                                                 *)

Init == x = Nil /\ y = Nil

Assign == x' \in Atom /\ UNCHANGED y
Exchange == x' = y /\ y' = x

Build(v) == Nodes(v) <= MaxNodes /\ x' = v /\ UNCHANGED y
BuildArray == Build(Array(<<>>)) \/ Build(Array(<<x>>)) \/ Build(Array(<<x, y>>))
BuildMap == Build(Map(<<>>)) \/ Build(Map(<<<<x, y>>>>)) \/ Build(Map(<<<<x, y>>, <<y, x>>>>))

Next == Assign \/ Exchange \/ BuildArray \/ BuildMap

Spec == Init /\ [][Next]_vars

-----------------------------------------------------------------------------
(* Properties.                                                             *)

HasNul(v) ==
    \E w \in Parts(v) : w.type = "str" /\ UpTo(w.via, "nul") # 0

\* The two functions write the same text, for a buffer that is large enough,
\* unless a string holds a null character.
PrintsAlike ==
    LET room == Length(BufferPieces(x)) + 1
    IN  (variant_print_buffer(x, room).text = variant_print(x)) <=> ~HasNul(x)

\* A text shorter than the buffer is written into it with its null character
\* behind it and nothing further, and its length is returned.
FitsExactly ==
    \A size \in Sizes :
        LET n == Length(BufferPieces(x))
        IN  n < size => /\ Returned(x, size) = n
                        /\ variant_print_buffer(x, size).top = n + 1

\* If the text does not fit the caller is told: what is returned is no less
\* than the size, however the size that is left wraps round.
TellsTooLong ==
    \A size \in Sizes :
        Length(BufferPieces(x)) >= size => Returned(x, size) >= size

\* Both printers, and every size of the buffer.
BuffersAreRight == PrintsAlike /\ FitsExactly /\ TellsTooLong

Odd(v) == \E w \in Parts(v) : w.type = "unknown" \/ (w.type = "float" /\ w.via = "nan")
Zero(v) == \E w \in Parts(v) : w.type = "float" /\ w.via \in {"0.000000", "-0.000000"}

\* variant_equal is symmetric, reflexive but for values that hold something of
\* no known type or not a number, and equal values print the same text unless
\* there is a zero in them.
EqualIsEquality ==
    /\ variant_equal(x, y) <=> variant_equal(y, x)
    /\ variant_equal(x, x) <=> ~Odd(x)
    /\ variant_equal(x, y) /\ ~Zero(x) => variant_print(x) = variant_print(y)
=============================================================================
