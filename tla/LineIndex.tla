-------------------------------- MODULE LineIndex --------------------------------
(***************************************************************************)
(* Positions and byte offsets: line_index.rs.                              *)
(*                                                                         *)
(* A text is a sequence of characters, each with its length in bytes and   *)
(* in UTF-16 units.  The code counts bytes, and its table holds the line   *)
(* starts and, by line, the characters longer than a byte.  The section    *)
(* at the end defines the same conversions on characters, with no table.   *)
(***************************************************************************)
EXTENDS Integers, Sequences, FiniteSets

LOCAL INSTANCE FiniteSetsExt

CONSTANTS
  Chars,   (* the characters of a text                                     *)
  Newline, (* the one that ends a line                                     *)
  Bytes,   (* the length of a character in UTF-8                           *)
  Units,   (* the length of a character in UTF-16                          *)
  MaxU32,  (* the largest column, where additions wrap                     *)
  None     (* no offset, no range, no answer                               *)

ASSUME CharAssumption ==
  /\ Newline \in Chars
  /\ Bytes \in [Chars -> 1 .. 4] /\ Bytes[Newline] = 1
  /\ Units \in [Chars -> 1 .. 2]
  /\ \A c \in Chars : Units[c] <= Bytes[c]
  /\ MaxU32 \in Nat
  /\ None \notin Nat

Encodings == {"Utf8", "Utf16"}

(* The table after the first i characters. *)
Scan(text) ==
  LET scan[i \in 0 .. Len(text)] ==
        IF i = 0 THEN [starts |-> <<0>>, wide |-> << <<>> >>, len |-> 0]
        ELSE LET before == scan[i - 1]
                 c == text[i]
                 end == before.len + Bytes[c]
                 line == Len(before.starts)
             IN  IF c = Newline
                 THEN [starts |-> Append(before.starts, end),
                       wide |-> Append(before.wide, <<>>), len |-> end]
                 ELSE [before EXCEPT
                        !.len = end,
                        !.wide[line] =
                          IF Bytes[c] = 1 THEN @
                          ELSE Append(@, [start |-> before.len - before.starts[line],
                                          len |-> Bytes[c], units |-> Units[c]])]
  IN  scan

TableOf(text) == Scan(text)[Len(text)]

(* Lines and columns count from 0; the line's entry in the table is line + 1. *)
LineEnd(table, line) ==
  IF line + 2 \in DOMAIN table.starts THEN table.starts[line + 2] - 1 ELSE table.len

(* Mutant: the width a character adds is not taken off. *)
Utf16ColumnMutant(wide, column) == column

(* `byte_to_utf16_col` *)
Utf16Column(wide, column) ==
  LET after[k \in 0 .. Len(wide)] ==
        IF k = 0 THEN column
        ELSE IF wide[k].start >= column THEN after[k - 1]
        ELSE after[k - 1] - (wide[k].len - wide[k].units)
  IN  after[Len(wide)]

(* `utf16_to_byte_col`: the column grows as it is converted.  Starts ascend,
   so what is past the column stays past it, as after the code's break. *)
ByteColumn(wide, column) ==
  LET after[k \in 0 .. Len(wide)] ==
        IF k = 0 THEN column
        ELSE IF wide[k].start >= after[k - 1] THEN after[k - 1]
        ELSE (after[k - 1] + (wide[k].len - wide[k].units)) % (MaxU32 + 1)
  IN  after[Len(wide)]

(* Mutant: a column inside a character stays there. *)
SnappedMutant(wide, column) == column

(* `snap_to_boundary` *)
Snapped(wide, column) ==
  LET holders == {k \in DOMAIN wide : column > wide[k].start
                                      /\ column < wide[k].start + wide[k].len}
  IN  IF holders = {} THEN column ELSE wide[Min(holders)].start

(* `offset`: None for a line the text does not have. *)
Offset(table, position, encoding) ==
  IF position.line + 1 \notin DOMAIN table.starts THEN None
  ELSE LET start == table.starts[position.line + 1]
           wide == table.wide[position.line + 1]
           column == IF encoding = "Utf8" THEN position.character
                     ELSE ByteColumn(wide, position.character)
       IN  start + Snapped(wide, Min({column, LineEnd(table, position.line) - start}))

(* `position`: an offset past the end is the end. *)
Position(table, offset, encoding) ==
  LET clamped == Min({offset, table.len})
      line == Max({l \in DOMAIN table.starts : table.starts[l] <= clamped})
      column == clamped - table.starts[line]
  IN  [line |-> line - 1,
       character |-> IF encoding = "Utf8" THEN column
                     ELSE Utf16Column(table.wide[line], column)]

-----------------------------------------------------------------------------
(* The reference: what LSP calls the position of the boundary after i characters. *)
Before(text, i) == {k \in 1 .. i : text[k] = Newline}

LineStart(text, i) == Max({0} \union Before(text, i))

Size(c, encoding) == IF encoding = "Utf8" THEN Bytes[c] ELSE Units[c]

Width(text, from, to, encoding) ==
  LET width[i \in from .. to] ==
        IF i = from THEN 0 ELSE width[i - 1] + Size(text[i], encoding)
  IN  width[to]

PositionOf(text, i, encoding) ==
  [line |-> Cardinality(Before(text, i)),
   character |-> Width(text, LineStart(text, i), i, encoding)]

(* The last boundary of the line at or before the column, None if there is no such line. *)
BoundaryOf(text, position, encoding) ==
  LET reached == {i \in 0 .. Len(text) :
                    LET at == PositionOf(text, i, encoding)
                    IN  at.line = position.line /\ at.character <= position.character}
  IN  IF reached = {} THEN None ELSE Max(reached)

=============================================================================
