------------------------------ MODULE CursorProofs ------------------------------
(***************************************************************************)
(* What Navigation answers about a place in the open document is about the *)
(* character the client shows there, whatever either side counts in.       *)
(*                                                                         *)
(* First positions: the place of a boundary in either unit, its offset,    *)
(* and the range sent back for one of the index.  Then the symbol under a  *)
(* cursor, and what the rows of the index make of it in the answers.       *)
(***************************************************************************)
EXTENDS NavigationProofs

LOCAL INSTANCE FiniteSetsExt

-----------------------------------------------------------------------------
(* Positions. *)

LEMMA SpanUnique ==
  ASSUME NEW n \in Nat, NEW m, NEW l \in Nat, NEW s, NEW z, NEW a, NEW b,
         LineSpan(m, n, l, s, z), LineSpan(m, n, l, a, b)
  PROVE  s = a /\ z = b
<1>1. /\ s \in 0 .. n /\ z \in s .. n /\ a \in 0 .. n /\ b \in a .. n
      /\ \A j \in 0 .. n : j \in s .. z <=> j \in a .. b
  BY DEF LineSpan
<1>2. s \in a .. b /\ z \in a .. b /\ a \in s .. z /\ b \in s .. z
  BY <1>1
<1> QED BY <1>1, <1>2

(* A line's table entry starts at its first boundary. *)
LEMMA StartIs ==
  ASSUME NEW t \in Seq(Chars), NEW p, NEW u, NEW m, Measured(t, p, u, m),
         NEW table, TableHolds(t, p, u, m, Len(t), table),
         NEW l \in 1 .. m[Len(t)] + 1, NEW s, NEW z, LineSpan(m, Len(t), l, s, z)
  PROVE  /\ l \in DOMAIN table.starts
         /\ table.starts[l] = p[s]
         /\ Narrows(p, u, s, z, table.wide[l])
<1> DEFINE n == Len(t)
<1>1. n \in Nat /\ m[n] \in Nat /\ n \in 0 .. n
  BY MeasuredTypes
<1>2. /\ Len(table.starts) = m[n] + 1 /\ table.starts \in Seq(Nat)
      /\ \A k \in 1 .. m[n] + 1 : LineHolds(t, p, u, m, n, k, table.starts[k], table.wide[k])
  BY TableFields DEF TableHolds
<1>3. DOMAIN table.starts = 1 .. m[n] + 1
  BY <1>1, <1>2
<1>4. l \in Nat /\ l \in 1 .. m[n] + 1
  BY <1>1
<1> HIDE DEF n
<1>5. PICK a, b \in 0 .. n :
        /\ LineSpan(m, n, l, a, b) /\ table.starts[l] = p[a]
        /\ Narrows(p, u, a, b, table.wide[l])
  BY <1>2, <1>4 DEF LineHolds
<1>6. s = a /\ z = b
  BY <1>1, <1>4, <1>5, SpanUnique DEF n
<1> QED BY <1>3, <1>4, <1>5, <1>6

LEMMA MaxIs ==
  ASSUME NEW n \in Nat, NEW T, T \subseteq 0 .. n, NEW g \in T, \A x \in T : x <= g
  PROVE  Max(T) = g
<1> DEFINE h == Max(T)
<1>1. h \in T /\ \A x \in T : x <= h
  BY GreatestOf
<1> HIDE DEF h
<1>2. h \in Nat /\ g \in Nat /\ h <= g /\ g <= h
  BY <1>1
<1>3. h = g
  BY <1>2
<1> QED BY <1>3 DEF h

(* An offset is on line l, which starts at a byte. *)
IsOn(table, offset, unit, l, start) ==
  /\ Position(table, offset, unit).line = l - 1
  /\ Position(table, offset, unit).character
       = IF unit = "Utf8" THEN offset - start ELSE Utf16Column(table.wide[l], offset - start)

LEMMA LineIs ==
  ASSUME NEW t \in Seq(Chars), NEW p, NEW u, NEW m, Measured(t, p, u, m),
         NEW table, TableHolds(t, p, u, m, Len(t), table),
         NEW l \in 1 .. m[Len(t)] + 1, NEW s, NEW z, LineSpan(m, Len(t), l, s, z),
         NEW offset \in Nat, p[s] <= offset, offset <= p[z], NEW unit
  PROVE  IsOn(table, offset, unit, l, p[s])
<1> DEFINE n == Len(t)
           T == {k \in DOMAIN table.starts : table.starts[k] <= offset}
<1>1. n \in Nat /\ m[n] \in Nat /\ n \in 0 .. n /\ p[n] \in Nat
  BY MeasuredTypes
<1>2. /\ table.len = p[n] /\ Len(table.starts) = m[n] + 1 /\ table.starts \in Seq(Nat)
      /\ \A k \in 1 .. m[n] + 1 : LineHolds(t, p, u, m, n, k, table.starts[k], table.wide[k])
  BY TableFields DEF TableHolds
<1>3. DOMAIN table.starts = 1 .. m[n] + 1
  BY <1>1, <1>2
<1>4. l \in DOMAIN table.starts /\ table.starts[l] = p[s]
  BY StartIs
<1>5. /\ s \in 0 .. n /\ z \in s .. n /\ z \in 0 .. n /\ l \in Nat /\ m[z] = l - 1
  <2>1. s \in 0 .. n /\ z \in s .. n /\ l \in Nat
    BY <1>1 DEF LineSpan
  <2>2. z \in s .. z /\ z \in 0 .. n
    BY <1>1, <2>1
  <2> QED BY <2>1, <2>2 DEF LineSpan
<1> HIDE DEF n
<1>6. offset <= p[n]
  <2>1. z <= n /\ n - z \in Nat
    BY <1>1, <1>5
  <2>2. p[z] \in Nat /\ p[z] + (n - z) <= p[n]
    BY <1>1, <1>5, <2>1, MeasuredAscends DEF n
  <2>3. p[z] <= p[n]
    BY <1>1, <2>1, <2>2, SumAtLeast
  <2> QED BY <1>1, <2>2, <2>3
<1>7. Min({offset, table.len}) = offset
  BY <1>1, <1>2, <1>6, SmallerOf
<1>8. ASSUME NEW k \in T PROVE k <= l
  <2> SUFFICES ASSUME k > l PROVE FALSE
    BY <1>3, <1>5
  <2>1. k \in 1 .. m[n] + 1 /\ table.starts[k] <= offset /\ k \in Nat
    BY <1>1, <1>3
  <2>2. PICK a, b \in 0 .. n : LineSpan(m, n, k, a, b) /\ table.starts[k] = p[a]
    BY <1>2, <2>1 DEF LineHolds
  <2>3. m[a] = k - 1 /\ a \in 0 .. n
    <3>1. a \in 0 .. n /\ b \in a .. n
      BY <2>2 DEF LineSpan
    <3>2. a \in a .. b
      BY <3>1
    <3> QED BY <2>2, <3>1, <3>2 DEF LineSpan
  <2>4. ~(a <= z)
    <3> SUFFICES ASSUME a <= z PROVE FALSE
      OBVIOUS
    <3>1. m[a] <= m[z]
      BY <1>5, <2>3, MeasuredAscends DEF n
    <3> QED BY <1>5, <2>1, <2>3, <3>1
  <2>5. z <= a /\ a - z \in Nat /\ a - z > 0
    BY <1>5, <2>3, <2>4
  <2>6. p[z] \in Nat /\ p[a] \in Nat /\ p[z] + (a - z) <= p[a]
    BY <1>5, <2>3, <2>5, MeasuredAscends DEF n
  <2> DEFINE d == a - z
  <2>7. d \in Nat /\ d > 0 /\ p[z] + d <= p[a] /\ p[a] <= offset
    BY <2>1, <2>2, <2>5, <2>6
  <2> HIDE DEF d
  <2> QED BY <2>6, <2>7
<1>9. l \in T
  BY <1>4
<1>10. T \subseteq 0 .. m[n] + 1 /\ m[n] + 1 \in Nat
  BY <1>1, <1>3
<1> DEFINE g == Max(T)
           column == offset - table.starts[g]
<1>11. Position(table, offset, unit)
         = [line |-> g - 1,
            character |-> IF unit = "Utf8" THEN column ELSE Utf16Column(table.wide[g], column)]
  BY <1>7, Zenon DEF Position
<1> HIDE DEF T
<1>12. g = l
  BY <1>8, <1>9, <1>10, MaxIs
<1> HIDE DEF g
<1> QED BY <1>4, <1>11, <1>12 DEF IsOn

(* Every boundary is on a line. *)
LEMMA LineOfBoundary ==
  ASSUME NEW t \in Seq(Chars), NEW p, NEW u, NEW m, Measured(t, p, u, m), NEW b \in 0 .. Len(t)
  PROVE  /\ m[b] \in Nat /\ m[b] <= m[Len(t)]
         /\ \E s, z \in 0 .. Len(t) : LineSpan(m, Len(t), m[b] + 1, s, z) /\ b \in s .. z
<1> DEFINE n == Len(t)
           table == Scan(t)[n]
           l == m[b] + 1
<1>1. n \in Nat /\ n \in 0 .. n /\ b \in Nat /\ b <= n
  OBVIOUS
<1>2. m[b] \in Nat /\ m[n] \in Nat /\ m[b] <= m[n]
  BY <1>1, MeasuredAscends
<1>3. TableHolds(t, p, u, m, n, table)
  BY <1>1, ScanHolds
<1>4. l \in 1 .. m[n] + 1
  BY <1>2
<1>5. LineHolds(t, p, u, m, n, l, table.starts[l], table.wide[l])
  BY <1>3, <1>4 DEF TableHolds
<1> HIDE DEF table, l
<1>6. PICK s, z \in 0 .. n : LineSpan(m, n, l, s, z)
  BY <1>5 DEF LineHolds
<1>7. b \in s .. z
  <2>1. m[b] = l - 1
    BY <1>2 DEF l
  <2> QED BY <1>6, <2>1 DEF LineSpan
<1> QED BY <1>2, <1>6, <1>7 DEF l

LEMMA PositionOfLine ==
  ASSUME NEW t \in Seq(Chars), NEW p, NEW u, NEW m, Measured(t, p, u, m), NEW b \in 0 .. Len(t),
         NEW unit
  PROVE  PositionOf(t, b, unit).line = m[b]
BY LinesBefore DEF PositionOf

(* Boundaries s to z are the line of boundary b. *)
InLine(t, m, b, s, z) == LineSpan(m, Len(t), m[b] + 1, s, z)

LEMMA PositionOfIs ==
  ASSUME NEW t \in Seq(Chars), NEW p, NEW u, NEW m, Measured(t, p, u, m), NEW b \in 0 .. Len(t),
         NEW unit, NEW s, NEW z, InLine(t, m, b, s, z)
  PROVE  PositionOf(t, b, unit).character = Counted(p, u, unit)[b] - Counted(p, u, unit)[s]
<1> DEFINE l == m[b] + 1
<1>1. m[b] \in Nat /\ Len(t) \in Nat /\ l \in Nat
  BY MeasuredTypes
<1>2. LineSpan(m, Len(t), l, s, z)
  BY DEF InLine
<1>3. s \in 0 .. Len(t) /\ z \in s .. Len(t) /\ b \in s .. z
  <2>1. l - 1 = m[b]
    BY <1>1
  <2> HIDE DEF l
  <2> QED BY <1>2, <2>1 DEF LineSpan
<1> HIDE DEF l
<1>4. LineStart(t, b) = s
  BY <1>1, <1>2, <1>3, LineStartIs
<1>5. b \in s .. Len(t)
  BY <1>1, <1>3
<1>6. Width(t, s, b, unit) = Counted(p, u, unit)[b] - Counted(p, u, unit)[s]
  BY <1>3, <1>5, WidthIs
<1> QED BY <1>4, <1>6 DEF PositionOf

Same(a, b) == a.line = b.line /\ a.character = b.character

(* The code's position of the bytes before a boundary is the one LSP gives the *)
(* boundary.                                                                   *)
LEMMA PositionIs ==
  ASSUME NEW t \in Seq(Chars), NEW p, NEW u, NEW m, Measured(t, p, u, m), NEW b \in 0 .. Len(t),
         NEW unit
  PROVE  Same(Position(TableOf(t), p[b], unit), PositionOf(t, b, unit))
<1> DEFINE n == Len(t)
           table == TableOf(t)
           l == m[b] + 1
<1>1. n \in Nat /\ n \in 0 .. n /\ p[b] \in Nat
  BY MeasuredTypes
<1>2. TableHolds(t, p, u, m, n, table)
  BY <1>1, ScanHolds DEF TableOf
<1>3. m[b] \in Nat /\ m[n] \in Nat /\ m[b] <= m[n]
  BY <1>1, LineOfBoundary, MeasuredTypes
<1>4. l \in 1 .. m[n] + 1 /\ l - 1 = m[b] /\ l = m[b] + 1
  BY <1>3
<1>5. PICK s, z \in 0 .. n : LineSpan(m, n, l, s, z) /\ b \in s .. z
  BY LineOfBoundary
<1> HIDE DEF table, l, n
<1>6. p[s] \in Nat /\ p[z] \in Nat /\ p[s] <= p[b] /\ p[b] <= p[z]
  <2>1. b \in 0 .. n /\ s <= b /\ b <= z /\ b - s \in Nat /\ z - b \in Nat
    BY <1>1, <1>5 DEF n
  <2>2. p[s] \in Nat /\ p[z] \in Nat /\ p[s] + (b - s) <= p[b] /\ p[b] + (z - b) <= p[z]
    BY <1>5, <2>1, MeasuredAscends DEF n
  <2> QED BY <1>1, <2>1, <2>2, SumAtLeast
<1>7. IsOn(table, p[b], unit, l, p[s])
  BY <1>1, <1>2, <1>4, <1>5, <1>6, LineIs DEF n
<1>8. Utf16Column(table.wide[l], p[b] - p[s]) = u[b] - u[s]
  <2>1. Narrows(p, u, s, z, table.wide[l])
    BY <1>2, <1>4, <1>5, StartIs DEF n
  <2> QED BY <1>5, <2>1 DEF Narrows
<1>9. InLine(t, m, b, s, z)
  BY <1>5 DEF InLine, l, n
<1>10. PositionOf(t, b, unit).character = Counted(p, u, unit)[b] - Counted(p, u, unit)[s]
  BY <1>9, PositionOfIs
<1>11. PositionOf(t, b, unit).line = m[b]
  BY PositionOfLine
<1> QED BY <1>4, <1>7, <1>8, <1>10, <1>11 DEF IsOn, Counted, Same, table

-----------------------------------------------------------------------------
(* Cursors. *)

LEMMA PositionOfTypes ==
  ASSUME NEW t \in Seq(Chars), NEW p, NEW u, NEW m, Measured(t, p, u, m), NEW unit,
         NEW b \in 0 .. Len(t)
  PROVE  PositionOf(t, b, unit).line \in Nat /\ PositionOf(t, b, unit).character \in Nat
<1>1. /\ PositionOf(t, b, unit).line \in Nat
      /\ PositionOf(t, b, unit).character \in 0 .. p[Len(t)]
  BY PositionOfBounds
<1>2. \A top : \A x \in 0 .. top : x \in Nat
  OBVIOUS
<1> QED BY <1>1, <1>2

(* What is not past a character ends before it, and what is past it does not. *)
LEMMA BeforeCharacter ==
  ASSUME NEW t \in Seq(Chars), NEW p, NEW u, NEW m, Measured(t, p, u, m), NEW unit,
         NEW i \in 1 .. Len(t), t[i] # Newline, NEW h, h = i - 1, NEW a \in 0 .. Len(t), a <= h
  PROVE  \/ PositionOf(t, a, unit).line < PositionOf(t, h, unit).line
         \/ /\ PositionOf(t, a, unit).line = PositionOf(t, h, unit).line
            /\ PositionOf(t, a, unit).character <= PositionOf(t, h, unit).character
<1> DEFINE n == Len(t)
           q == Counted(p, u, unit)
<1>1. n \in Nat /\ h \in 0 .. n
  OBVIOUS
<1>2. m[a] \in Nat /\ m[h] \in Nat /\ m[a] <= m[h]
  BY <1>1, MeasuredAscends
<1>3. PositionOf(t, a, unit).line = m[a] /\ PositionOf(t, h, unit).line = m[h]
  BY <1>1, PositionOfLine
<1>4. CASE m[a] = m[h]
  <2>1. PICK s, z \in 0 .. n : LineSpan(m, n, m[h] + 1, s, z)
    BY <1>1, LineOfBoundary
  <2>2. InLine(t, m, h, s, z) /\ InLine(t, m, a, s, z)
    BY <1>4, <2>1 DEF InLine
  <2> HIDE DEF n
  <2>3. PositionOf(t, a, unit).character = q[a] - q[s]
    BY <2>2, PositionOfIs
  <2>4. PositionOf(t, h, unit).character = q[h] - q[s]
    BY <1>1, <2>2, PositionOfIs DEF n
  <2>5. q[a] \in Nat /\ q[h] \in Nat /\ q[a] <= q[h] /\ q[s] \in Nat
    <3>1. q[a] \in Nat /\ q[h] \in Nat /\ q[a] <= q[h]
      BY <1>1, CountedAscends DEF n
    <3>2. q[s] \in Nat
      BY <2>1, MeasuredTypes DEF Counted, n
    <3> QED BY <3>1, <3>2
  <2> HIDE DEF q
  <2>6. q[a] - q[s] <= q[h] - q[s]
    BY <2>5
  <2> QED BY <1>3, <1>4, <2>3, <2>4, <2>6
<1>5. CASE m[a] < m[h]
  BY <1>3, <1>5
<1> QED BY <1>2, <1>4, <1>5

LEMMA PastCharacter ==
  ASSUME NEW t \in Seq(Chars), NEW p, NEW u, NEW m, Measured(t, p, u, m), NEW unit,
         NEW i \in 1 .. Len(t), t[i] # Newline, NEW h, h = i - 1, NEW a \in 0 .. Len(t), i <= a
  PROVE  \/ PositionOf(t, h, unit).line < PositionOf(t, a, unit).line
         \/ /\ PositionOf(t, a, unit).line = PositionOf(t, h, unit).line
            /\ PositionOf(t, h, unit).character + Size(t[i], unit)
                 <= PositionOf(t, a, unit).character
<1> DEFINE n == Len(t)
           q == Counted(p, u, unit)
           size == Size(t[i], unit)
<1>1. n \in Nat /\ h \in 0 .. n /\ i \in 0 .. n
  OBVIOUS
<1>2. m[a] \in Nat /\ m[i] \in Nat /\ m[i] <= m[a]
  BY <1>1, MeasuredAscends
<1>3. m[i] = m[h]
  BY MeasuredStep
<1>4. PositionOf(t, a, unit).line = m[a] /\ PositionOf(t, h, unit).line = m[h]
  BY <1>1, PositionOfLine
<1>5. CASE m[a] = m[h]
  <2>1. PICK s, z \in 0 .. n : LineSpan(m, n, m[h] + 1, s, z)
    BY <1>1, LineOfBoundary
  <2>2. InLine(t, m, h, s, z) /\ InLine(t, m, a, s, z)
    BY <1>5, <2>1 DEF InLine
  <2> HIDE DEF n
  <2>3. PositionOf(t, a, unit).character = q[a] - q[s]
    BY <2>2, PositionOfIs
  <2>4. PositionOf(t, h, unit).character = q[h] - q[s]
    BY <1>1, <2>2, PositionOfIs DEF n
  <2>5. q[a] \in Nat /\ q[i] \in Nat /\ q[i] <= q[a]
    BY <1>1, CountedAscends DEF n
  <2>6. q[h] \in Nat /\ q[i] = q[h] + size /\ size \in Nat
    <3>1. q[i - 1] \in Nat /\ q[i] = q[i - 1] + size /\ size \in 1 .. 4
      BY CountedStep
    <3> HIDE DEF q, size
    <3> QED BY <3>1
  <2>7. q[s] \in Nat
    BY <2>1, MeasuredTypes DEF Counted, n
  <2> HIDE DEF q, size
  <2>8. (q[h] - q[s]) + size <= q[a] - q[s]
    BY <2>5, <2>6, <2>7
  <2> QED BY <1>4, <1>5, <2>3, <2>4, <2>8 DEF size
<1>6. CASE m[h] < m[a]
  BY <1>4, <1>6
<1> QED BY <1>2, <1>3, <1>5, <1>6

(* The range between two places has the place of the cursor. *)
Touches(first, last, at) ==
  /\ AtOrBefore(first.line, first.character, at.line, at.character)
  /\ AtOrBefore(at.line, at.character + 1, last.line, last.character)

(* A place inside character i: its first column or a later one. *)
IsInside(t, i, unit, at) ==
  /\ at.line = PositionOf(t, i - 1, unit).line
  /\ at.character \in Nat
  /\ PositionOf(t, i - 1, unit).character <= at.character
  /\ at.character < PositionOf(t, i - 1, unit).character + Size(t[i], unit)

(* Whichever unit columns are in, and wherever in the character the cursor is, a *)
(* range between two boundaries has it if the character is between them.        *)
LEMMA OnCharacter ==
  ASSUME NEW t \in Seq(Chars), NEW p, NEW u, NEW m, Measured(t, p, u, m), NEW unit,
         NEW i \in 1 .. Len(t), t[i] # Newline, NEW at, IsInside(t, i, unit, at),
         NEW a \in 0 .. Len(t), NEW b \in 0 .. Len(t),
         NEW first, Same(first, PositionOf(t, a, unit)),
         NEW last, Same(last, PositionOf(t, b, unit))
  PROVE  Touches(first, last, at) <=> a < i /\ i <= b
<1> DEFINE h == i - 1
           hl == PositionOf(t, h, unit).line
           hc == PositionOf(t, h, unit).character
           al == PositionOf(t, a, unit).line
           ac == PositionOf(t, a, unit).character
           bl == PositionOf(t, b, unit).line
           bc == PositionOf(t, b, unit).character
           size == Size(t[i], unit)
           c == at.character
<1>1. h \in 0 .. Len(t) /\ h = i - 1 /\ i \in Nat /\ h \in Nat /\ a \in Nat /\ b \in Nat
  OBVIOUS
<1>2. size \in Nat
  <2>1. size \in 1 .. 4
    BY CountedStep
  <2> HIDE DEF size
  <2> QED BY <2>1
<1> HIDE DEF h
<1>3. /\ hl \in Nat /\ hc \in Nat /\ al \in Nat /\ ac \in Nat /\ bl \in Nat /\ bc \in Nat
  BY <1>1, PositionOfTypes
<1>4. c \in Nat /\ at.line = hl /\ hc <= c /\ c < hc + size
  BY DEF IsInside, h
<1>5. /\ first.line = al /\ first.character = ac
      /\ last.line = bl /\ last.character = bc
  BY DEF Same
<1>6. a <= h => al < hl \/ (al = hl /\ ac <= hc)
  BY <1>1, BeforeCharacter
<1>7. i <= a => hl < al \/ (al = hl /\ hc + size <= ac)
  BY <1>1, PastCharacter
<1>8. b <= h => bl < hl \/ (bl = hl /\ bc <= hc)
  BY <1>1, BeforeCharacter
<1>9. i <= b => hl < bl \/ (bl = hl /\ hc + size <= bc)
  BY <1>1, PastCharacter
<1>10. Touches(first, last, at)
         <=> /\ al < hl \/ (al = hl /\ ac <= c)
             /\ hl < bl \/ (hl = bl /\ c + 1 <= bc)
  BY <1>4, <1>5 DEF Touches, AtOrBefore
<1> HIDE DEF hl, hc, al, ac, bl, bc, size, c
<1>11. al < hl \/ (al = hl /\ ac <= c) <=> a < i
  BY <1>1, <1>2, <1>3, <1>4, <1>6, <1>7
<1>12. hl < bl \/ (hl = bl /\ c + 1 <= bc) <=> i <= b
  BY <1>1, <1>2, <1>3, <1>4, <1>8, <1>9
<1> QED BY <1>10, <1>11, <1>12

-----------------------------------------------------------------------------
(* Offsets of cursors. *)

(* The texts are short enough for any of their columns to be converted. *)
Short(p, n) == p[n] <= 4 * MaxText

LEMMA TextIsShort ==
  ASSUME NEW t \in Seq(Chars), NEW p, NEW u, NEW m, Measured(t, p, u, m), Len(t) <= MaxText
  PROVE  Short(p, Len(t))
<1> DEFINE n == Len(t)
           z == 0
<1>1. n \in Nat /\ z \in 0 .. n /\ n \in 0 .. n /\ z <= n
  OBVIOUS
<1>2. p[z] = 0
  BY MeasuredTypes
<1> HIDE DEF z
<1>3. p[n] <= p[z] + 4 * (n - z)
  BY <1>1, MeasuredAscends
<1>4. n <= MaxText /\ MaxText \in Nat
  BY ColumnAssumption
<1>5. p[n] \in Nat
  BY <1>1, MeasuredTypes
<1> HIDE DEF n
<1>6. z = 0
  BY DEF z
<1>7. p[n] <= 4 * MaxText
  BY <1>1, <1>2, <1>3, <1>4, <1>5, <1>6
<1> QED BY <1>7 DEF Short, n

(* The offset of a place on a line is that of the last boundary not past it. *)
LEMMA OffsetAt ==
  ASSUME NEW t \in Seq(Chars), NEW p, NEW u, NEW m, Measured(t, p, u, m), NEW unit \in Encodings,
         NEW b \in 0 .. Len(t), NEW s, NEW z, InLine(t, m, b, s, z),
         NEW at, Near(p, Len(t), at), at.line = m[b],
         LastWithin(Counted(p, u, unit), s, z, at.character, b)
  PROVE  Offset(TableOf(t), at, unit) = p[b]
<1> DEFINE n == Len(t)
           k == BoundaryOf(t, at, unit)
<1>1. n \in Nat /\ p[n] \in Nat
  BY MeasuredTypes
<1>2. at.line \in Nat /\ at.character \in Nat /\ at.character + p[n] <= MaxU32
  BY DEF Near
<1>3. LineSpan(m, n, at.line + 1, s, z)
  BY DEF InLine
<1>4. s \in 0 .. n /\ z \in s .. n
  BY <1>3 DEF LineSpan
<1>5. k \in 0 .. n /\ LastWithin(Counted(p, u, unit), s, z, at.character, k)
  BY <1>2, <1>3, BoundaryOfLine
<1>6. k # None
  BY <1>5, CharAssumption
<1>7. /\ k = None => Offset(TableOf(t), at, unit) = None
      /\ k # None => Offset(TableOf(t), at, unit) = p[k]
  BY <1>2, <1>6, OffsetIs
<1> HIDE DEF k, n
<1>8. k = b
  BY <1>2, <1>4, <1>5, OneLastWithin DEF n
<1> QED BY <1>6, <1>7, <1>8

LEMMA InLineExists ==
  ASSUME NEW t \in Seq(Chars), NEW p, NEW u, NEW m, Measured(t, p, u, m), NEW b \in 0 .. Len(t)
  PROVE  \E s, z \in 0 .. Len(t) : InLine(t, m, b, s, z) /\ b \in s .. z
BY LineOfBoundary DEF InLine

LEMMA NearOf ==
  ASSUME NEW t \in Seq(Chars), NEW p, NEW u, NEW m, Measured(t, p, u, m), Short(p, Len(t)),
         NEW at, at.line \in Nat, at.character \in Nat, at.character <= p[Len(t)] + 4,
         MaxText > 0
  PROVE  Near(p, Len(t), at)
<1> DEFINE w == p[Len(t)]
<1>1. w \in Nat
  BY MeasuredTypes
<1>2. w <= 4 * MaxText /\ MaxText \in Nat /\ MaxU32 \in Nat /\ 16 * MaxText < MaxU32
  BY ColumnAssumption, CharAssumption DEF Short
<1> HIDE DEF w
<1>3. at.character <= w + 4
  BY DEF w
<1>4. at.character + w <= MaxU32
  BY <1>1, <1>2, <1>3
<1> QED BY <1>4 DEF Near, w

(* A boundary's position has the boundary's offset. *)
LEMMA OffsetOfBoundary ==
  ASSUME NEW t \in Seq(Chars), NEW p, NEW u, NEW m, Measured(t, p, u, m), NEW unit \in Encodings,
         Short(p, Len(t)), MaxText > 0, NEW b \in 0 .. Len(t),
         NEW at, Same(at, PositionOf(t, b, unit))
  PROVE  Offset(TableOf(t), at, unit) = p[b]
<1> DEFINE n == Len(t)
           q == Counted(p, u, unit)
<1>1. PICK s, z \in 0 .. n : InLine(t, m, b, s, z) /\ b \in s .. z
  BY InLineExists
<1>2. at.line = m[b] /\ at.character = PositionOf(t, b, unit).character
  BY PositionOfLine DEF Same
<1>3. at.character = q[b] - q[s]
  BY <1>1, <1>2, PositionOfIs
<1>4. at.line \in Nat /\ at.character \in Nat /\ at.character <= p[n] + 4
  <2>1. at.line \in Nat /\ at.character \in 0 .. p[n]
    BY <1>2, PositionOfBounds DEF Same
  <2>2. p[n] \in Nat
    BY MeasuredTypes
  <2> HIDE DEF n
  <2> QED BY <2>1, <2>2
<1>5. Near(p, n, at)
  BY <1>4, NearOf
<1>6. LastWithin(q, s, z, at.character, b)
  <2>1. ASSUME b < z PROVE q[b + 1] - q[s] > q[b] - q[s]
    <3> DEFINE j == b + 1
               size == Size(t[j], unit)
    <3>1. j \in 1 .. n /\ j - 1 = b
      BY <1>1, <2>1
    <3> HIDE DEF j
    <3>2. q[j - 1] \in Nat /\ size \in 1 .. 4 /\ q[j] = q[j - 1] + size
      BY <3>1, CountedStep
    <3>3. q[s] \in Nat
      BY <1>1, MeasuredTypes DEF Counted
    <3> HIDE DEF q, size
    <3>4. q[j] - q[s] > q[b] - q[s]
      BY <3>1, <3>2, <3>3
    <3> QED BY <3>4 DEF j
  <2>2. q[b] - q[s] <= at.character
    <3>1. q[b] \in Nat /\ q[s] \in Nat
      BY <1>1, MeasuredTypes DEF Counted
    <3> HIDE DEF q
    <3> QED BY <1>3, <3>1
  <2> HIDE DEF q
  <2> QED BY <1>1, <1>3, <2>1, <2>2 DEF LastWithin
<1> QED BY <1>1, <1>2, <1>5, <1>6, OffsetAt DEF n, q

(* A place inside a character has the character's offset. *)
LEMMA OffsetOfCursor ==
  ASSUME NEW t \in Seq(Chars), NEW p, NEW u, NEW m, Measured(t, p, u, m), NEW unit \in Encodings,
         Short(p, Len(t)), MaxText > 0, NEW i \in 1 .. Len(t), t[i] # Newline,
         NEW h, h = i - 1, NEW at, IsInside(t, i, unit, at)
  PROVE  Offset(TableOf(t), at, unit) = p[h]
<1> DEFINE n == Len(t)
           q == Counted(p, u, unit)
           size == Size(t[i], unit)
<1>1. h \in 0 .. n /\ n \in Nat /\ i \in Nat /\ i = h + 1 /\ i \in 0 .. n
  OBVIOUS
<1>2. PICK s, z \in 0 .. n : InLine(t, m, h, s, z) /\ h \in s .. z
  BY <1>1, InLineExists
<1>3. /\ at.line = m[h] /\ at.character \in Nat
      /\ PositionOf(t, h, unit).character <= at.character
      /\ at.character < PositionOf(t, h, unit).character + size
  BY <1>1, PositionOfLine DEF IsInside
<1>4. PositionOf(t, h, unit).character = q[h] - q[s]
  BY <1>1, <1>2, PositionOfIs
<1>5. q[h] \in Nat /\ size \in 1 .. 4 /\ q[i] = q[h] + size /\ q[s] \in Nat
  <2>1. q[i - 1] \in Nat /\ size \in 1 .. 4 /\ q[i] = q[i - 1] + size
    BY CountedStep
  <2>2. q[s] \in Nat
    BY <1>2, MeasuredTypes DEF Counted
  <2> HIDE DEF q, size
  <2> QED BY <2>1, <2>2
<1>6. at.line \in Nat /\ at.character <= p[n] + 4
  <2>1. m[h] \in Nat /\ p[n] \in Nat
    BY <1>1, MeasuredTypes
  <2> DEFINE c == PositionOf(t, h, unit).character
             w == p[n]
  <2>2. c \in 0 .. w
    BY <1>1, PositionOfBounds
  <2>3. c <= at.character /\ at.character < c + size /\ at.character \in Nat
    BY <1>3
  <2> HIDE DEF n, size, c, w
  <2>4. w \in Nat /\ size \in 1 .. 4
    BY <1>5, <2>1 DEF w
  <2>5. at.character <= w + 4
    BY <2>2, <2>3, <2>4
  <2> QED BY <1>3, <2>1, <2>5 DEF w
<1>7. Near(p, n, at)
  BY <1>3, <1>6, NearOf
<1>8. LastWithin(q, s, z, at.character, h)
  <2>1. q[h] - q[s] <= at.character /\ at.character < q[i] - q[s]
    <3> HIDE DEF q, size
    <3> QED BY <1>3, <1>4, <1>5
  <2>2. q[h + 1] - q[s] > at.character
    <3>1. q[h + 1] = q[i]
      BY <1>1
    <3> HIDE DEF q
    <3> QED BY <1>3, <1>5, <2>1, <3>1
  <2> HIDE DEF q
  <2> QED BY <1>2, <2>1, <2>2 DEF LastWithin
<1> QED BY <1>1, <1>2, <1>3, <1>7, <1>8, OffsetAt DEF n, q

-----------------------------------------------------------------------------
(* Ranges for the client. *)

(* What is known of the open document where a position in it is asked about. *)
TextIsReady ==
  /\ encoding \in Encodings
  /\ text \in Seq(Chars)
  /\ Len(text) <= MaxText
  /\ MaxText > 0

At(line, col) == [line |-> line, character |-> col]

(* What ConvertSpan does with each end of a range. *)
Convert(path, line, col, from) ==
  LET table == TableOf(text)
      offset == Offset(table, At(line, col), from)
  IN  IF from = encoding \/ path # Open \/ offset = None THEN At(line, col)
      ELSE Position(table, offset, encoding)

LEMMA ConvertSpanIs ==
  ASSUME NEW path, NEW range, NEW from
  PROVE  /\ ConvertSpan(path, range, from).start
              = Convert(path, range.startLine, range.startCol, from)
         /\ ConvertSpan(path, range, from).end
              = Convert(path, range.endLine, range.endCol, from)
BY DEF ConvertSpan, Convert, At

(* The position of a boundary in the indexer's unit becomes the one in the *)
(* client's.                                                               *)
LEMMA Converted ==
  ASSUME TextIsReady, NEW p, NEW u, NEW m, Measured(text, p, u, m), NEW b \in 0 .. Len(text),
         NEW line, NEW col, Same(At(line, col), PositionOf(text, b, "Utf16"))
  PROVE  Same(Convert(Open, line, col, "Utf16"), PositionOf(text, b, encoding))
<1> DEFINE table == TableOf(text)
           offset == Offset(table, At(line, col), "Utf16")
<1>1. /\ encoding \in Encodings /\ text \in Seq(Chars) /\ Len(text) <= MaxText /\ MaxText > 0
      /\ "Utf16" \in Encodings
  BY DEF TextIsReady, Encodings
<1>2. CASE encoding = "Utf16"
  <2>1. Convert(Open, line, col, "Utf16") = At(line, col)
    BY <1>2 DEF Convert
  <2> QED BY <1>2, <2>1
<1>3. CASE encoding # "Utf16"
  <2>1. Short(p, Len(text))
    BY <1>1, TextIsShort
  <2>2. offset = p[b]
    BY <1>1, <2>1, OffsetOfBoundary
  <2>3. p[b] \in Nat /\ p[b] # None
    BY <1>1, MeasuredTypes, CharAssumption
  <2>4. Convert(Open, line, col, "Utf16") = Position(table, p[b], encoding)
    BY <1>3, <2>2, <2>3 DEF Convert
  <2>5. Same(Position(table, p[b], encoding), PositionOf(text, b, encoding))
    BY <1>1, PositionIs
  <2> QED BY <2>4, <2>5
<1> QED BY <1>2, <1>3

LEMMA SnappedBounds ==
  ASSUME NEW t \in Seq(Chars), NEW p, NEW u, NEW m, Measured(t, p, u, m),
         NEW s \in 0 .. Len(t), NEW z \in s .. Len(t), NEW wide, HasEntries(t, p, s, z, wide),
         NEW column \in Nat
  PROVE  Snapped(wide, column) \in 0 .. column
<1> DEFINE holders == {k \in DOMAIN wide : /\ column > wide[k].start
                                           /\ column < wide[k].start + wide[k].len}
           k == Min(holders)
<1>1. Snapped(wide, column) = IF holders = {} THEN column ELSE wide[k].start
  BY Zenon DEF Snapped
<1>2. ASSUME holders # {} PROVE wide[k].start \in 0 .. column
  <2>1. holders \subseteq Nat /\ holders # {}
    BY <1>2 DEF HasEntries
  <2>2. k \in holders
    <3> HIDE DEF holders
    <3> QED BY <2>1, SmallestOf
  <2> HIDE DEF k
  <2>3. k \in DOMAIN wide /\ column > wide[k].start
    BY <2>2
  <2>4. k \in 1 .. Len(wide)
    BY <2>3 DEF HasEntries
  <2>5. PICK j \in s + 1 .. z : wide[k].start = p[j - 1] - p[s]
    BY <2>4 DEF HasEntries, EntryFor
  <2> DEFINE h == j - 1
  <2>6. h \in 0 .. Len(t) /\ s <= h /\ h - s \in Nat
    OBVIOUS
  <2> HIDE DEF h
  <2>7. p[s] \in Nat /\ p[h] \in Nat /\ p[s] + (h - s) <= p[h]
    BY <2>6, MeasuredAscends
  <2>8. p[s] <= p[h]
    BY <2>6, <2>7, SumAtLeast
  <2>9. wide[k].start = p[h] - p[s]
    BY <2>5 DEF h
  <2> QED BY <2>3, <2>7, <2>8, <2>9
<1> HIDE DEF k, holders
<1> QED BY <1>1, <1>2

(* An offset on a line is one of the line's. *)
LEMMA OffsetOnLine ==
  ASSUME NEW t \in Seq(Chars), NEW p, NEW u, NEW m, Measured(t, p, u, m),
         NEW l \in 1 .. m[Len(t)] + 1, NEW s, NEW z, LineSpan(m, Len(t), l, s, z),
         NEW col \in Nat, NEW from, NEW line \in Nat, l = line + 1
  PROVE  /\ Offset(TableOf(t), At(line, col), from) \in Nat
         /\ p[s] <= Offset(TableOf(t), At(line, col), from)
         /\ Offset(TableOf(t), At(line, col), from) <= p[z]
<1> DEFINE n == Len(t)
           table == TableOf(t)
           start == table.starts[l]
           wide == table.wide[l]
           column == IF from = "Utf8" THEN col ELSE ByteColumn(wide, col)
           width == LineEnd(table, line) - start
           cut == Min({column, width})
<1>1. n \in Nat /\ n \in 0 .. n /\ m[n] \in Nat
  BY MeasuredTypes
<1>2. TableHolds(t, p, u, m, n, table)
  BY <1>1, ScanHolds DEF TableOf
<1>3. l \in DOMAIN table.starts /\ start = p[s]
  BY <1>2, StartIs
<1>4. /\ s \in 0 .. n /\ z \in s .. n
      /\ HasEntries(t, p, s, z, wide) /\ wide \in Seq(Entries)
  <2>1. LineHolds(t, p, u, m, n, l, start, wide)
    BY <1>2 DEF TableHolds
  <2> HIDE DEF start, wide
  <2>2. PICK a, b \in 0 .. n : LineSpan(m, n, l, a, b) /\ HasEntries(t, p, a, b, wide)
    BY <2>1 DEF LineHolds
  <2>3. l \in Nat
    BY <1>1
  <2>4. s = a /\ z = b
    BY <1>1, <2>2, <2>3, SpanUnique
  <2>5. s \in 0 .. n /\ z \in s .. n
    BY DEF LineSpan
  <2> QED BY <2>2, <2>4, <2>5 DEF HasEntries
<1>5. line <= m[n]
  BY <1>1
<1> HIDE DEF table
<1>6. LineEnd(table, line) = p[z]
  <2>1. LineSpan(m, n, line + 1, s, z)
    OBVIOUS
  <2> QED BY <1>2, <1>5, <2>1, LineEndIs
<1>7. p[s] \in Nat /\ p[z] \in Nat /\ p[s] <= p[z]
  <2>1. s \in 0 .. n /\ z \in 0 .. n /\ s <= z /\ z - s \in Nat
    BY <1>1 DEF LineSpan
  <2>2. p[s] \in Nat /\ p[z] \in Nat /\ p[s] + (z - s) <= p[z]
    BY <2>1, MeasuredAscends
  <2> QED BY <2>1, <2>2, SumAtLeast
<1>8. width = p[z] - p[s] /\ width \in Nat
  BY <1>3, <1>6, <1>7
<1>9. column \in Nat
  BY <1>4, ByteColumnFacts
<1> HIDE DEF column
<1>10. cut = IF column <= width THEN column ELSE width
  <2> HIDE DEF width
  <2> QED BY <1>8, <1>9, SmallerOf
<1>11. At(line, col).line + 1 = l /\ At(line, col).line = line /\ At(line, col).character = col
  BY DEF At
<1>12. Offset(table, At(line, col), from) = start + Snapped(wide, cut)
  BY <1>3, <1>11, Zenon DEF Offset, column
<1> HIDE DEF cut, wide
<1>13. cut \in Nat /\ cut <= width
  BY <1>8, <1>9, <1>10
<1>14. Snapped(wide, cut) \in 0 .. cut
  BY <1>4, <1>13, SnappedBounds
<1> DEFINE offset == Offset(table, At(line, col), from)
           snapped == Snapped(wide, cut)
<1>15. offset = p[s] + snapped
  BY <1>3, <1>12
<1> HIDE DEF offset, snapped, width
<1>16. offset \in Nat /\ p[s] <= offset /\ offset <= p[z]
  BY <1>7, <1>8, <1>13, <1>14, <1>15 DEF snapped
<1> QED BY <1>16 DEF offset, table

(* An end of a range stays on its line. *)
LEMMA LineKept ==
  ASSUME TextIsReady, NEW path, NEW line \in Nat, NEW col \in Nat, NEW from
  PROVE  Convert(path, line, col, from).line = line
<1> DEFINE n == Len(text)
           table == TableOf(text)
           offset == Offset(table, At(line, col), from)
           l == line + 1
<1>1. At(line, col).line = line
  BY DEF At
<1>2. CASE from = encoding \/ path # Open \/ offset = None
  BY <1>1, <1>2 DEF Convert
<1>3. CASE ~(from = encoding \/ path # Open \/ offset = None)
  <2>1. Convert(path, line, col, from) = Position(table, offset, encoding)
    BY <1>3 DEF Convert
  <2>2. text \in Seq(Chars)
    BY DEF TextIsReady
  <2>3. PICK p, u, m : Measured(text, p, u, m)
    BY <2>2, MeasuredExists
  <2>4. n \in Nat /\ n \in 0 .. n /\ m[n] \in Nat
    BY <2>2, <2>3, MeasuredTypes
  <2>5. TableHolds(text, p, u, m, n, table)
    BY <2>2, <2>3, <2>4, ScanHolds DEF TableOf
  <2>6. l \in DOMAIN table.starts
    BY <1>1, <1>3, Zenon DEF Offset
  <2>7. DOMAIN table.starts = 1 .. m[n] + 1
    <3>1. Len(table.starts) = m[n] + 1 /\ table.starts \in Seq(Nat)
      BY <2>5, TableFields DEF TableHolds
    <3> QED BY <2>4, <3>1
  <2>8. l \in 1 .. m[n] + 1 /\ l = line + 1
    BY <2>6, <2>7
  <2> HIDE DEF l
  <2>9. PICK s, z \in 0 .. n : LineSpan(m, n, l, s, z)
    BY <2>5, <2>8 DEF TableHolds, LineHolds
  <2>10. offset \in Nat /\ p[s] <= offset /\ offset <= p[z]
    BY <2>2, <2>3, <2>8, <2>9, OffsetOnLine
  <2> HIDE DEF offset, table
  <2>11. IsOn(table, offset, encoding, l, p[s])
    BY <2>2, <2>3, <2>5, <2>8, <2>9, <2>10, LineIs
  <2>12. l - 1 = line
    BY <2>8
  <2> QED BY <2>1, <2>11, <2>12 DEF IsOn
<1> QED BY <1>2, <1>3

-----------------------------------------------------------------------------
(* What is under the cursor. *)

LEMMA CursorIs ==
  ASSUME TextIsReady, NEW i \in DOMAIN text, text[i] # Newline, NEW cursor \in CursorsOn(i)
  PROVE  /\ i \in 1 .. Len(text)
         /\ IsInside(text, i, encoding, cursor)
         /\ cursor.line \in Nat /\ cursor.character \in Nat
<1> DEFINE start == PositionOf(text, i - 1, encoding)
           size == Size(text[i], encoding)
<1>1. text \in Seq(Chars) /\ i \in 1 .. Len(text) /\ i - 1 \in 0 .. Len(text)
  BY DEF TextIsReady
<1>2. PICK p, u, m : Measured(text, p, u, m)
  BY <1>1, MeasuredExists
<1>3. start.line \in Nat /\ start.character \in Nat
  BY <1>1, <1>2, PositionOfTypes
<1>4. start = [line |-> start.line, character |-> start.character]
  BY DEF PositionOf
<1>5. size \in 1 .. 4
  BY <1>1, <1>2, CountedStep
<1>6. PICK k \in 0 .. size - 1 : cursor = [start EXCEPT !.character = @ + k]
  BY DEF CursorsOn
<1> HIDE DEF start, size
<1>7. cursor.line = start.line /\ cursor.character = start.character + k
  BY <1>4, <1>6
<1>8. start.character + k \in Nat /\ start.character <= start.character + k
      /\ start.character + k < start.character + size
  BY <1>3, <1>5, <1>6
<1> QED BY <1>1, <1>3, <1>7, <1>8 DEF IsInside, start, size

LEMMA StartIsInside ==
  ASSUME NEW t \in Seq(Chars), NEW p, NEW u, NEW m, Measured(t, p, u, m), NEW unit,
         NEW i \in 1 .. Len(t), NEW at, Same(at, PositionOf(t, i - 1, unit))
  PROVE  IsInside(t, i, unit, at)
<1> DEFINE h == i - 1
           size == Size(t[i], unit)
           start == PositionOf(t, h, unit)
<1>1. h \in 0 .. Len(t)
  OBVIOUS
<1>2. size \in 1 .. 4
  BY CountedStep
<1> HIDE DEF h
<1>3. start.line \in Nat /\ start.character \in Nat
  BY <1>1, PositionOfTypes
<1>4. at.line = start.line /\ at.character = start.character
  BY DEF Same, h
<1> HIDE DEF size, start
<1>5. start.character <= start.character /\ start.character < start.character + size
  BY <1>2, <1>3
<1> QED BY <1>3, <1>4, <1>5 DEF IsInside, size, start, h

(* Whatever the client counts, the index is asked about a column of the same *)
(* character.                                                                *)
LEMMA UnderCursor ==
  ASSUME TextIsReady, NEW i \in 1 .. Len(text), text[i] # Newline, NEW cursor,
         IsInside(text, i, encoding, cursor)
  PROVE  \E col : /\ SymbolUnderCursor(cursor) = SymbolAt(index, Open, cursor.line, col)
                  /\ IsInside(text, i, "Utf16", At(cursor.line, col))
<1> DEFINE h == i - 1
           table == TableOf(text)
           offset == Offset(table, cursor, encoding)
<1>1. /\ encoding \in Encodings /\ text \in Seq(Chars) /\ Len(text) <= MaxText /\ MaxText > 0
      /\ h \in 0 .. Len(text) /\ h = i - 1
  BY DEF TextIsReady
<1>2. CASE encoding = "Utf16"
  <2> DEFINE col == cursor.character
  <2>1. SymbolUnderCursor(cursor) = SymbolAt(index, Open, cursor.line, col)
    BY <1>2 DEF SymbolUnderCursor
  <2>2. IsInside(text, i, "Utf16", At(cursor.line, col))
    BY <1>2 DEF IsInside, At
  <2> QED BY <2>1, <2>2
<1>3. CASE encoding # "Utf16"
  <2>1. PICK p, u, m : Measured(text, p, u, m)
    BY <1>1, MeasuredExists
  <2>2. Short(p, Len(text))
    BY <1>1, <2>1, TextIsShort
  <2> HIDE DEF h
  <2>3. offset = p[h]
    BY <1>1, <2>1, <2>2, OffsetOfCursor
  <2>4. p[h] \in Nat /\ p[h] # None
    BY <1>1, <2>1, MeasuredTypes, CharAssumption
  <2> DEFINE col == Position(table, p[h], "Utf16").character
  <2>5. SymbolUnderCursor(cursor) = SymbolAt(index, Open, cursor.line, col)
    BY <1>3, <2>3, <2>4, Zenon DEF SymbolUnderCursor
  <2>6. Same(Position(table, p[h], "Utf16"), PositionOf(text, h, "Utf16"))
    BY <1>1, <2>1, PositionIs
  <2>7. cursor.line = PositionOf(text, h, encoding).line
    BY DEF IsInside, h
  <2>8. PositionOf(text, h, encoding).line = PositionOf(text, h, "Utf16").line
    BY DEF PositionOf
  <2>9. At(cursor.line, col).line = cursor.line /\ At(cursor.line, col).character = col
    BY DEF At
  <2>10. Same(At(cursor.line, col), PositionOf(text, h, "Utf16"))
    BY <2>6, <2>7, <2>8, <2>9 DEF Same
  <2>11. IsInside(text, i, "Utf16", At(cursor.line, col))
    <3>1. Same(At(cursor.line, col), PositionOf(text, i - 1, "Utf16"))
      BY <2>10 DEF h
    <3> QED BY <1>1, <2>1, <3>1, StartIsInside
  <2> QED BY <2>5, <2>11
<1> QED BY <1>2, <1>3

(* On the line asked about, a range begins and ends at boundaries of the text. *)
Fits(range, line) ==
  range.startLine <= line /\ line <= range.endLine =>
    \E a, b \in 0 .. Len(text) :
      /\ Same(At(range.startLine, range.startCol), PositionOf(text, a, "Utf16"))
      /\ Same(At(range.endLine, range.endCol), PositionOf(text, b, "Utf16"))

LEMMA CoversIs ==
  ASSUME NEW range, NEW at
  PROVE  Covers(range, at.line, at.character)
           <=> Touches(At(range.startLine, range.startCol), At(range.endLine, range.endCol), at)
BY DEF Covers, Touches, At

(* A range has the place the index is asked about, in the indexer's columns, if *)
(* the range sent to the client has the cursor, in the client's.                *)
LEMMA CoversAlike ==
  ASSUME TextIsReady, NEW i \in 1 .. Len(text), text[i] # Newline,
         NEW cursor, IsInside(text, i, encoding, cursor),
         NEW at, IsInside(text, i, "Utf16", at),
         NEW range \in Ranges, Fits(range, cursor.line)
  PROVE  Covers(range, at.line, at.character)
           <=> Within(cursor, ConvertSpan(Open, range, "Utf16"))
<1> DEFINE first == At(range.startLine, range.startCol)
           last == At(range.endLine, range.endCol)
           start == Convert(Open, range.startLine, range.startCol, "Utf16")
           end == Convert(Open, range.endLine, range.endCol, "Utf16")
           line == cursor.line
<1>1. /\ range.startLine \in Nat /\ range.startCol \in Nat
      /\ range.endLine \in Nat /\ range.endCol \in Nat
  BY DEF Ranges
<1>2. PICK p, u, m : Measured(text, p, u, m)
  BY MeasuredExists DEF TextIsReady
<1>3. text \in Seq(Chars)
  BY DEF TextIsReady
<1>4. at.line = line /\ line \in Nat
  <2>1. PositionOf(text, i - 1, encoding).line = PositionOf(text, i - 1, "Utf16").line
    BY DEF PositionOf
  <2>2. i - 1 \in 0 .. Len(text)
    BY <1>3
  <2>3. PositionOf(text, i - 1, encoding).line \in Nat
    BY <1>2, <1>3, <2>2, PositionOfTypes
  <2> QED BY <2>1, <2>3 DEF IsInside
<1>5. Within(cursor, ConvertSpan(Open, range, "Utf16")) <=> Touches(start, end, cursor)
  <2>1. /\ ConvertSpan(Open, range, "Utf16").start = start
        /\ ConvertSpan(Open, range, "Utf16").end = end
    BY ConvertSpanIs
  <2> HIDE DEF start, end
  <2> QED BY <2>1 DEF Within, Touches
<1>6. Covers(range, at.line, at.character) <=> Touches(first, last, at)
  BY CoversIs
<1>7. /\ first.line = range.startLine /\ last.line = range.endLine
      /\ start.line = range.startLine /\ end.line = range.endLine
  BY <1>1, LineKept DEF At
<1>8. CASE range.startLine <= line /\ line <= range.endLine
  <2>1. PICK a, b \in 0 .. Len(text) :
          /\ Same(first, PositionOf(text, a, "Utf16"))
          /\ Same(last, PositionOf(text, b, "Utf16"))
    BY <1>8 DEF Fits
  <2>2. Same(start, PositionOf(text, a, encoding)) /\ Same(end, PositionOf(text, b, encoding))
    BY <1>2, <2>1, Converted
  <2> HIDE DEF first, last, start, end
  <2>3. Touches(first, last, at) <=> a < i /\ i <= b
    BY <1>2, <1>3, <2>1, OnCharacter
  <2>4. Touches(start, end, cursor) <=> a < i /\ i <= b
    BY <1>2, <1>3, <2>1, <2>2, OnCharacter
  <2> QED BY <1>5, <1>6, <2>3, <2>4
<1>9. CASE ~(range.startLine <= line /\ line <= range.endLine)
  <2> HIDE DEF first, last, start, end
  <2>1. ~Touches(first, last, at)
    BY <1>1, <1>4, <1>7, <1>9 DEF Touches, AtOrBefore
  <2>2. ~Touches(start, end, cursor)
    BY <1>1, <1>4, <1>7, <1>9 DEF Touches, AtOrBefore
  <2> QED BY <1>5, <1>6, <2>1, <2>2
<1> QED BY <1>8, <1>9

LEMMA AlignedFits ==
  ASSUME NEW line, Aligned(line), NEW o \in RangeOf(index.occurrences[Open])
  PROVE  Fits(o.range, line)
<1> SUFFICES ASSUME o.range.startLine <= line, line <= o.range.endLine
             PROVE  \E a, b \in 0 .. Len(text) :
                      /\ Same(At(o.range.startLine, o.range.startCol), PositionOf(text, a, "Utf16"))
                      /\ Same(At(o.range.endLine, o.range.endCol), PositionOf(text, b, "Utf16"))
  BY DEF Fits
<1>1. {At(o.range.startLine, o.range.startCol), At(o.range.endLine, o.range.endCol)}
        \subseteq {PositionOf(text, k, "Utf16") : k \in 0 .. Len(text)}
  BY DEF Aligned, At
<1>2. PICK a \in 0 .. Len(text) :
        At(o.range.startLine, o.range.startCol) = PositionOf(text, a, "Utf16")
  BY <1>1
<1>3. PICK b \in 0 .. Len(text) :
        At(o.range.endLine, o.range.endCol) = PositionOf(text, b, "Utf16")
  BY <1>1
<1> QED BY <1>2, <1>3 DEF Same

-----------------------------------------------------------------------------
(* `symbol_at`. *)

(* The symbol is what a smallest covering occurrence names. *)
Smallest(covering, o) == \A other \in covering : SpanLen(o.range) <= SpanLen(other.range)

CoveringIn(ix, path, line, col) ==
  {o \in RangeOf(ix.occurrences[path]) : Covers(o.range, line, col)}

LEMMA SymbolAtIs ==
  ASSUME NEW ix \in Indexes, Tidy(ix), NEW path \in Paths, NEW line \in Nat, NEW col,
         NEW covering, covering = CoveringIn(ix, path, line, col)
  PROVE  /\ covering = {} => SymbolAt(ix, path, line, col) = None
         /\ covering # {} => \E o \in covering : /\ SymbolAt(ix, path, line, col) = ix.names[o.symbol]
                                                 /\ Smallest(covering, o)
<1> DEFINE occurrences == ix.occurrences[path]
           scanned == ScannedTo(occurrences, line)
           at == {i \in scanned : Covers(occurrences[i].range, line, col)}
           size == [i \in at |-> SpanLen(occurrences[i].range)]
           first == CHOOSE i \in at : \A j \in at :
                      \/ SpanLen(occurrences[i].range) < SpanLen(occurrences[j].range)
                      \/ (SpanLen(occurrences[i].range) = SpanLen(occurrences[j].range) /\ i <= j)
           found == SymbolAt(ix, path, line, col)
<1>1. found = IF at = {} THEN None ELSE ix.names[occurrences[first].symbol]
  BY Zenon DEF SymbolAt, FirstSmallest, ScannedTo
<1>2. occurrences \in Seq(OccurrenceRows) /\ InSourceOrder(occurrences)
  BY IndexFields DEF Tidy
<1>3. /\ scanned \subseteq DOMAIN occurrences
      /\ \A i \in DOMAIN occurrences : occurrences[i].range.startLine <= line => i \in scanned
  BY <1>2, ScannedFacts
<1>4. \A i \in DOMAIN occurrences : occurrences[i].range \in Ranges
  <2>1. \A i \in DOMAIN occurrences : occurrences[i] \in OccurrenceRows
    BY <1>2
  <2> HIDE DEF occurrences
  <2> QED BY <2>1 DEF OccurrenceRows
<1>5. \A i \in DOMAIN occurrences : SpanLen(occurrences[i].range) \in Nat
  BY <1>4, SpanLenType
<1>6. \A i \in DOMAIN occurrences :
        Covers(occurrences[i].range, line, col) => occurrences[i].range.startLine <= line
  <2> SUFFICES ASSUME NEW i \in DOMAIN occurrences, Covers(occurrences[i].range, line, col)
               PROVE  occurrences[i].range.startLine <= line
    OBVIOUS
  <2>1. occurrences[i].range.startLine \in Nat
    BY <1>4 DEF Ranges
  <2> QED BY <2>1 DEF Covers, AtOrBefore
<1>7. at = {i \in DOMAIN occurrences : Covers(occurrences[i].range, line, col)}
  <2> HIDE DEF scanned, occurrences
  <2> QED BY <1>3, <1>6
<1>8. covering = {occurrences[i] : i \in at}
  BY <1>7 DEF RangeOf, CoveringIn
<1>9. at \subseteq Nat
  BY <1>2, <1>7
<1>10. \A i \in at : size[i] \in Nat /\ size[i] = SpanLen(occurrences[i].range)
  BY <1>5, <1>7
<1>11. ASSUME at # {}
       PROVE  /\ first \in at
              /\ \A j \in at : SpanLen(occurrences[first].range) <= SpanLen(occurrences[j].range)
  <2>1. \E i \in at : \A j \in at : size[i] < size[j] \/ (size[i] = size[j] /\ i <= j)
    <3> HIDE DEF at, size
    <3> QED BY <1>9, <1>10, <1>11, FirstSmallestExists
  <2>2. \E i \in at : \A j \in at :
          \/ SpanLen(occurrences[i].range) < SpanLen(occurrences[j].range)
          \/ (SpanLen(occurrences[i].range) = SpanLen(occurrences[j].range) /\ i <= j)
    <3> HIDE DEF at, size, occurrences
    <3> QED BY <1>10, <2>1
  <2>3. /\ first \in at
        /\ \A j \in at :
             \/ SpanLen(occurrences[first].range) < SpanLen(occurrences[j].range)
             \/ (SpanLen(occurrences[first].range) = SpanLen(occurrences[j].range) /\ first <= j)
    <3> HIDE DEF at, size, occurrences
    <3> QED BY <2>2, Zenon
  <2> HIDE DEF first
  <2>4. \A j \in at : SpanLen(occurrences[j].range) \in Nat
    BY <1>10
  <2> HIDE DEF at, size, occurrences
  <2> QED BY <2>3, <2>4
<1> HIDE DEF first, found, size, scanned
<1>12. ASSUME covering = {} PROVE found = None
  <2>1. at = {}
    BY <1>8, <1>12
  <2> QED BY <1>1, <2>1
<1>13. ASSUME covering # {}
       PROVE  \E o \in covering : found = ix.names[o.symbol] /\ Smallest(covering, o)
  <2>1. at # {}
    BY <1>8, <1>13
  <2> DEFINE o == occurrences[first]
  <2>2. o \in covering /\ found = ix.names[o.symbol]
    BY <1>1, <1>8, <1>11, <2>1
  <2>3. Smallest(covering, o)
    <3>1. \A j \in at : SpanLen(o.range) <= SpanLen(occurrences[j].range)
      BY <1>11, <2>1
    <3> HIDE DEF at, o
    <3> QED BY <1>8, <3>1 DEF Smallest
  <2> QED BY <2>2, <2>3
<1> QED BY <1>12, <1>13 DEF found

LEMMA GreaterOf ==
  ASSUME NEW a \in Int, NEW b \in Int
  PROVE  Max({a, b}) = IF a <= b THEN b ELSE a
<1> DEFINE T == {a, b}
           g == Max(T)
<1>1. \E x \in T : \A y \in T : x >= y
  OBVIOUS
<1>2. g \in T /\ \A y \in T : g >= y
  <2> HIDE DEF T
  <2> QED BY <1>1, Zenon DEF Max
<1> HIDE DEF g
<1>3. g = IF a <= b THEN b ELSE a
  BY <1>2
<1> QED BY <1>3 DEF g

LEMMA FewerLines ==
  ASSUME NEW a \in Nat, NEW b \in Nat, a < b, NEW w \in Nat, NEW c \in Nat, c < w
  PROVE  a * w + c < b * w
<1> DEFINE d == b - a
<1>1. d \in Nat /\ d >= 1 /\ b = a + d
  OBVIOUS
<1> HIDE DEF d
<1>2. b * w = a * w + d * w
  BY <1>1
<1>3. d * w >= w
  BY <1>1
<1>4. a * w \in Nat /\ d * w \in Nat
  BY <1>1
<1> QED BY <1>2, <1>3, <1>4

LEMMA SpanLenIs ==
  ASSUME NEW range \in Ranges
  PROVE  /\ range.endLine - range.startLine \in Nat
         /\ range.endCol - range.startCol \in Int
         /\ SpanLen(range) = (range.endLine - range.startLine) * MaxU32
              + (IF 0 <= range.endCol - range.startCol THEN range.endCol - range.startCol ELSE 0)
<1>1. /\ range.startLine \in Nat /\ range.startCol \in Nat
      /\ range.endLine \in Nat /\ range.endCol \in Nat
      /\ range.startLine <= range.endLine
  BY DEF Ranges, AtOrBefore
<1> DEFINE columns == range.endCol - range.startCol
<1>2. columns \in Int /\ 0 \in Int
  BY <1>1
<1>3. Max({0, columns}) = IF 0 <= columns THEN columns ELSE 0
  <2> HIDE DEF columns
  <2> QED BY <1>2, GreaterOf
<1> QED BY <1>1, <1>2, <1>3 DEF SpanLen

(* A smallest range has none narrower in it. *)
LEMMA SmallestIsNarrow ==
  ASSUME NEW inner \in Ranges, NEW outer \in Ranges, Narrower(inner, outer),
         inner.endCol < MaxU32
  PROVE  SpanLen(inner) < SpanLen(outer)
<1> DEFINE a == inner.endLine - inner.startLine
           b == outer.endLine - outer.startLine
           c == IF 0 <= inner.endCol - inner.startCol THEN inner.endCol - inner.startCol ELSE 0
           d == IF 0 <= outer.endCol - outer.startCol THEN outer.endCol - outer.startCol ELSE 0
<1>1. /\ inner.startLine \in Nat /\ inner.startCol \in Nat
      /\ inner.endLine \in Nat /\ inner.endCol \in Nat
      /\ outer.startLine \in Nat /\ outer.startCol \in Nat
      /\ outer.endLine \in Nat /\ outer.endCol \in Nat
      /\ AtOrBefore(inner.startLine, inner.startCol, inner.endLine, inner.endCol)
      /\ AtOrBefore(outer.startLine, outer.startCol, outer.endLine, outer.endCol)
      /\ inner = [startLine |-> inner.startLine, startCol |-> inner.startCol,
                  endLine |-> inner.endLine, endCol |-> inner.endCol]
      /\ outer = [startLine |-> outer.startLine, startCol |-> outer.startCol,
                  endLine |-> outer.endLine, endCol |-> outer.endCol]
  BY DEF Ranges
<1>2. /\ AtOrBefore(outer.startLine, outer.startCol, inner.startLine, inner.startCol)
      /\ AtOrBefore(inner.endLine, inner.endCol, outer.endLine, outer.endCol)
      /\ inner # outer
      /\ outer.startLine = outer.endLine \/ a < b
  BY DEF Narrower, Encloses
<1>3. /\ a \in Nat /\ b \in Nat /\ MaxU32 \in Nat
      /\ SpanLen(inner) = a * MaxU32 + c /\ SpanLen(outer) = b * MaxU32 + d
  BY SpanLenIs, CharAssumption
<1>4. c \in Nat /\ d \in Nat /\ c < MaxU32
  BY <1>1, <1>3
<1>5. CASE a < b
  <2> HIDE DEF a, b, c, d
  <2>1. a * MaxU32 + c < b * MaxU32
    BY <1>3, <1>4, <1>5, FewerLines
  <2>2. a * MaxU32 \in Nat /\ b * MaxU32 \in Nat
    BY <1>3
  <2> QED BY <1>3, <1>4, <2>1, <2>2
<1>6. CASE ~(a < b)
  <2>1. outer.startLine = outer.endLine
    BY <1>2, <1>6
  <2>2. /\ inner.startLine = outer.startLine /\ inner.endLine = outer.startLine
        /\ outer.startCol <= inner.startCol /\ inner.startCol <= inner.endCol
        /\ inner.endCol <= outer.endCol
    BY <1>1, <1>2, <2>1 DEF AtOrBefore
  <2>3. inner.startCol # outer.startCol \/ inner.endCol # outer.endCol
    BY <1>1, <1>2, <2>1, <2>2
  <2>4. c < d
    BY <1>1, <2>2, <2>3
  <2>5. a = 0 /\ b = 0
    BY <1>1, <2>1, <2>2
  <2> HIDE DEF a, b, c, d
  <2> QED BY <1>3, <1>4, <2>4, <2>5
<1> QED BY <1>5, <1>6

-----------------------------------------------------------------------------
(* What a cursor finds. *)

(* What the properties of a cursor are proved from. *)
OnText(i, cursor) ==
  /\ NavInv /\ TextInv
  /\ i \in DOMAIN text /\ text[i] # Newline
  /\ cursor \in CursorsOn(i)
  /\ Aligned(cursor.line)

Hits(i, found) == {o \in CoveringAt(i) : index.names[o.symbol] = found}

LEMMA OnTextIsReady ==
  ASSUME NEW i, NEW cursor, OnText(i, cursor)
  PROVE  /\ TextIsReady
         /\ i \in 1 .. Len(text)
         /\ IsInside(text, i, encoding, cursor)
         /\ cursor.line \in Nat
<1>1. encoding \in Encodings /\ text \in Seq(Chars) /\ Len(text) <= MaxText /\ i \in DOMAIN text
  BY DEF OnText, NavInv, TextInv
<1>2. i \in 1 .. Len(text) /\ Len(text) \in Nat /\ MaxText \in Nat
  BY <1>1, ColumnAssumption
<1>3. MaxText > 0
  BY <1>1, <1>2
<1>4. TextIsReady
  BY <1>1, <1>3 DEF TextIsReady
<1> QED BY <1>2, <1>4, CursorIs DEF OnText

LEMMA OccurrenceTypes ==
  ASSUME NavInv, NEW o \in RangeOf(index.occurrences[Open])
  PROVE  /\ o.range \in Ranges
         /\ o.symbol \in DOMAIN index.names
         /\ index.names[o.symbol] \in Symbols \ Locals
<1> DEFINE s == index.occurrences[Open]
<1>1. index \in Indexes /\ Open \in Paths
  BY OpenAssumption DEF NavInv
<1>2. s \in Seq(OccurrenceRows)
  BY <1>1, IndexFields
<1>3. PICK k \in DOMAIN s : s[k] = o
  BY DEF RangeOf
<1>4. o.range \in Ranges
  <2>1. o \in OccurrenceRows
    <3> HIDE DEF s
    <3> QED BY <1>2, <1>3
  <2> QED BY <2>1 DEF OccurrenceRows
<1>5. s[k].symbol \in DOMAIN index.names
  BY <1>1, <1>3 DEF NavInv, Holds, OccurrencesHold
<1>6. RangeOf(index.names) \subseteq Symbols \ Locals
  BY DEF NavInv, Holds, NamesHold
<1> QED BY <1>3, <1>4, <1>5, <1>6 DEF RangeOf

(* The occurrences that have the cursor's character are, whatever columns count, *)
(* the ones whose ranges the client has around its cursor, and the ones that the *)
(* index is asked about.                                                         *)
LEMMA CoveringIs ==
  ASSUME NEW i, NEW cursor, OnText(i, cursor), NEW at, IsInside(text, i, "Utf16", at)
  PROVE  /\ CoveringAt(i)
              = {o \in RangeOf(index.occurrences[Open]) : Covers(o.range, at.line, at.character)}
         /\ CoveringAt(i)
              = {o \in RangeOf(index.occurrences[Open]) :
                   Within(cursor, ConvertSpan(Open, o.range, "Utf16"))}
<1> DEFINE all == RangeOf(index.occurrences[Open])
           start == PositionOf(text, i - 1, "Utf16")
<1>1. /\ TextIsReady /\ i \in 1 .. Len(text) /\ text[i] # Newline
      /\ IsInside(text, i, encoding, cursor) /\ Aligned(cursor.line) /\ NavInv
  BY OnTextIsReady DEF OnText
<1>2. IsInside(text, i, "Utf16", start)
  <2>1. text \in Seq(Chars)
    BY <1>1 DEF TextIsReady
  <2>2. PICK p, u, m : Measured(text, p, u, m)
    BY <2>1, MeasuredExists
  <2>3. Same(start, PositionOf(text, i - 1, "Utf16"))
    BY DEF Same
  <2> QED BY <1>1, <2>1, <2>2, <2>3, StartIsInside
<1>3. CoveringAt(i) = {o \in all : Covers(o.range, start.line, start.character)}
  BY Zenon DEF CoveringAt
<1> HIDE DEF start, all
<1>4. ASSUME NEW o \in all
      PROVE  /\ Covers(o.range, start.line, start.character)
                  <=> Within(cursor, ConvertSpan(Open, o.range, "Utf16"))
             /\ Covers(o.range, at.line, at.character)
                  <=> Within(cursor, ConvertSpan(Open, o.range, "Utf16"))
  <2>1. o.range \in Ranges /\ Fits(o.range, cursor.line)
    BY <1>1, OccurrenceTypes, AlignedFits DEF all
  <2> DEFINE range == o.range
  <2> HIDE DEF range
  <2>2. range \in Ranges /\ Fits(range, cursor.line)
    BY <2>1 DEF range
  <2>3. /\ Covers(range, start.line, start.character)
             <=> Within(cursor, ConvertSpan(Open, range, "Utf16"))
        /\ Covers(range, at.line, at.character)
             <=> Within(cursor, ConvertSpan(Open, range, "Utf16"))
    BY <1>1, <1>2, <2>2, CoversAlike
  <2> QED BY <2>3 DEF range
<1> QED BY <1>3, <1>4 DEF all

(* An occurrence around the cursor ends at a column of the text. *)
LEMMA CoveringEnds ==
  ASSUME NEW i, NEW cursor, OnText(i, cursor), NEW o \in CoveringAt(i)
  PROVE  o.range.endCol < MaxU32
<1> DEFINE range == o.range
           start == PositionOf(text, i - 1, "Utf16")
           n == Len(text)
<1>1. /\ TextIsReady /\ i \in 1 .. n /\ Aligned(cursor.line) /\ NavInv
      /\ IsInside(text, i, encoding, cursor) /\ cursor.line \in Nat
  BY OnTextIsReady DEF OnText
<1>2. o \in RangeOf(index.occurrences[Open]) /\ Covers(range, start.line, start.character)
  BY Zenon DEF CoveringAt
<1>3. range \in Ranges /\ Fits(range, cursor.line)
  BY <1>1, <1>2, OccurrenceTypes, AlignedFits
<1>4. start.line = cursor.line
  BY <1>1 DEF IsInside, PositionOf
<1> HIDE DEF range, start
<1>5. range.startLine <= cursor.line /\ cursor.line <= range.endLine
  <2>1. range.startLine \in Nat /\ range.endLine \in Nat
    BY <1>3 DEF Ranges
  <2> QED BY <1>1, <1>2, <1>4, <2>1 DEF Covers, AtOrBefore
<1>6. PICK b \in 0 .. n : Same(At(range.endLine, range.endCol), PositionOf(text, b, "Utf16"))
  BY <1>3, <1>5 DEF Fits
<1>7. text \in Seq(Chars) /\ Len(text) <= MaxText
  BY <1>1 DEF TextIsReady
<1>8. PICK p, u, m : Measured(text, p, u, m)
  BY <1>7, MeasuredExists
<1>9. PositionOf(text, b, "Utf16").character \in 0 .. p[n] /\ p[n] \in Nat
  BY <1>6, <1>7, <1>8, PositionOfBounds, MeasuredTypes
<1>10. p[n] <= 4 * MaxText
  BY <1>7, <1>8, TextIsShort DEF Short
<1>11. range.endCol \in 0 .. p[n]
  BY <1>6, <1>9 DEF Same, At
<1> DEFINE w == p[n]
           c == range.endCol
<1> HIDE DEF n
<1>12. w \in Nat /\ w <= 4 * MaxText /\ c \in 0 .. w
  BY <1>9, <1>10, <1>11
<1> HIDE DEF w, c
<1>13. MaxText \in Nat /\ 16 * MaxText < MaxU32 /\ MaxU32 \in Nat
  BY ColumnAssumption, CharAssumption
<1>14. c < MaxU32
  BY <1>12, <1>13
<1> QED BY <1>14 DEF c, range

Narrowest(i) ==
  {o \in CoveringAt(i) : \A other \in CoveringAt(i) : ~Narrower(other.range, o.range)}

LEMMA FoundIs ==
  ASSUME NEW i, NEW cursor, OnText(i, cursor)
  PROVE  LET found == SymbolUnderCursor(cursor)
         IN  /\ CoveringAt(i) = {} => found = None
             /\ CoveringAt(i) # {} => \E o \in Narrowest(i) : found = index.names[o.symbol]
<1> DEFINE found == SymbolUnderCursor(cursor)
           covering == CoveringAt(i)
<1>1. /\ TextIsReady /\ i \in 1 .. Len(text) /\ text[i] # Newline
      /\ IsInside(text, i, encoding, cursor) /\ cursor.line \in Nat
      /\ NavInv /\ index \in Indexes /\ Tidy(index) /\ Open \in Paths
  BY OnTextIsReady, OpenAssumption DEF OnText, NavInv
<1>2. PICK col : /\ found = SymbolAt(index, Open, cursor.line, col)
                 /\ IsInside(text, i, "Utf16", At(cursor.line, col))
  BY <1>1, UnderCursor
<1>3. covering = {o \in RangeOf(index.occurrences[Open]) : Covers(o.range, cursor.line, col)}
  <2> DEFINE at == At(cursor.line, col)
  <2>1. at.line = cursor.line /\ at.character = col
    BY DEF At
  <2> HIDE DEF at
  <2>2. IsInside(text, i, "Utf16", at)
    BY <1>2 DEF at
  <2>3. covering = {o \in RangeOf(index.occurrences[Open]) : Covers(o.range, at.line, at.character)}
    BY <2>2, CoveringIs
  <2> QED BY <2>1, <2>3
<1>4. covering = CoveringIn(index, Open, cursor.line, col)
  BY <1>3, Zenon DEF CoveringIn
<1> HIDE DEF found, covering
<1>5. /\ covering = {} => found = None
      /\ covering # {} => \E o \in covering : found = index.names[o.symbol] /\ Smallest(covering, o)
  BY <1>1, <1>2, <1>4, SymbolAtIs
<1>6. ASSUME NEW o \in covering, Smallest(covering, o) PROVE o \in Narrowest(i)
  <2> SUFFICES ASSUME NEW other \in covering, Narrower(other.range, o.range) PROVE FALSE
    BY DEF Narrowest, covering
  <2>1. /\ o \in RangeOf(index.occurrences[Open])
        /\ other \in RangeOf(index.occurrences[Open])
    BY <1>3
  <2>2. other.range \in Ranges /\ o.range \in Ranges
    BY <1>1, <2>1, OccurrenceTypes
  <2>3. other.range.endCol < MaxU32
    BY CoveringEnds DEF covering
  <2>4. SpanLen(other.range) < SpanLen(o.range)
    BY <2>2, <2>3, SmallestIsNarrow
  <2>5. SpanLen(o.range) <= SpanLen(other.range)
    BY <1>6 DEF Smallest
  <2>6. SpanLen(o.range) \in Nat /\ SpanLen(other.range) \in Nat
    BY <2>2, SpanLenType
  <2> QED BY <2>4, <2>5, <2>6
<1> QED BY <1>5, <1>6 DEF found, covering

(* There is a symbol if and only if an occurrence has the character. *)
LEMMA FoundSymbol ==
  ASSUME NEW i, NEW cursor, OnText(i, cursor)
  PROVE  LET found == SymbolUnderCursor(cursor)
         IN  /\ CoveringAt(i) = {} <=> found = None
             /\ CoveringAt(i) # {} => /\ found \in Symbols
                                      /\ found # None
                                      /\ Hits(i, found) # {}
<1> DEFINE found == SymbolUnderCursor(cursor)
<1>1. /\ CoveringAt(i) = {} => found = None
      /\ CoveringAt(i) # {} => \E o \in Narrowest(i) : found = index.names[o.symbol]
  BY FoundIs
<1> HIDE DEF found
<1>2. ASSUME CoveringAt(i) # {}
      PROVE  found \in Symbols /\ found # None /\ Hits(i, found) # {}
  <2>1. PICK o \in Narrowest(i) : found = index.names[o.symbol]
    BY <1>1, <1>2
  <2>2. o \in CoveringAt(i)
    BY <2>1 DEF Narrowest
  <2>3. o \in RangeOf(index.occurrences[Open])
    BY <2>2 DEF CoveringAt
  <2>4. found \in Symbols
    BY <2>1, <2>3, OccurrenceTypes DEF OnText
  <2>5. None \notin Symbols
    BY InputAssumption
  <2>6. o \in Hits(i, found)
    BY <2>1, <2>2 DEF Hits
  <2> QED BY <2>4, <2>5, <2>6
<1> QED BY <1>1, <1>2 DEF found

-----------------------------------------------------------------------------
(* References, nearest first. *)

HitRows == [path : Paths, range : Ranges, encoding : Encodings]

RowAt(hit) == [path |-> hit.path, range |-> hit.range, encoding |-> hit.encoding]

HitsFrom(all) == [k \in DOMAIN all |-> RowAt(all[k])]

Nearness(hit) ==
  <<Proximity(hit.path), Order[hit.path], hit.range.startLine, hit.range.startCol>>

NearnessIn(hits) == [hit \in RangeOf(hits) |-> Nearness(hit)]

Nearest(all) == SortedBy(HitsFrom(all), NearnessIn(HitsFrom(all)))

AllOf(found, includeDeclaration) ==
  (IF includeDeclaration THEN DefinitionsOf(index, found) ELSE <<>>) \o ReferencesTo(index, found)

LEMMA FindReferencesIs ==
  ASSUME NEW position, NEW includeDeclaration, NEW all, NEW references,
         all = AllOf(SymbolUnderCursor(position), includeDeclaration),
         references = FindReferences(position, includeDeclaration),
         SymbolUnderCursor(position) # None
  PROVE  /\ references.locations = ToLocations(SubSeq(Nearest(all), 1, Min({Len(all), ReferenceLimit})))
         /\ references.total = Len(all)
<1>1. references = [locations |-> ToLocations(SubSeq(Nearest(all), 1, Min({Len(all), ReferenceLimit}))),
                    total |-> Len(all)]
  BY Zenon DEF FindReferences, Nearest, HitsFrom, RowAt, NearnessIn, Nearness, AllOf
<1> QED BY <1>1

(* What a row of the index must be to be sent. *)
Row(hit) == hit.path \in Paths /\ hit.range \in Ranges /\ hit.encoding \in Encodings

LEMMA HitsFromFacts ==
  ASSUME NEW S, NEW all \in Seq(S), \A hit \in S : Row(hit)
  PROVE  /\ HitsFrom(all) \in Seq(HitRows) /\ Len(HitsFrom(all)) = Len(all)
         /\ RangeOf(HitsFrom(all)) = {RowAt(hit) : hit \in RangeOf(all)}
<1>1. \A k \in DOMAIN all : all[k] \in S
  OBVIOUS
<1>2. \A k \in DOMAIN all : RowAt(all[k]) \in HitRows
  BY <1>1 DEF RowAt, HitRows, Row
<1>3. DOMAIN all = 1 .. Len(all) /\ Len(all) \in Nat
  OBVIOUS
<1>4. HitsFrom(all) \in [1 .. Len(all) -> HitRows]
  BY <1>2, <1>3 DEF HitsFrom
<1>5. RangeOf(HitsFrom(all)) = {RowAt(hit) : hit \in RangeOf(all)}
  BY <1>3 DEF HitsFrom, RangeOf
<1> QED BY <1>3, <1>4, <1>5

LEMMA NearnessType ==
  ASSUME NEW hit \in HitRows
  PROVE  Nearness(hit) \in [1 .. 4 -> Int]
<1>1. hit.path \in Paths /\ hit.range.startLine \in Nat /\ hit.range.startCol \in Nat
  BY DEF HitRows, Ranges
<1>2. Order[hit.path] \in Nat
  BY <1>1, SearchAssumption
<1>3. Proximity(hit.path) \in Nat
  BY DEF Proximity
<1> QED BY <1>1, <1>2, <1>3 DEF Nearness

LEMMA NearestFacts ==
  ASSUME NEW S, NEW all \in Seq(S), \A hit \in S : Row(hit)
  PROVE  /\ Nearest(all) \in Seq(HitRows) /\ Len(Nearest(all)) = Len(all)
         /\ RangeOf(Nearest(all)) = {RowAt(hit) : hit \in RangeOf(all)}
         /\ \A i, j \in DOMAIN Nearest(all) :
              i < j => ~Less(Nearness(Nearest(all)[j]), Nearness(Nearest(all)[i]))
<1> DEFINE hits == HitsFrom(all)
           key == NearnessIn(hits)
           T == RangeOf(hits)
           sorted == SortedBy(hits, key)
           n == 4
<1>1. hits \in Seq(HitRows) /\ Len(hits) = Len(all) /\ T = {RowAt(hit) : hit \in RangeOf(all)}
  BY HitsFromFacts
<1> HIDE DEF hits
<1>2. hits \in Seq(T) /\ T \subseteq HitRows
  <2>1. /\ DOMAIN hits = 1 .. Len(hits) /\ Len(hits) \in Nat
        /\ \A k \in DOMAIN hits : hits[k] \in HitRows
    BY <1>1
  <2>2. \A k \in DOMAIN hits : hits[k] \in T
    BY DEF RangeOf
  <2>3. hits = [k \in 1 .. Len(hits) |-> hits[k]]
    BY <1>1
  <2>4. hits \in [1 .. Len(hits) -> T]
    BY <2>1, <2>2, <2>3
  <2>5. T \subseteq HitRows
    BY <2>1 DEF RangeOf
  <2> QED BY <2>1, <2>4, <2>5
<1> HIDE DEF T
<1>3. \A hit \in T : key[hit] = Nearness(hit) /\ key[hit] \in [1 .. n -> Int]
  <2>1. \A hit \in T : key[hit] = Nearness(hit)
    BY DEF NearnessIn, T
  <2> QED BY <1>2, <2>1, NearnessType
<1> HIDE DEF key
<1>4. Linear(key, T)
  <2>1. n \in Nat /\ Keys(key, T, n)
    BY <1>3 DEF Keys
  <2> HIDE DEF n
  <2> QED BY <2>1, KeysAreLinear
<1>5. /\ sorted \in Seq(T) /\ Len(sorted) = Len(hits) /\ RangeOf(sorted) = RangeOf(hits)
      /\ Ordered(sorted, key)
  BY <1>2, <1>4, SortedByFacts
<1>6. Nearest(all) = sorted
  BY DEF Nearest, hits, key
<1> HIDE DEF sorted
<1>7. sorted \in Seq(HitRows)
  BY <1>2, <1>5
<1>8. \A i \in DOMAIN sorted : sorted[i] \in T
  BY <1>5
<1>9. \A i, j \in DOMAIN sorted : i < j => ~Less(Nearness(sorted[j]), Nearness(sorted[i]))
  BY <1>3, <1>5, <1>8 DEF Ordered
<1> QED BY <1>1, <1>5, <1>6, <1>7, <1>9 DEF T

LEMMA ToLocationsFacts ==
  ASSUME NEW S, NEW s \in Seq(S)
  PROVE  /\ Len(ToLocations(s)) = Len(s)
         /\ RangeOf(ToLocations(s)) = {ToLocation(x) : x \in RangeOf(s)}
         /\ \A k \in DOMAIN s : ToLocations(s)[k] = ToLocation(s[k])
<1>1. DOMAIN s = 1 .. Len(s) /\ Len(s) \in Nat
  OBVIOUS
<1>2. /\ DOMAIN ToLocations(s) = DOMAIN s
      /\ \A k \in DOMAIN s : ToLocations(s)[k] = ToLocation(s[k])
  BY DEF ToLocations
<1>3. Len(ToLocations(s)) = Len(s)
  <2>1. ToLocations(s) = [k \in 1 .. Len(s) |-> ToLocation(s[k])]
    BY <1>1 DEF ToLocations
  <2>2. [k \in 1 .. Len(s) |-> ToLocation(s[k])] \in Seq({ToLocation(s[k]) : k \in 1 .. Len(s)})
    BY <1>1
  <2> QED BY <1>1, <2>1, <2>2
<1>4. RangeOf(ToLocations(s)) = {ToLocation(x) : x \in RangeOf(s)}
  BY <1>2 DEF RangeOf
<1> QED BY <1>2, <1>3, <1>4

LEMMA LocationOfRow ==
  ASSUME NEW hit
  PROVE  ToLocation(RowAt(hit)) = ToLocation(hit)
BY DEF ToLocation, RowAt

(* The locations are those of all there is, unless there is more than the limit, *)
(* and the first of them is in the open document if any is.                      *)
LEMMA LocationsAre ==
  ASSUME NEW S, NEW all \in Seq(S), \A hit \in S : Row(hit), NEW locations,
         locations = ToLocations(SubSeq(Nearest(all), 1, Min({Len(all), ReferenceLimit})))
  PROVE  /\ Len(all) <= ReferenceLimit
              => RangeOf(locations) = {ToLocation(hit) : hit \in RangeOf(all)}
         /\ (\E hit \in RangeOf(all) : hit.path = Open) => locations[1].path = Open
<1> DEFINE sorted == Nearest(all)
           n == Len(all)
           m == Min({n, ReferenceLimit})
           page == SubSeq(sorted, 1, m)
<1>1. /\ sorted \in Seq(HitRows) /\ Len(sorted) = n
      /\ RangeOf(sorted) = {RowAt(hit) : hit \in RangeOf(all)}
      /\ \A i, j \in DOMAIN sorted : i < j => ~Less(Nearness(sorted[j]), Nearness(sorted[i]))
  BY NearestFacts
<1>2. n \in Nat /\ ReferenceLimit \in Nat /\ ReferenceLimit >= 1
  BY SearchAssumption
<1> HIDE DEF sorted, n
<1>3. m = IF n <= ReferenceLimit THEN n ELSE ReferenceLimit
  BY <1>2, SmallerOf
<1> HIDE DEF m
<1>4. m \in Nat /\ m <= n
  BY <1>2, <1>3
<1>5. /\ page \in Seq(HitRows) /\ Len(page) = m
      /\ \A k \in 1 .. m : page[k] = sorted[k]
  <2>1. \A k \in 1 .. m : sorted[k] \in HitRows
    BY <1>1, <1>4
  <2>2. /\ page \in Seq(HitRows)
        /\ Len(page) = IF 1 <= m THEN m - 1 + 1 ELSE 0
        /\ \A k \in 1 .. m - 1 + 1 : page[k] = sorted[1 + k - 1]
    BY <1>4, <2>1, SubSeqProperties
  <2> HIDE DEF page
  <2>3. Len(page) = m
    BY <1>4, <2>2
  <2>4. \A k \in 1 .. m : page[k] = sorted[k]
    BY <1>4, <2>2
  <2> QED BY <2>2, <2>3, <2>4
<1> HIDE DEF page
<1>6. /\ RangeOf(locations) = {ToLocation(x) : x \in RangeOf(page)}
      /\ \A k \in DOMAIN page : locations[k] = ToLocation(page[k])
  BY <1>5, ToLocationsFacts DEF page, m, sorted, n
<1>7. ASSUME n <= ReferenceLimit
      PROVE  RangeOf(locations) = {ToLocation(hit) : hit \in RangeOf(all)}
  <2>1. m = n
    BY <1>3, <1>7
  <2>2. RangeOf(page) = RangeOf(sorted)
    BY <1>1, <1>5, <2>1 DEF RangeOf
  <2>3. {ToLocation(x) : x \in RangeOf(sorted)} = {ToLocation(RowAt(hit)) : hit \in RangeOf(all)}
    BY <1>1
  <2>4. \A hit : ToLocation(RowAt(hit)) = ToLocation(hit)
    BY LocationOfRow
  <2>5. {ToLocation(RowAt(hit)) : hit \in RangeOf(all)} = {ToLocation(hit) : hit \in RangeOf(all)}
    BY <2>4
  <2>6. {ToLocation(x) : x \in RangeOf(page)} = {ToLocation(x) : x \in RangeOf(sorted)}
    BY <2>2
  <2> QED BY <1>6, <2>3, <2>5, <2>6
<1>8. ASSUME NEW hit \in RangeOf(all), hit.path = Open
      PROVE  locations[1].path = Open
  <2>1. RowAt(hit) \in RangeOf(sorted)
    BY <1>1
  <2>2. PICK k \in DOMAIN sorted : sorted[k] = RowAt(hit)
    BY <2>1 DEF RangeOf
  <2>3. sorted[k].path = Open
    BY <1>8, <2>2 DEF RowAt
  <2>4. k \in 1 .. n /\ n >= 1 /\ 1 \in DOMAIN sorted
    BY <1>1, <1>2
  <2>5. m >= 1 /\ 1 \in 1 .. m /\ m \in Nat
    BY <1>2, <1>3, <2>4
  <2>6. page[1] = sorted[1] /\ 1 \in DOMAIN page
    BY <1>5, <2>5
  <2>7. locations[1].path = sorted[1].path
    <3>1. locations[1] = ToLocation(sorted[1])
      BY <1>6, <2>6
    <3> QED BY <3>1 DEF ToLocation
  <2>8. CASE k = 1
    BY <2>3, <2>7, <2>8
  <2>9. CASE k # 1
    <3>1. ~Less(Nearness(sorted[k]), Nearness(sorted[1]))
      BY <1>1, <2>4, <2>9
    <3>2. ASSUME sorted[1].path # Open PROVE FALSE
      <4> DEFINE a == Nearness(sorted[k])
                 b == Nearness(sorted[1])
      <4>1. a[1] = Proximity(sorted[k].path) /\ b[1] = Proximity(sorted[1].path)
            /\ 1 \in DOMAIN a /\ 1 \in DOMAIN b
        BY DEF Nearness
      <4>2. a[1] = 0 /\ b[1] \in {1, 2} /\ 1 \in DOMAIN a /\ 1 \in DOMAIN b
        <5>1. Proximity(sorted[k].path) = 0
          BY <2>3 DEF Proximity
        <5>2. Proximity(sorted[1].path) \in {1, 2}
          BY <3>2 DEF Proximity
        <5> HIDE DEF a, b
        <5> QED BY <4>1, <5>1, <5>2
      <4> HIDE DEF a, b
      <4>3. Less(a, b)
        <5>1. 1 \in DOMAIN a \cap DOMAIN b /\ a[1] < b[1]
          BY <4>2
        <5>2. \A j \in 1 .. 1 - 1 : a[j] = b[j]
          OBVIOUS
        <5> QED BY <5>1, <5>2 DEF Less
      <4> QED BY <3>1, <4>3 DEF a, b
    <3> QED BY <2>7, <3>2
  <2> QED BY <2>8, <2>9
<1> QED BY <1>7, <1>8 DEF n

-----------------------------------------------------------------------------
(* The answers from one cursor. *)

LEMMA SitesOfSymbol ==
  ASSUME NavInv, NEW found
  PROVE  /\ DefinitionsOf(index, found) \in Seq(Declarations)
         /\ RangeOf(DefinitionsOf(index, found))
              = {def \in RangeOf(index.definitions) : def.symbol = found}
<1> DEFINE defs == index.definitions
           chosen == {def \in RangeOf(defs) : def.symbol = found}
<1>1. defs \in Seq(Declarations)
  BY IndexFields DEF NavInv
<1>2. DefinitionsOf(index, found) = Selected(defs, chosen)
  BY DEF DefinitionsOf
<1>3. chosen \subseteq RangeOf(defs)
  OBVIOUS
<1> HIDE DEF defs, chosen
<1>4. Selected(defs, chosen) \in Seq(Declarations)
      /\ RangeOf(Selected(defs, chosen)) = RangeOf(defs) \intersect chosen
  BY <1>1, SelectedFacts
<1>5. RangeOf(DefinitionsOf(index, found)) = chosen
  BY <1>2, <1>3, <1>4
<1> QED BY <1>2, <1>4, <1>5 DEF chosen, defs

LEMMA UsesOfSymbol ==
  ASSUME NavInv, NEW found \in Symbols
  PROVE  /\ ReferencesTo(index, found) \in Seq(RangeOf(ReferencesTo(index, found)))
         /\ \A use \in RangeOf(ReferencesTo(index, found)) : Row(use)
         /\ RangeOf(ReferencesTo(index, found)) = UsesIn(Seen, found)
<1> DEFINE uses == index.references[found]
           named == ReferencesTo(index, found)
<1>1. index \in Indexes /\ UsesHold(index, Seen)
  BY DEF NavInv, Holds
<1>2. uses \in Seq(UseRows) /\ index.paths \in Seq(Paths)
  BY <1>1, IndexFields
<1>3. \A k \in DOMAIN uses : uses[k].path \in DOMAIN index.paths
  BY <1>1 DEF UsesHold
<1>4. DOMAIN uses = 1 .. Len(uses) /\ Len(uses) \in Nat
  BY <1>2
<1>5. named = [k \in DOMAIN uses |-> NamedUse(index.paths, uses[k])]
  BY Zenon DEF ReferencesTo, NamedUse
<1>6. RangeOf(named) = UsesIn(Seen, found)
  BY <1>1 DEF UsesHold
<1> HIDE DEF uses, named
<1>7. ASSUME NEW k \in DOMAIN uses PROVE Row(NamedUse(index.paths, uses[k]))
  <2> DEFINE use == uses[k]
  <2>1. use \in UseRows /\ use.path \in DOMAIN index.paths
    BY <1>2, <1>3, <1>7
  <2> HIDE DEF use
  <2>2. /\ NamedUse(index.paths, use).path = index.paths[use.path]
        /\ NamedUse(index.paths, use).range = use.range
        /\ NamedUse(index.paths, use).encoding = use.encoding
    BY <2>1 DEF NamedUse, UseRows
  <2>3. index.paths[use.path] \in Paths
    BY <1>2, <2>1
  <2>4. use.range \in Ranges /\ use.encoding \in Encodings
    BY <2>1 DEF UseRows
  <2> QED BY <2>2, <2>3, <2>4 DEF Row, use
<1>8. \A use \in RangeOf(named) : Row(use)
  BY <1>5, <1>7 DEF RangeOf
<1>9. named \in Seq(RangeOf(named))
  <2>1. DOMAIN named = 1 .. Len(uses)
    BY <1>4, <1>5
  <2>2. \A k \in DOMAIN named : named[k] \in RangeOf(named)
    BY DEF RangeOf
  <2>3. named = [k \in 1 .. Len(uses) |-> named[k]]
    BY <1>4, <1>5
  <2>4. named \in [1 .. Len(uses) -> RangeOf(named)]
    BY <2>1, <2>2, <2>3
  <2> QED BY <1>4, <2>4
<1> QED BY <1>6, <1>8, <1>9 DEF named

LEMMA AllIs ==
  ASSUME NavInv, NEW found \in Symbols
  PROVE  LET sites == DefinitionsOf(index, found)
             uses == ReferencesTo(index, found)
             S == Declarations \union RangeOf(uses)
         IN  /\ \A hit \in S : Row(hit)
             /\ AllOf(found, TRUE) \in Seq(S) /\ AllOf(found, FALSE) \in Seq(S)
             /\ RangeOf(AllOf(found, TRUE)) = RangeOf(sites) \union RangeOf(uses)
             /\ RangeOf(AllOf(found, FALSE)) = RangeOf(uses)
             /\ Len(AllOf(found, TRUE)) = Len(sites) + Len(uses)
             /\ Len(AllOf(found, FALSE)) = Len(uses)
             /\ Len(sites) \in Nat /\ Len(uses) \in Nat
<1> DEFINE sites == DefinitionsOf(index, found)
           uses == ReferencesTo(index, found)
           S == Declarations \union RangeOf(uses)
           none == <<>>
<1>1. AllOf(found, TRUE) = sites \o uses /\ AllOf(found, FALSE) = none \o uses
  BY DEF AllOf
<1>2. sites \in Seq(Declarations)
  BY SitesOfSymbol
<1>3. uses \in Seq(RangeOf(uses)) /\ \A use \in RangeOf(uses) : Row(use)
  BY UsesOfSymbol
<1>4. none \in Seq(S) /\ Len(none) = 0 /\ RangeOf(none) = {}
  BY DEF RangeOf
<1>5. \A def \in Declarations : Row(def)
  BY DEF Declarations, Row
<1> HIDE DEF sites, uses, none
<1>6. \A hit \in S : Row(hit)
  BY <1>3, <1>5
<1>7. sites \in Seq(S) /\ uses \in Seq(S)
  BY <1>2, <1>3
<1> HIDE DEF S
<1>8. /\ sites \o uses \in Seq(S) /\ Len(sites \o uses) = Len(sites) + Len(uses)
      /\ RangeOf(sites \o uses) = RangeOf(sites) \union RangeOf(uses)
      /\ Len(sites) \in Nat /\ Len(uses) \in Nat
  BY <1>7, ConcatFacts
<1>9. /\ none \o uses \in Seq(S) /\ Len(none \o uses) = Len(none) + Len(uses)
      /\ RangeOf(none \o uses) = RangeOf(none) \union RangeOf(uses)
  BY <1>4, <1>7, ConcatFacts
<1>10. Len(none \o uses) = Len(uses) /\ RangeOf(none \o uses) = RangeOf(uses)
  BY <1>4, <1>8, <1>9
<1> QED BY <1>1, <1>6, <1>8, <1>9, <1>10 DEF S, sites, uses

(* What the cursor is on is a use or a declaration in the open document. *)
LEMMA HitIsSeen ==
  ASSUME NEW i, NEW cursor, OnText(i, cursor), NEW found \in Symbols, NEW o \in Hits(i, found)
  PROVE  \E hit \in RangeOf(AllOf(found, TRUE)) :
           hit.path = Open /\ hit.range = o.range /\ hit.encoding = "Utf16"
<1> DEFINE sites == DefinitionsOf(index, found)
           uses == ReferencesTo(index, found)
<1>1. /\ NavInv /\ Open \in Paths /\ SitesHold(index, Seen) /\ OccurrencesHold(index, Seen)
      /\ \A seen \in Kept : seen.path = Open => seen.encoding = "Utf16"
  BY OpenAssumption DEF OnText, NavInv, Holds, Aligned
<1>2. RangeOf(AllOf(found, TRUE)) = RangeOf(sites) \union RangeOf(uses)
  BY <1>1, AllIs
<1>3. o \in RangeOf(index.occurrences[Open]) /\ index.names[o.symbol] = found
  BY DEF Hits, CoveringAt
<1>4. [range |-> o.range, symbol |-> found] \in OccurrencesIn(Seen, Open)
  BY <1>1, <1>3 DEF OccurrencesHold
<1>5. PICK k \in Kept : k.path = Open /\ k.row.range = o.range /\ k.row.symbol = found
  BY <1>4 DEF OccurrencesIn, Kept
<1>6. k.encoding = "Utf16" /\ k \in KeptOf(Seen)
  BY <1>1, <1>5 DEF Kept
<1> HIDE DEF sites, uses
<1>7. CASE k.row.definition
  <2>1. [symbol |-> found, path |-> Open, range |-> o.range] \in SitesIn(Seen)
    BY <1>5, <1>6, <1>7 DEF SitesIn
  <2>2. PICK def \in RangeOf(index.definitions) :
          SiteOf(def) = [symbol |-> found, path |-> Open, range |-> o.range]
    BY <1>1, <2>1 DEF SitesHold
  <2>3. def.symbol = found /\ def.path = Open /\ def.range = o.range
    BY <2>2 DEF SiteOf
  <2>4. def.encoding = "Utf16"
    <3>1. PICK seen \in KeptOf(Seen) : seen.path = def.path /\ seen.encoding = def.encoding
      BY <1>1 DEF SitesHold, EncodingSeen
    <3> QED BY <1>1, <2>3, <3>1 DEF Kept
  <2>5. def \in RangeOf(sites)
    BY <1>1, <2>3, SitesOfSymbol DEF sites
  <2> QED BY <1>2, <2>3, <2>4, <2>5
<1>8. CASE ~k.row.definition
  <2> DEFINE use == [path |-> k.path, range |-> k.row.range, encoding |-> k.encoding,
                     import |-> k.row.import]
  <2>1. use \in UsesIn(Seen, found)
    BY <1>5, <1>6, <1>8 DEF UsesIn
  <2>2. use \in RangeOf(uses)
    BY <1>1, <2>1, UsesOfSymbol DEF uses
  <2>3. use.path = Open /\ use.range = o.range /\ use.encoding = "Utf16"
    BY <1>5, <1>6
  <2> QED BY <1>2, <2>2, <2>3
<1> QED BY <1>7, <1>8

(* What the answers are made from, and that they agree. *)
LEMMA AnswersFollow ==
  ASSUME NEW i, NEW cursor, OnText(i, cursor), CoveringAt(i) # {}
  PROVE  LET found == SymbolUnderCursor(cursor)
         IN  AnswersAgree(found, {o.range : o \in Hits(i, found)},
                          FindReferences(cursor, TRUE), FindReferences(cursor, FALSE),
                          GotoDefinition(cursor), Hover(cursor), GotoImplementation(cursor))
<1> DEFINE found == SymbolUnderCursor(cursor)
           ranges == {o.range : o \in Hits(i, found)}
           references == FindReferences(cursor, TRUE)
           uses == FindReferences(cursor, FALSE)
           definitions == GotoDefinition(cursor)
           hover == Hover(cursor)
           implementors == GotoImplementation(cursor)
           sites == DefinitionsOf(index, found)
           refs == ReferencesTo(index, found)
           all == AllOf(found, TRUE)
           some == AllOf(found, FALSE)
           S == Declarations \union RangeOf(refs)
<1>1. NavInv /\ found \in Symbols /\ found # None /\ Hits(i, found) # {}
  BY FoundSymbol DEF OnText
<1>2. /\ references.locations
           = ToLocations(SubSeq(Nearest(all), 1, Min({Len(all), ReferenceLimit})))
      /\ references.total = Len(all)
  BY <1>1, FindReferencesIs
<1>3. /\ uses.locations
           = ToLocations(SubSeq(Nearest(some), 1, Min({Len(some), ReferenceLimit})))
      /\ uses.total = Len(some)
  BY <1>1, FindReferencesIs
<1>4. definitions = ToLocations(sites)
  BY DEF GotoDefinition
<1>5. implementors = ToLocations(Implementors(index, found))
  BY <1>1 DEF GotoImplementation
<1>6. hover # None => sites # <<>> /\ hover = SiteOf(sites[1])
  BY DEF Hover
<1> HIDE DEF found, references, uses, definitions, implementors, hover
<1>7. sites \in Seq(Declarations)
      /\ RangeOf(sites) = {def \in RangeOf(index.definitions) : def.symbol = found}
  BY <1>1, SitesOfSymbol
<1>8. /\ \A hit \in S : Row(hit)
      /\ all \in Seq(S) /\ some \in Seq(S)
      /\ RangeOf(all) = RangeOf(sites) \union RangeOf(refs)
      /\ RangeOf(some) = RangeOf(refs)
      /\ Len(all) = Len(sites) + Len(refs)
      /\ Len(some) = Len(refs)
      /\ Len(sites) \in Nat /\ Len(refs) \in Nat
  BY <1>1, AllIs
<1>9. \A o \in Hits(i, found) : \E hit \in RangeOf(all) :
        hit.path = Open /\ hit.range = o.range /\ hit.encoding = "Utf16"
  BY <1>1, HitIsSeen
<1> HIDE DEF sites, refs, all, some, S
<1>10. /\ Len(all) <= ReferenceLimit
            => RangeOf(references.locations) = {ToLocation(hit) : hit \in RangeOf(all)}
       /\ (\E hit \in RangeOf(all) : hit.path = Open) => references.locations[1].path = Open
  BY <1>2, <1>8, LocationsAre
<1>11. Len(some) <= ReferenceLimit
            => RangeOf(uses.locations) = {ToLocation(hit) : hit \in RangeOf(some)}
  BY <1>3, <1>8, LocationsAre
<1>12. ReferenceLimit \in Nat
  BY SearchAssumption
<1>13. /\ Len(definitions) = Len(sites)
       /\ RangeOf(definitions) = {ToLocation(def) : def \in RangeOf(sites)}
  BY <1>4, <1>7, ToLocationsFacts
<1>14. references.total <= ReferenceLimit
         => \A range \in ranges : HereOf(range) \in RangeOf(references.locations)
  <2> SUFFICES ASSUME references.total <= ReferenceLimit, NEW range \in ranges
               PROVE  HereOf(range) \in RangeOf(references.locations)
    OBVIOUS
  <2>1. PICK hit \in RangeOf(all) :
          hit.path = Open /\ hit.range = range /\ hit.encoding = "Utf16"
    BY <1>9
  <2>2. HereOf(range) = ToLocation(hit)
    BY <2>1 DEF HereOf, ToLocation
  <2>3. ToLocation(hit) \in RangeOf(references.locations)
    BY <1>2, <1>10, <2>1
  <2> QED BY <2>2, <2>3
<1>15. references.locations[1].path = Open
  BY <1>1, <1>9, <1>10
<1>16. references.total = uses.total + Len(definitions)
  BY <1>2, <1>3, <1>8, <1>13
<1>17. references.total <= ReferenceLimit
         => RangeOf(references.locations)
              = RangeOf(uses.locations) \union RangeOf(definitions)
  <2> SUFFICES ASSUME references.total <= ReferenceLimit
               PROVE  RangeOf(references.locations)
                        = RangeOf(uses.locations) \union RangeOf(definitions)
    OBVIOUS
  <2>1. Len(all) <= ReferenceLimit /\ Len(some) <= ReferenceLimit
    BY <1>2, <1>8, <1>12
  <2>2. RangeOf(references.locations) = {ToLocation(hit) : hit \in RangeOf(all)}
    BY <1>10, <2>1
  <2>3. RangeOf(uses.locations) = {ToLocation(hit) : hit \in RangeOf(some)}
    BY <1>11, <2>1
  <2> QED BY <1>8, <1>13, <2>2, <2>3
<1>18. hover # None => hover.symbol = found
  <2> SUFFICES ASSUME hover # None PROVE hover.symbol = found
    OBVIOUS
  <2>1. sites # <<>> /\ hover.symbol = sites[1].symbol
    BY <1>6 DEF SiteOf
  <2>2. sites[1] \in RangeOf(sites)
    BY <1>7, <2>1 DEF RangeOf
  <2> QED BY <1>7, <2>1, <2>2
<1>19. RangeOf(implementors)
         = {ToLocation(def) : def \in {d \in RangeOf(index.definitions) : found \in d.implements}}
  <2> DEFINE defs == index.definitions
             chosen == {d \in RangeOf(defs) : found \in d.implements}
             kept == Selected(defs, chosen)
  <2>1. defs \in Seq(Declarations)
    BY <1>1, IndexFields DEF NavInv
  <2>2. Implementors(index, found) = kept
    BY DEF Implementors
  <2>3. RangeOf(defs) \intersect chosen = chosen
    OBVIOUS
  <2> HIDE DEF defs, chosen
  <2>4. kept \in Seq(Declarations) /\ RangeOf(kept) = chosen
    BY <2>1, <2>3, SelectedFacts
  <2> HIDE DEF kept
  <2>5. RangeOf(implementors) = {ToLocation(def) : def \in chosen}
    BY <1>5, <2>2, <2>4, ToLocationsFacts
  <2> QED BY <2>5 DEF chosen, defs
<1> HIDE DEF ranges
<1>20. AnswersAgree(found, ranges, references, uses, definitions, hover, implementors)
  BY <1>14, <1>15, <1>16, <1>17, <1>18, <1>19, Zenon DEF AnswersAgree
<1> QED BY <1>20 DEF found, ranges, references, uses, definitions, hover, implementors

(* What a call hierarchy starts from, of the symbol's declarations. *)
StartOf(sites, position) ==
  LET here == {k \in DOMAIN sites :
                 /\ sites[k].path = Open
                 /\ Within(position, ConvertSpan(Open, sites[k].range, sites[k].encoding))}
      first == CHOOSE k \in here : \A j \in here : k <= j
      chosen == sites[IF here = {} THEN 1 ELSE first]
  IN  IF sites = <<>> THEN None
      ELSE IF chosen.symbol \notin Callables THEN None
      ELSE SiteOf(chosen)

(* The declaration the cursor is on, and no other, starts a call hierarchy. *)
LEMMA HierarchyStartsHere ==
  ASSUME NEW i, NEW cursor, OnText(i, cursor), NEW def \in RangeOf(index.definitions),
         NEW found, found = SymbolUnderCursor(cursor),
         def.symbol = found, found \in Callables, def.path = Open,
         {o.range : o \in Hits(i, found)} = {def.range}
  PROVE  PrepareCallHierarchy(cursor) = SiteOf(def)
<1> DEFINE sites == DefinitionsOf(index, found)
           here == {k \in DOMAIN sites :
                      /\ sites[k].path = Open
                      /\ Within(cursor, ConvertSpan(Open, sites[k].range, sites[k].encoding))}
           first == CHOOSE k \in here : \A j \in here : k <= j
<1>1. /\ NavInv /\ Open \in Paths /\ SitesHold(index, Seen) /\ OccurrencesHold(index, Seen)
      /\ \A seen \in Kept : seen.path = Open => seen.encoding = "Utf16"
  BY OpenAssumption DEF OnText, NavInv, Holds, Aligned
<1>2. PrepareCallHierarchy(cursor)
        = IF sites = <<>> THEN None
          ELSE IF sites[IF here = {} THEN 1 ELSE first].symbol \notin Callables THEN None
          ELSE SiteOf(sites[IF here = {} THEN 1 ELSE first])
  <2>1. PrepareCallHierarchy(cursor) = StartOf(DefinitionsOf(index, SymbolUnderCursor(cursor)), cursor)
    BY Zenon DEF PrepareCallHierarchy, StartOf
  <2>2. PrepareCallHierarchy(cursor) = StartOf(sites, cursor)
    BY <2>1
  <2> HIDE DEF sites
  <2> QED BY <2>2, Zenon DEF StartOf
<1>3. /\ sites \in Seq(Declarations)
      /\ RangeOf(sites) = {d \in RangeOf(index.definitions) : d.symbol = found}
  BY <1>1, SitesOfSymbol
<1>4. PICK at : IsInside(text, i, "Utf16", at)
  <2>1. TextIsReady /\ i \in 1 .. Len(text) /\ text[i] # Newline
        /\ IsInside(text, i, encoding, cursor)
    BY OnTextIsReady DEF OnText
  <2> QED BY <2>1, UnderCursor
<1>5. CoveringAt(i) = {o \in RangeOf(index.occurrences[Open]) :
                         Within(cursor, ConvertSpan(Open, o.range, "Utf16"))}
  BY <1>4, CoveringIs
<1> HIDE DEF sites
<1>6. \A k \in DOMAIN sites : sites[k] \in RangeOf(sites)
  BY DEF RangeOf
<1>7. ASSUME NEW d \in RangeOf(sites), d.path = Open PROVE d.encoding = "Utf16"
  <2>1. d \in RangeOf(index.definitions)
    BY <1>3
  <2>2. PICK seen \in KeptOf(Seen) : seen.path = d.path /\ seen.encoding = d.encoding
    BY <1>1, <2>1 DEF SitesHold, EncodingSeen
  <2> QED BY <1>1, <1>7, <2>2 DEF Kept
<1>8. ASSUME NEW d \in RangeOf(sites), d.path = Open,
             Within(cursor, ConvertSpan(Open, d.range, "Utf16"))
      PROVE  d.range = def.range
  <2>1. d \in RangeOf(index.definitions) /\ d.symbol = found
    BY <1>3
  <2>2. SiteOf(d) \in SitesIn(Seen)
    BY <1>1, <2>1 DEF SitesHold
  <2>3. PICK k \in KeptOf(Seen) :
          /\ k.row.symbol = d.symbol /\ k.path = d.path /\ k.row.range = d.range
    BY <2>2 DEF SitesIn, SiteOf
  <2>4. [range |-> d.range, symbol |-> found] \in OccurrencesIn(Seen, Open)
    BY <1>8, <2>1, <2>3 DEF OccurrencesIn
  <2>5. PICK o \in RangeOf(index.occurrences[Open]) :
          o.range = d.range /\ index.names[o.symbol] = found
    <3>1. [range |-> d.range, symbol |-> found]
            \in {[range |-> o.range, symbol |-> index.names[o.symbol]] :
                   o \in RangeOf(index.occurrences[Open])}
      BY <1>1, <2>4 DEF OccurrencesHold
    <3> QED BY <3>1
  <2>6. o \in Hits(i, found)
    BY <1>5, <1>8, <2>5 DEF Hits
  <2> QED BY <2>5, <2>6
<1>9. PICK j \in DOMAIN sites : sites[j] = def
  BY <1>3 DEF RangeOf
<1>10. j \in here
  <2>1. PICK o \in Hits(i, found) : o.range = def.range
    OBVIOUS
  <2>2. Within(cursor, ConvertSpan(Open, def.range, "Utf16"))
    BY <1>5, <2>1 DEF Hits
  <2>3. def.encoding = "Utf16"
    BY <1>6, <1>7, <1>9
  <2> QED BY <1>9, <2>2, <2>3
<1>11. first \in here
  <2>1. here \subseteq Nat /\ here # {}
    BY <1>3, <1>10
  <2>2. \E k \in here : \A l \in here : k <= l
    <3> HIDE DEF here
    <3> QED BY <2>1, LeastOf
  <2> HIDE DEF here
  <2> QED BY <2>2, Zenon
<1> HIDE DEF first
<1>12. SiteOf(sites[first]) = SiteOf(def)
  <2> DEFINE d == sites[first]
  <2>1. d \in RangeOf(sites) /\ d.path = Open
        /\ Within(cursor, ConvertSpan(Open, d.range, d.encoding))
    BY <1>6, <1>11
  <2> HIDE DEF d
  <2>2. d.encoding = "Utf16"
    BY <1>7, <2>1
  <2>3. d.range = def.range
    BY <1>8, <2>1, <2>2
  <2>4. d.symbol = found
    BY <1>3, <2>1
  <2>5. SiteOf(d) = SiteOf(def)
    BY <2>1, <2>3, <2>4 DEF SiteOf
  <2> QED BY <2>5 DEF d
<1>13. sites # <<>> /\ sites[first].symbol = found
  <2>1. sites # <<>>
    BY <1>9
  <2>2. first \in DOMAIN sites
    BY <1>11
  <2> QED BY <1>3, <1>6, <2>1, <2>2
<1> QED BY <1>2, <1>10, <1>12, <1>13

(* However shards were added and edits made, a cursor anywhere on a character, in *)
(* the encoding that the client counts in, finds the narrowest symbol there; the  *)
(* range sent back has the cursor in it; references, definition, hover and        *)
(* implementations speak of that symbol; and a call hierarchy starts from the     *)
(* declaration the cursor is on.                                                  *)
THEOREM CursorIsRoundTrip == Spec => []CursorRoundTrip
<1>1. NavInv /\ TextInv => CursorRoundTrip
  <2> SUFFICES ASSUME NavInv, TextInv,
                      NEW i \in {i \in DOMAIN text : text[i] # Newline}, NEW cursor \in CursorsOn(i),
                      Aligned(cursor.line)
               PROVE  LET covering == CoveringAt(i)
                          found == SymbolUnderCursor(cursor)
                          narrowest == {o \in covering :
                                          \A other \in covering : ~Narrower(other.range, o.range)}
                          hits == {o \in covering : index.names[o.symbol] = found}
                      IN  /\ covering = {} <=> found = None
                          /\ covering # {} => found \in {index.names[o.symbol] : o \in narrowest}
                          /\ \A o \in covering : Within(cursor, ConvertSpan(Open, o.range, "Utf16"))
                          /\ covering # {} =>
                               AnswersAgree(found, {o.range : o \in hits},
                                            FindReferences(cursor, TRUE),
                                            FindReferences(cursor, FALSE),
                                            GotoDefinition(cursor), Hover(cursor),
                                            GotoImplementation(cursor))
                          /\ \A def \in RangeOf(index.definitions) :
                               /\ def.symbol = found /\ found \in Callables /\ def.path = Open
                               /\ {o.range : o \in hits} = {def.range}
                               => PrepareCallHierarchy(cursor) = SiteOf(def)
    BY Zenon DEF CursorRoundTrip
  <2> DEFINE found == SymbolUnderCursor(cursor)
             covering == CoveringAt(i)
             hits == {o \in covering : index.names[o.symbol] = found}
  <2>1. OnText(i, cursor)
    BY DEF OnText
  <2>2. covering = {} <=> found = None
    BY <2>1, FoundSymbol
  <2>3. covering # {} => found \in {index.names[o.symbol] : o \in Narrowest(i)}
    BY <2>1, FoundIs
  <2>4. \A o \in covering : Within(cursor, ConvertSpan(Open, o.range, "Utf16"))
    <3>1. PICK at : IsInside(text, i, "Utf16", at)
      <4>1. TextIsReady /\ i \in 1 .. Len(text) /\ text[i] # Newline
            /\ IsInside(text, i, encoding, cursor)
        BY <2>1, OnTextIsReady
      <4> QED BY <4>1, UnderCursor
    <3>2. covering = {o \in RangeOf(index.occurrences[Open]) :
                        Within(cursor, ConvertSpan(Open, o.range, "Utf16"))}
      BY <2>1, <3>1, CoveringIs
    <3> HIDE DEF covering
    <3> QED BY <3>2
  <2>5. hits = Hits(i, found)
    BY Zenon DEF Hits
  <2>6. covering # {} =>
          AnswersAgree(found, {o.range : o \in hits},
                       FindReferences(cursor, TRUE), FindReferences(cursor, FALSE),
                       GotoDefinition(cursor), Hover(cursor), GotoImplementation(cursor))
    <3> HIDE DEF hits
    <3> QED BY <2>1, <2>5, AnswersFollow
  <2>7. ASSUME NEW def \in RangeOf(index.definitions),
               def.symbol = found, found \in Callables, def.path = Open,
               {o.range : o \in hits} = {def.range}
        PROVE  PrepareCallHierarchy(cursor) = SiteOf(def)
    <3> HIDE DEF hits, found
    <3>1. {o.range : o \in Hits(i, found)} = {def.range}
      BY <2>5, <2>7
    <3>2. found = SymbolUnderCursor(cursor)
      BY DEF found
    <3> QED BY <2>1, <2>7, <3>1, <3>2, HierarchyStartsHere
  <2>8. \A def \in RangeOf(index.definitions) :
          /\ def.symbol = found /\ found \in Callables /\ def.path = Open
          /\ {o.range : o \in hits} = {def.range}
          => PrepareCallHierarchy(cursor) = SiteOf(def)
    BY <2>7
  <2> QED BY <2>2, <2>3, <2>4, <2>6, <2>8, Zenon DEF Narrowest
<1>2. Init => NavInv /\ TextInv
  BY InitNavInv, InitTextInv
<1>3. NavInv /\ TextInv /\ [Next]_vars => NavInv' /\ TextInv'
  BY StepNavInv, StepTextInv
<1> QED BY <1>1, <1>2, <1>3, PTL DEF Spec

=============================================================================
