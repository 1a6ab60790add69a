------------------------------- MODULE MCNavigation ------------------------------
EXTENDS Navigation, TLC

CONSTANTS
  ch1, ch2, ch4, nl,       (* characters of 1, 2 and 4 bytes, the newline *)
  meth1, meth2, ctor, klass, loc (* two methods, a constructor, a class and a local *)

MCBytes == (ch1 :> 1) @@ (ch2 :> 2) @@ (ch4 :> 4) @@ (nl :> 1)

MCUnits == (ch1 :> 1) @@ (ch2 :> 1) @@ (ch4 :> 2) @@ (nl :> 1)

MCInserts == {<<>>, <<ch1>>, <<ch2>>, <<ch4>>, <<nl>>}

MCBatched == {<<>>, <<ch4>>}

Span(startLine, startCol, endLine, endCol) ==
  [startLine |-> startLine, startCol |-> startCol, endLine |-> endLine, endCol |-> endCol]

Decl(symbol, range, enclosing) ==
  [symbol |-> symbol, range |-> range, definition |-> TRUE, import |-> FALSE,
   enclosing |-> enclosing, described |-> symbol \in {meth1, klass},
   implements |-> IF symbol = meth2 THEN {meth1} ELSE {}]

Use(symbol, range, import) ==
  [symbol |-> symbol, range |-> range, definition |-> FALSE, import |-> import,
   enclosing |-> None, described |-> FALSE, implements |-> {}]

(* meth1 has meth2 inside it; both call meth1, and meth1 calls meth2 behind its
   end.  klass is a wider name around both, and declared below them, where
   meth1 has a second site. *)
MCRows ==
  {Decl(meth1, Span(0, 0, 0, 1), Span(0, 0, 2, 0)),
   Decl(meth2, Span(0, 1, 0, 2), Span(0, 1, 1, 1)),
   Use(meth1, Span(1, 0, 1, 1), FALSE),
   Use(meth1, Span(1, 0, 1, 1), TRUE),
   Use(meth2, Span(1, 1, 1, 2), FALSE),
   Use(klass, Span(0, 0, 0, 2), FALSE),
   Decl(meth1, Span(2, 0, 2, 1), Span(2, 0, 2, 2)),
   Use(meth2, Span(2, 1, 2, 2), FALSE),
   Decl(klass, Span(3, 0, 3, 1), None)}

Doc(path, rows) == [path |-> path, encoding |-> "Utf16", rows |-> rows]

(* The last one has more calls in meth1, and with two of the rows meth2 more
   callers, than a response carries. *)
MCShards ==
  {<<Doc("A", <<row>>)>> : row \in MCRows}
    \union {<<Doc("B", <<Use(meth1, Span(0, 0, 0, 1), FALSE)>>)>>,
            <<Doc("B", <<Decl(meth1, Span(1, 0, 1, 1), None)>>)>>,
            <<Doc("A", <<Use(meth1, Span(1, 0, 1, 1), FALSE),
                         Use(loc, Span(0, 0, 0, 1), FALSE),
                         Use(klass, None, FALSE),
                         Decl(meth1, Span(0, 0, 0, 1), Span(0, 0, 2, 0)),
                         Use(meth2, Span(1, 1, 1, 2), FALSE),
                         Use(ctor, Span(1, 2, 1, 3), FALSE)>>),
              Doc("B", <<Use(meth1, Span(0, 0, 0, 1), FALSE),
                         Decl(meth2, Span(2, 0, 2, 1), Span(2, 0, 3, 0)),
                         Use(meth2, Span(2, 1, 2, 2), FALSE),
                         Decl(ctor, Span(3, 0, 3, 1), None)>>)>>}

(* m, mk and km: exact, a prefix, or inside. *)
MCShortName ==
  (meth1 :> <<1>>) @@ (meth2 :> <<1, 2>>) @@ (ctor :> <<3>>) @@ (klass :> <<2, 1>>)
    @@ (loc :> <<2>>)

MCOrder ==
  ("A" :> 1) @@ ("B" :> 2) @@ (meth1 :> 1) @@ (meth2 :> 2) @@ (klass :> 3) @@ (loc :> 4)
    @@ (ctor :> 5)

MCQueries == {<<>>, <<1>>, <<2>>}

Live(symbol) ==
  [symbol |-> symbol, path |-> "A", range |-> Span(0, 0, 0, 1), encoding |-> "Utf16",
   enclosing |-> None, described |-> FALSE, implements |-> {}]

(* For one query as many as the limit, for the other one less. *)
MCLives == {<<>>, <<Live(loc), Live(meth2)>>}

MCSameDir == [p \in {"A", "B"} |-> {"A", "B"}]

=============================================================================
