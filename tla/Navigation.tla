------------------------------- MODULE Navigation -------------------------------
(***************************************************************************)
(* Questions about a position: documents.rs, line_index.rs, the symbol     *)
(* index and handlers.rs together.  A client edits one open document in    *)
(* the encoding it negotiated, while shards are loaded into an index, the  *)
(* index is written to a snapshot and read back, and shards are added.     *)
(*                                                                         *)
(* When an index may answer about a document at all is DocumentFreshness's *)
(* subject; here it is what the answer is.                                 *)
(***************************************************************************)
EXTENDS SymbolIndex

LOCAL INSTANCE FiniteSetsExt

CONSTANTS
  Open,       (* the path of the open document, the one with a text        *)
  Shards,     (* what a shard may hold: documents of rows                  *)
  Inserts,    (* the texts an edit may put in                              *)
  Batched,    (* and the ones of a batch of two                            *)
  MaxText,    (* bound on the characters                                   *)
  MaxBatched, (* the same where a batch of two starts                      *)
  Queries,    (* what is searched for                                      *)
  Lives,      (* what the open document's text may declare                 *)
  SearchLimit, ReferenceLimit, (* SEARCH_LIMIT and REFERENCE_LIMIT         *)
  CallLimit,  (* CALL_HIERARCHY_LIMIT                                      *)
  SameDir,    (* the paths beside a path, in its directory                 *)
  MaxShards,  (* bound on the shards                                       *)
  MaxSize     (* bound on the characters and the shards together           *)

Rows(shard) ==
  UNION {{[path |-> shard[d].path, encoding |-> shard[d].encoding, row |-> shard[d].rows[r]] :
            r \in DOMAIN shard[d].rows} : d \in DOMAIN shard}

(* What an indexer says: a range does not end before it begins, and a row
   without one is a row whose range cannot be read. *)
Ranges ==
  {range \in [startLine : Nat, startCol : Nat, endLine : Nat, endCol : Nat] :
     AtOrBefore(range.startLine, range.startCol, range.endLine, range.endCol)}

RowSet ==
  [symbol : Symbols, range : Ranges \union {None}, definition : BOOLEAN, import : BOOLEAN,
   enclosing : Ranges \union {None}, described : BOOLEAN, implements : SUBSET Symbols]

Documents == [path : Paths, encoding : Encodings, rows : Seq(RowSet)]

Declarations ==
  [symbol : Symbols, path : Paths, range : Ranges, encoding : Encodings,
   enclosing : Ranges \union {None}, described : BOOLEAN, implements : SUBSET Symbols]

Sites == [symbol : Symbols, path : Paths, range : Ranges]

ASSUME InputAssumption ==
  /\ Shards \subseteq Seq(Documents)
  /\ None \notin Ranges \union Declarations \union Symbols \union Sites
  /\ Inserts \union Batched \subseteq Seq(Chars)

(* No shard calls a place the declaration of a symbol that another calls a use
   of it, and two declarations of one place say the same of it. *)
ASSUME ShardAssumption ==
  \A a, b \in UNION {Rows(shard) : shard \in Shards} :
    (a.path = b.path /\ a.row.symbol = b.row.symbol /\ a.row.range = b.row.range)
      => /\ a.row.definition = b.row.definition
         /\ a.row.enclosing = b.row.enclosing
         /\ a.row.described = b.row.described
         /\ a.row.implements = b.row.implements

ASSUME OpenAssumption == Open \in Paths

(* Names, and the strings that rank what is found, compare as numbers do. *)
ASSUME SearchAssumption ==
  /\ ShortName \in [Symbols -> Seq(Nat)] /\ Queries \subseteq Seq(Nat)
  /\ Order \in [Paths \union Symbols -> Nat]
  /\ Lives \subseteq Seq(Declarations)
  /\ SearchLimit \in Nat /\ ReferenceLimit \in Nat \ {0} /\ CallLimit \in Nat \ {0}

(* The texts are so short that no column is near the largest one: what is
   added to a column while it is converted does not wrap. *)
ASSUME ColumnAssumption ==
  /\ MaxText \in Nat /\ MaxBatched \in Nat /\ MaxBatched <= MaxText
  /\ \A inserted \in Inserts \union Batched : Len(inserted) <= MaxText
  /\ 16 * MaxText < MaxU32

VARIABLES
  encoding, (* what the client's columns count                             *)
  text,     (* the open document as the server has it                      *)
  intended, (* the same as the client has it                               *)
  index,    (* the index                                                   *)
  phase,    (* "loading" until the cold load has seen its last shard       *)
  loaded    (* the shards so far, for the properties                       *)

vars == <<encoding, text, intended, index, phase, loaded>>

IsIndex(ix) ==
  /\ \A s \in Symbols : \A i \in DOMAIN ix.references[s] :
       ix.references[s][i].path \in DOMAIN ix.paths
  /\ \A p \in Paths : \A i \in DOMAIN ix.occurrences[p] :
       ix.occurrences[p][i].symbol \in DOMAIN ix.names
  /\ \A p \in DOMAIN ix.pathIds : ix.pathIds[p] \in DOMAIN ix.paths
  /\ RangeOf(ix.paths) \subseteq Paths
  /\ RangeOf(ix.names) \subseteq Symbols \ Locals

Init ==
  /\ encoding \in Encodings
  /\ text = <<>>
  /\ intended = <<>>
  /\ index = EmptyIndex
  /\ phase = "loading"
  /\ loaded = <<>>

-----------------------------------------------------------------------------
(* Edits. *)

Spliced(t, from, to, inserted) ==
  SubSeq(t, 1, from) \o inserted \o SubSeq(t, to + 1, Len(t))

(* `replace_range` panics at an offset inside a character, and the
   notification is then dropped. *)
Replaced(t, start, end, inserted) ==
  LET byte == [i \in 0 .. Len(t) |-> Scan(t)[i].len]
      Boundaries == {byte[i] : i \in 0 .. Len(t)}
      At(offset) == CHOOSE i \in 0 .. Len(t) : byte[i] = offset
  IN  IF {start, end} \subseteq Boundaries
      THEN Spliced(t, At(start), At(end), inserted)
      ELSE t

(* `apply_change`: a range on a line that is not there, or one that is
   inverted, changes nothing. *)
ApplyChange(t, change) ==
  IF change.range = None THEN change.text
  ELSE LET table == TableOf(t)
           start == Offset(table, change.range.start, encoding)
           end == Offset(table, change.range.end, encoding)
       IN  IF start = None \/ end = None THEN t
           ELSE IF start > end THEN t
           ELSE Replaced(t, start, end, change.text)

(* The same edit as LSP defines it, on characters. *)
Edited(t, change) ==
  IF change.range = None THEN change.text
  ELSE LET from == BoundaryOf(t, change.range.start, encoding)
           to == BoundaryOf(t, change.range.end, encoding)
       IN  IF from = None \/ to = None THEN t
           ELSE IF from > to THEN t
           ELSE Spliced(t, from, to, change.text)

(* `apply_changes`: each change is to the text the one before it left. *)
ApplyChanges(t, changes) ==
  LET after[k \in 0 .. Len(changes)] ==
        IF k = 0 THEN t ELSE ApplyChange(after[k - 1], changes[k])
  IN  after[Len(changes)]

(* Positions on every line and one more, up to a column past its end. *)
Positions(t) ==
  LET ends == {PositionOf(t, i, encoding) : i \in 0 .. Len(t)}
      widest == CHOOSE c \in {p.character : p \in ends} : \A p \in ends : p.character <= c
  IN  [line : {p.line : p \in ends} \union {1 + Cardinality(Before(t, Len(t)))},
       character : 0 .. widest + 1]

Changes(t, inserts) ==
  [range : [start : Positions(t), end : Positions(t)] \union {None}, text : inserts]

DidChange(changes) ==
  /\ text' = ApplyChanges(text, changes)
  /\ intended' = Edited(intended, changes[1])
  /\ UNCHANGED <<encoding, index, phase, loaded>>

DidChangeTwice(changes) ==
  /\ text' = ApplyChanges(text, changes)
  /\ intended' = Edited(Edited(intended, changes[1]), changes[2])
  /\ UNCHANGED <<encoding, index, phase, loaded>>

-----------------------------------------------------------------------------
(* The index. *)

(* One shard of a cold load. *)
LoadShard(shard) ==
  /\ phase = "loading"
  /\ index' = AddShard(index, shard, FALSE)
  /\ loaded' = Append(loaded, shard)
  /\ UNCHANGED <<encoding, text, intended, phase>>

(* The end of `load_shards`. *)
FinishLoad ==
  /\ phase = "loading"
  /\ index' = DeduplicateReferences(index, Symbols)
  /\ phase' = "ready"
  /\ UNCHANGED <<encoding, text, intended, loaded>>

(* `add_shard` *)
AppendShard(shard) ==
  /\ phase = "ready"
  /\ index' = AddShard(index, shard, TRUE)
  /\ loaded' = Append(loaded, shard)
  /\ UNCHANGED <<encoding, text, intended, phase>>

(* A snapshot is written, and read by the next server. *)
ReadSnapshot ==
  /\ phase = "ready"
  /\ index' = Reread(index)
  /\ UNCHANGED <<encoding, text, intended, phase, loaded>>

(* The document and the index are apart, so edits come first. *)
Next ==
  \/ /\ loaded = <<>>
     /\ \E change \in Changes(intended, Inserts) : DidChange(<<change>>)
     /\ Len(intended') <= MaxText
  \/ /\ loaded = <<>>
     /\ Len(intended) <= MaxBatched
     /\ \E first \in Changes(intended, Batched) :
          \E second \in Changes(Edited(intended, first), Batched) :
            DidChangeTwice(<<first, second>>)
     /\ Len(intended') <= MaxText
  \/ /\ Len(intended) + Len(loaded) < MaxSize
     /\ Len(loaded) < MaxShards
     /\ \E shard \in Shards : LoadShard(shard) \/ AppendShard(shard)
  \/ FinishLoad
  \/ ReadSnapshot

Spec == Init /\ [][Next]_vars

-----------------------------------------------------------------------------
(* Handlers. *)

(* `symbol_under_cursor`: the index has UTF-16 columns. *)
SymbolUnderCursor(position) ==
  LET table == TableOf(text)
      offset == Offset(table, position, encoding)
  IN  IF encoding = "Utf16" THEN SymbolAt(index, Open, position.line, position.character)
      ELSE IF offset = None THEN None
      ELSE SymbolAt(index, Open, position.line, Position(table, offset, "Utf16").character)

(* A file that is not open is one that cannot be read here. *)
ConvertSpan(path, range, from) ==
  LET table == TableOf(text)
      Converted(line, col) ==
        LET raw == [line |-> line, character |-> col]
            offset == Offset(table, raw, from)
        IN  IF from = encoding \/ path # Open \/ offset = None THEN raw
            ELSE Position(table, offset, encoding)
  IN  [start |-> Converted(range.startLine, range.startCol),
       end |-> Converted(range.endLine, range.endCol)]

Within(position, span) ==
  /\ AtOrBefore(span.start.line, span.start.character, position.line, position.character)
  /\ AtOrBefore(position.line, position.character + 1, span.end.line, span.end.character)

ToLocation(site) ==
  [path |-> site.path, span |-> ConvertSpan(site.path, site.range, site.encoding)]

ToLocations(sites) == [k \in DOMAIN sites |-> ToLocation(sites[k])]

GotoDefinition(position) ==
  ToLocations(DefinitionsOf(index, SymbolUnderCursor(position)))

GotoImplementation(position) ==
  LET symbol == SymbolUnderCursor(position)
  IN  IF symbol = None THEN <<>> ELSE ToLocations(Implementors(index, symbol))

(* The first declaration, unless there is nothing to say of it. *)
Hover(position) ==
  LET sites == DefinitionsOf(index, SymbolUnderCursor(position))
  IN  IF sites = <<>> THEN None
      ELSE IF ~sites[1].described /\ sites[1].implements = {} THEN None
      ELSE SiteOf(sites[1])

Proximity(path) == IF path = Open THEN 0 ELSE IF path \in SameDir[Open] THEN 1 ELSE 2

(* The same file first, then the same directory, and no more than the limit. *)
FindReferences(position, includeDeclaration) ==
  LET symbol == SymbolUnderCursor(position)
      sites == DefinitionsOf(index, symbol)
      Row(hit) == [path |-> hit.path, range |-> hit.range, encoding |-> hit.encoding]
      all == (IF includeDeclaration THEN sites ELSE <<>>) \o ReferencesTo(index, symbol)
      hits == [k \in DOMAIN all |-> Row(all[k])]
      Nearness(hit) ==
        <<Proximity(hit.path), Order[hit.path], hit.range.startLine, hit.range.startCol>>
      sorted == SortedBy(hits, [hit \in RangeOf(hits) |-> Nearness(hit)])
  IN  IF symbol = None THEN None
      ELSE [locations |-> ToLocations(SubSeq(sorted, 1, Min({Len(all), ReferenceLimit}))),
            total |-> Len(all)]

(* `workspace_symbol_with`: what the open document declares goes first, and
   the index is not asked about the paths the overlay covers. *)
WorkspaceSymbolWith(query, live, shadowed, names) ==
  LET liveMatches == Selected(live, {def \in RangeOf(live) :
                       query # <<>> /\ Matches(ShortName[def.symbol], query)})
      indexed == SearchLimited(index, query, Max({0, SearchLimit - Len(liveMatches)}),
                               shadowed, names)
      symbols == liveMatches \o indexed.results
  IN  [symbols |-> SubSeq(symbols, 1, Min({Len(symbols), SearchLimit})),
       total |-> Len(liveMatches) + indexed.total]

(* `prepare_call_hierarchy`: the site under the cursor, or else the first. *)
PrepareCallHierarchy(position) ==
  LET sites == DefinitionsOf(index, SymbolUnderCursor(position))
      here == {i \in DOMAIN sites :
                 /\ sites[i].path = Open
                 /\ Within(position, ConvertSpan(Open, sites[i].range, sites[i].encoding))}
      first == CHOOSE i \in here : \A j \in here : i <= j
      chosen == sites[IF here = {} THEN 1 ELSE first]
  IN  IF sites = <<>> THEN None
      ELSE IF chosen.symbol \notin Callables THEN None
      ELSE SiteOf(chosen)

(* No more than CALL_HIERARCHY_LIMIT, the ones found first. *)
CallLimited(s) == SubSeq(s, 1, Min({Len(s), CallLimit}))

(* `incoming_calls`: the callables around the references, once each. *)
IncomingCalls(target) ==
  LET references == ReferencesTo(index, target.symbol)
      Around(use) == EnclosingCallable(index, use.path, use.range)
      callers == [i \in DOMAIN references |->
                    IF Around(references[i]) = None THEN None ELSE SiteOf(Around(references[i]))]
  IN  CallLimited(Deduplicated(Selected(callers, RangeOf(callers) \ {None})))

(* `outgoing_calls`: the callables named in the body and defined somewhere. *)
OutgoingCalls(owner) ==
  IF owner.enclosing = None THEN <<>>
  ELSE CallLimited(Selected(WithinCallable(index, owner),
                            {s \in Callables : Defined(index, s)}))

(* Mutant: only the innermost declaration is closed. *)
OutlineMutant(defs) ==
  LET walk[i \in 0 .. Len(defs)] ==
        IF i = 0 THEN [stack |-> <<>>, parents |-> <<>>]
        ELSE LET stack == walk[i - 1].stack
                 top == Len(stack)
                 kept == IF top = 0 THEN 0
                         ELSE IF Encloses(defs[stack[top]].enclosing, defs[i].range)
                         THEN top ELSE top - 1
                 opened == IF defs[i].enclosing = None THEN <<>> ELSE <<i>>
             IN  [stack |-> SubSeq(stack, 1, kept) \o opened,
                  parents |-> Append(walk[i - 1].parents,
                                     IF kept = 0 THEN 0 ELSE stack[kept])]
  IN  walk[Len(defs)].parents

(* The parents that `document_symbols_from` gives, 0 for a root: a stack of
   the declarations that are still open. *)
Outline(defs) ==
  LET walk[i \in 0 .. Len(defs)] ==
        IF i = 0 THEN [stack |-> <<>>, parents |-> <<>>]
        ELSE LET stack == walk[i - 1].stack
                 holds == {k \in DOMAIN stack :
                             Encloses(defs[stack[k]].enclosing, defs[i].range)}
                 kept == CHOOSE k \in {0} \union holds : \A j \in holds : j <= k
                 opened == IF defs[i].enclosing = None THEN <<>> ELSE <<i>>
             IN  [stack |-> SubSeq(stack, 1, kept) \o opened,
                  parents |-> Append(walk[i - 1].parents,
                                     IF kept = 0 THEN 0 ELSE stack[kept])]
  IN  walk[Len(defs)].parents

-----------------------------------------------------------------------------
(* Properties. *)

(* The texts are texts, and every id in the index is one of a path or a
   symbol it has.  `validate_snapshot` looks only at the path ids of the
   references; the others rest on the insertions alone. *)
TypeOK ==
  /\ encoding \in Encodings
  /\ text \in Seq(Chars)
  /\ intended \in Seq(Chars)
  /\ phase \in {"loading", "ready"}
  /\ loaded \in Seq(Shards)
  /\ IsIndex(index)

(* After any edits, in either encoding, the server has the text that LSP
   gives them: ranges are read against what the change before left, a column
   past the end of its line is the end, and one inside a character its start.
   Every later answer about the document depends on it. *)
ServerHasIntendedText == text = intended

Seen == UNION {Rows(loaded[k]) : k \in DOMAIN loaded}

KeptOf(rows) == {seen \in rows : seen.row.range # None /\ seen.row.symbol \notin Locals}

Kept == KeptOf(Seen)

Once(s) == Cardinality(RangeOf(s)) = Len(s)

(* Targets overlap, so shards repeat rows: after a cold load, and after more
   shards with or without a snapshot between, the index has every declaration
   site, use and occurrence of its shards once, and nothing else. *)
IndexIsUnionOfShards ==
  phase = "ready" =>
    /\ Once(index.definitions)
    /\ {SiteOf(def) : def \in RangeOf(index.definitions)}
         = {[symbol |-> k.row.symbol, path |-> k.path, range |-> k.row.range] :
              k \in {seen \in Kept : seen.row.definition}}
    /\ \A s \in Symbols :
         /\ Once(ReferencesTo(index, s))
         /\ RangeOf(ReferencesTo(index, s))
              = {[path |-> k.path, range |-> k.row.range,
                  encoding |-> k.encoding, import |-> k.row.import] :
                   k \in {seen \in Kept : seen.row.symbol = s /\ ~seen.row.definition}}
    /\ \A p \in Paths :
         /\ Once(index.occurrences[p])
         /\ {[range |-> o.range, symbol |-> index.names[o.symbol]] :
                o \in RangeOf(index.occurrences[p])}
              = {[range |-> k.row.range, symbol |-> k.row.symbol] :
                   k \in {seen \in Kept : seen.path = p}}

(* Where the client may have its cursor on a character: its first column, and
   the ones inside it. *)
CursorsOn(i) ==
  LET start == PositionOf(text, i - 1, encoding)
  IN  {[start EXCEPT !.character = @ + k] : k \in 0 .. Size(text[i], encoding) - 1}

CoveringAt(i) ==
  LET at == PositionOf(text, i - 1, "Utf16")
  IN  {o \in RangeOf(index.occurrences[Open]) : Covers(o.range, at.line, at.character)}

(* The document's rows are in UTF-16, and the ones on a line begin and end
   where characters of the text do, as they do when the shards were made from
   this text. *)
Aligned(line) ==
  /\ \A seen \in Kept : seen.path = Open => seen.encoding = "Utf16"
  /\ \A o \in RangeOf(index.occurrences[Open]) :
       o.range.startLine <= line /\ line <= o.range.endLine =>
         {[line |-> o.range.startLine, character |-> o.range.startCol],
          [line |-> o.range.endLine, character |-> o.range.endCol]}
           \subseteq {PositionOf(text, i, "Utf16") : i \in 0 .. Len(text)}

(* A range inside another: on one line, or on fewer lines than the other.  Of two
   over the same several lines the code may take the wider one. *)
Narrower(inner, outer) ==
  /\ inner # outer
  /\ Encloses(outer, inner)
  /\ \/ outer.startLine = outer.endLine
     \/ inner.endLine - inner.startLine < outer.endLine - outer.startLine

HereOf(range) == ToLocation([path |-> Open, range |-> range, encoding |-> "Utf16"])

(* What is found from one cursor agrees: the use or declaration it is on is    *)
(* among the references, the nearest are in its own file, the declarations are *)
(* the ones definition goes to and hover speaks of, and each implementor it    *)
(* goes to is a declaration of a symbol that implements the found one.         *)
AnswersAgree(found, ranges, references, uses, definitions, hover, implementors) ==
  LET whole == references.total <= ReferenceLimit
      listed == RangeOf(references.locations)
  IN  /\ whole => \A range \in ranges : HereOf(range) \in listed
      /\ references.locations[1].path = Open
      /\ references.total = uses.total + Len(definitions)
      /\ whole => listed = RangeOf(uses.locations) \union RangeOf(definitions)
      /\ hover # None => hover.symbol = found
      /\ RangeOf(implementors)
           = {ToLocation(def) : def \in {d \in RangeOf(index.definitions) : found \in d.implements}}

(* A cursor anywhere on a character, in the client's encoding, finds the
   narrowest occurrence that has that character in the indexer's, or nothing
   if there is none; the range of such an occurrence, sent back to the client,
   has the cursor in it; definition, references and hover agree about it; and a
   call hierarchy asked for on a declaration that no other row of the symbol
   overlaps starts from that declaration, not from another one of the symbol. *)
CursorRoundTrip ==
  \A i \in {i \in DOMAIN text : text[i] # Newline} : \A cursor \in CursorsOn(i) :
    LET covering == CoveringAt(i)
        found == SymbolUnderCursor(cursor)
        narrowest == {o \in covering : \A other \in covering : ~Narrower(other.range, o.range)}
        hits == {o \in covering : index.names[o.symbol] = found}
    IN  Aligned(cursor.line) =>
          /\ covering = {} <=> found = None
          /\ covering # {} => found \in {index.names[o.symbol] : o \in narrowest}
          /\ \A o \in covering : Within(cursor, ConvertSpan(Open, o.range, "Utf16"))
          /\ covering # {} =>
               AnswersAgree(found, {o.range : o \in hits},
                            FindReferences(cursor, TRUE), FindReferences(cursor, FALSE),
                            GotoDefinition(cursor), Hover(cursor), GotoImplementation(cursor))
          /\ \A def \in RangeOf(index.definitions) :
               /\ def.symbol = found /\ found \in Callables /\ def.path = Open
               /\ {o.range : o \in hits} = {def.range}
               => PrepareCallHierarchy(cursor) = SiteOf(def)

(* What the name table may be scanned in. *)
Orders(names) ==
  {order \in [1 .. Cardinality(names) -> names] : RangeOf(order) = names}

(* Whatever the order of the name table, a search gives as many results as     *)
(* there are up to its limit and says how many there are: what the open        *)
(* document declares first, then the best of the index, none left out that is  *)
(* better than one kept, and none from a file the overlay speaks for.          *)
SearchFindsBest ==
  \A query \in Queries : \A live \in Lives :
    LET shadowed == IF live = <<>> THEN {} ELSE {Open}
        Hits(defs) == {d \in defs : query # <<>> /\ Matches(ShortName[d.symbol], query)}
        liveHits == Selected(live, Hits(RangeOf(live)))
        indexed == {d \in Hits(RangeOf(index.definitions)) : d.path \notin shadowed}
        Worth(def) == RankedDefinition(def, query)
        names == {ShortName[d.symbol] : d \in Hits(RangeOf(index.definitions))}
    IN  \A order \in Orders(names) :
          LET found == WorkspaceSymbolWith(query, live, shadowed, order)
              first == Min({Len(liveHits), SearchLimit})
              rest == SubSeq(found.symbols, first + 1, Len(found.symbols))
          IN  /\ found.total = Len(liveHits) + Cardinality(indexed)
              /\ Len(found.symbols) = Min({found.total, SearchLimit})
              /\ SubSeq(found.symbols, 1, first) = SubSeq(liveHits, 1, first)
              /\ RangeOf(rest) \subseteq indexed
              /\ \A i, j \in DOMAIN rest : i < j => ~Less(Worth(rest[j]), Worth(rest[i]))
              /\ \A kept \in RangeOf(rest) : \A other \in indexed \ RangeOf(rest) :
                   ~Less(Worth(other), Worth(kept))

CallableSites == {def \in RangeOf(index.definitions) : def.symbol \in Callables}

(* Who calls this and what this calls are one relation: what one direction
   says the other says too, unless that has as many results as a response
   carries.  However callables nest and in whatever order the shards came. *)
CallsAreDual ==
  \A target \in CallableSites :
    \A owner \in {def \in CallableSites : def.enclosing # None} :
      LET incoming == IncomingCalls(target)
          outgoing == OutgoingCalls(owner)
          isCaller == SiteOf(owner) \in RangeOf(incoming)
          isCalled == target.symbol \in RangeOf(outgoing)
      IN  /\ isCaller => isCalled \/ Len(outgoing) = CallLimit
          /\ isCalled => isCaller \/ Len(incoming) = CallLimit

(* However the spans of declarations overlap, where names are apart and each
   is in its own declaration's span, the outline hangs a declaration under the
   innermost of the earlier ones whose span its name is in. *)
OutlineNests ==
  \A p \in Paths :
    LET defs == DefinitionsIn(index, p)
        parents == Outline(defs)
        Apart(a, b) == AtOrBefore(a.endLine, a.endCol, b.startLine, b.startCol)
                       \/ AtOrBefore(b.endLine, b.endCol, a.startLine, a.startCol)
        plain == \A i \in DOMAIN defs :
                   /\ ~Apart(defs[i].range, defs[i].range)
                   /\ defs[i].enclosing # None => Encloses(defs[i].enclosing, defs[i].range)
                   /\ \A j \in DOMAIN defs \ {i} : Apart(defs[i].range, defs[j].range)
        holders(i) == {j \in 1 .. i - 1 : /\ defs[j].enclosing # None
                                          /\ Encloses(defs[j].enclosing, defs[i].range)}
    IN  plain => \A i \in DOMAIN defs :
          /\ parents[i] \in holders(i) \union {0}
          /\ \A j \in holders(i) :
               parents[i] # 0 /\ Encloses(defs[j].enclosing, defs[parents[i]].range)

=============================================================================
