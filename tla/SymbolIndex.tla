-------------------------------- MODULE SymbolIndex -------------------------------
(***************************************************************************)
(* The symbol index of symbol-index/src/lib.rs: how shards are added to    *)
(* its tables, and how a file position, a call or an outline is looked up. *)
(*                                                                         *)
(* An index is a record of the tables that are filled row by row.  The     *)
(* maps from a symbol, a path or a name to positions in `definitions` hold *)
(* nothing more and are read off it, in its order.  Lines and columns are  *)
(* those of LineIndex; the indexer counts columns in UTF-16.               *)
(***************************************************************************)
EXTENDS LineIndex, FiniteSets

LOCAL INSTANCE FiniteSetsExt

CONSTANTS
  Symbols,   (* the symbol strings                                         *)
  Locals,    (* the ones that are local to a file                          *)
  Callables, (* the ones of methods and constructors                       *)
  Paths,     (* workspace-relative paths                                   *)
  ShortName, (* a symbol's `short_name`, the letters as numbers            *)
  Order      (* where a path or a symbol is among the others               *)

ASSUME SymbolAssumption == Locals \subseteq Symbols /\ Callables \subseteq Symbols

RangeOf(s) == {s[i] : i \in DOMAIN s}

(* Tuples of numbers, as Rust compares tuples. *)
Less(a, b) ==
  \E k \in DOMAIN a \cap DOMAIN b : a[k] < b[k] /\ \A j \in 1 .. k - 1 : a[j] = b[j]

EmptyIndex ==
  [definitions |-> <<>>,                    (* of symbol, path, range and so on *)
   references |-> [s \in Symbols |-> <<>>], (* with the path by id              *)
   paths |-> <<>>,                          (* `reference_paths`                *)
   pathIds |-> <<>>,                        (* its reverse, not in snapshots    *)
   occurrences |-> [p \in Paths |-> <<>>],  (* with the symbol by id            *)
   names |-> <<>>]                          (* `symbol_names`                   *)

IdIn(s, x) == CHOOSE i \in DOMAIN s : s[i] = x

Interned(s, x) == IF x \in RangeOf(s) THEN s ELSE Append(s, x)

(* x ahead of the first in s that it is to be before. *)
Placed(s, x, key) ==
  LET behind == {j \in DOMAIN s : Less(key[x], key[s[j]])}
      at == IF behind = {} THEN Len(s) + 1 ELSE Min(behind)
  IN  SubSeq(s, 1, at - 1) \o <<x>> \o SubSeq(s, at, Len(s))

(* In the order of their keys and, as `sort_by_key` is stable, in the order
   they came where keys are the same. *)
SortedBy(s, key) ==
  LET sorted[i \in 0 .. Len(s)] ==
        IF i = 0 THEN <<>> ELSE Placed(sorted[i - 1], s[i], key)
  IN  sorted[Len(s)]

(* The first of every row. *)
Deduplicated(s) ==
  LET kept[i \in 0 .. Len(s)] ==
        IF i = 0 THEN <<>>
        ELSE LET before == kept[i - 1]
             IN  IF s[i] \in RangeOf(before) THEN before ELSE Append(before, s[i])
  IN  kept[Len(s)]

(* The elements that are in a set: SelectSeq as a function, which the provers
   can unfold. *)
Selected(s, chosen) ==
  LET kept[i \in 0 .. Len(s)] ==
        IF i = 0 THEN <<>>
        ELSE IF s[i] \in chosen THEN Append(kept[i - 1], s[i]) ELSE kept[i - 1]
  IN  kept[Len(s)]

-----------------------------------------------------------------------------
(* Adding shards. *)

SiteOf(def) == [symbol |-> def.symbol, path |-> def.path, range |-> def.range]

(* `insert`: a site that is known keeps what was first said of it. *)
Insert(index, def) ==
  IF SiteOf(def) \in {SiteOf(known) : known \in RangeOf(index.definitions)}
  THEN index
  ELSE [index EXCEPT !.definitions = Append(@, def)]

(* Mutant: the ids are not rebuilt after a snapshot. *)
PathIdsMutant(index) == index.pathIds

(* The ids by path, rebuilt when the index came from a snapshot. *)
PathIds(index) ==
  IF DOMAIN index.pathIds = {} /\ index.paths # <<>>
  THEN [p \in RangeOf(index.paths) |-> IdIn(index.paths, p)]
  ELSE index.pathIds

(* Mutant: the id is the length after the push. *)
AddReferenceMutant(index, doc, row) ==
  LET ids == PathIds(index)
      fresh == doc.path \notin DOMAIN ids
      paths == IF fresh THEN Append(index.paths, doc.path) ELSE index.paths
      known == [p \in DOMAIN ids \union {doc.path} |->
                  IF p \in DOMAIN ids THEN ids[p] ELSE Len(paths) + 1]
  IN  [index EXCEPT
        !.paths = paths,
        !.pathIds = known,
        !.references[row.symbol] =
          Append(@, [path |-> known[doc.path], range |-> row.range,
                     encoding |-> doc.encoding, import |-> row.import])]

AddReference(index, doc, row) ==
  LET ids == PathIds(index)
      fresh == doc.path \notin DOMAIN ids
      paths == IF fresh THEN Append(index.paths, doc.path) ELSE index.paths
      known == [p \in DOMAIN ids \union {doc.path} |->
                  IF p \in DOMAIN ids THEN ids[p] ELSE Len(paths)]
  IN  [index EXCEPT
        !.paths = paths,
        !.pathIds = known,
        !.references[row.symbol] =
          Append(@, [path |-> known[doc.path], range |-> row.range,
                     encoding |-> doc.encoding, import |-> row.import])]

(* A row with an unreadable range, and a local, are passed over. *)
AddRow(index, doc, row) ==
  IF row.range = None \/ row.symbol \in Locals THEN index
  ELSE LET names == Interned(index.names, row.symbol)
           seen == [index EXCEPT
                     !.names = names,
                     !.occurrences[doc.path] =
                       Append(@, [range |-> row.range, symbol |-> IdIn(names, row.symbol)])]
       IN  IF row.definition
           THEN Insert(seen, [symbol |-> row.symbol, path |-> doc.path, range |-> row.range,
                              encoding |-> doc.encoding, enclosing |-> row.enclosing,
                              described |-> row.described, implements |-> row.implements])
           ELSE AddReference(seen, doc, row)

AtOrBefore(line1, col1, line2, col2) == line1 < line2 \/ (line1 = line2 /\ col1 <= col2)

(* The order of (start line, start column, end line, end column, symbol). *)
SourceKey(o) ==
  <<o.range.startLine, o.range.startCol, o.range.endLine, o.range.endCol, o.symbol>>

AddDocument(index, doc) ==
  LET added[i \in 0 .. Len(doc.rows)] ==
        IF i = 0 THEN index ELSE AddRow(added[i - 1], doc, doc.rows[i])
  IN  [added[Len(doc.rows)] EXCEPT
        !.occurrences[doc.path] =
          Deduplicated(SortedBy(@, [o \in RangeOf(@) |-> SourceKey(o)]))]

DeduplicateReferences(index, symbols) ==
  [index EXCEPT !.references =
     [s \in Symbols |-> IF s \in symbols THEN Deduplicated(@[s]) ELSE @[s]]]

Touched(shard) ==
  UNION {{row.symbol : row \in {r \in RangeOf(doc.rows) : ~r.definition}} : doc \in RangeOf(shard)}

(* `add_shard_with`: a cold load leaves the duplicates to its end. *)
AddShard(index, shard, deduplicate) ==
  LET added[i \in 0 .. Len(shard)] ==
        IF i = 0 THEN index ELSE AddDocument(added[i - 1], shard[i])
  IN  IF deduplicate THEN DeduplicateReferences(added[Len(shard)], Touched(shard))
      ELSE added[Len(shard)]

(* `write_snapshot` and `read_snapshot` *)
Reread(index) == [index EXCEPT !.pathIds = <<>>]

-----------------------------------------------------------------------------
(* Lookups. *)

Encloses(outer, inner) ==
  /\ AtOrBefore(outer.startLine, outer.startCol, inner.startLine, inner.startCol)
  /\ AtOrBefore(inner.endLine, inner.endCol, outer.endLine, outer.endCol)

(* The end is exclusive. *)
Covers(range, line, col) ==
  /\ AtOrBefore(range.startLine, range.startCol, line, col)
  /\ AtOrBefore(line, col + 1, range.endLine, range.endCol)

(* A difference of columns is never negative. *)
SpanLen(range) ==
  (range.endLine - range.startLine) * MaxU32 + Max({0, range.endCol - range.startCol})

(* The first of the candidates with the smallest size. *)
FirstSmallest(candidates, size(_)) ==
  CHOOSE i \in candidates :
    \A j \in candidates : size(i) < size(j) \/ (size(i) = size(j) /\ i <= j)

DefinitionsOf(index, symbol) ==
  Selected(index.definitions, {def \in RangeOf(index.definitions) : def.symbol = symbol})

(* `definition`, of which only whether there is one is told apart. *)
Defined(index, symbol) == \E def \in RangeOf(index.definitions) : def.symbol = symbol

(* `symbol_at`: the scan ends at the first occurrence that starts on a later line. *)
SymbolAt(index, path, line, col) ==
  LET occurrences == index.occurrences[path]
      later == {i \in DOMAIN occurrences : occurrences[i].range.startLine > line}
      scanned == IF later = {} THEN DOMAIN occurrences ELSE 1 .. Min(later) - 1
      covering == {i \in scanned : Covers(occurrences[i].range, line, col)}
  IN  IF covering = {} THEN None
      ELSE index.names[occurrences[FirstSmallest(covering,
             LAMBDA i : SpanLen(occurrences[i].range))].symbol]

(* `enclosing_callable` *)
EnclosingCallable(index, path, range) ==
  LET defs == index.definitions
      around == {i \in DOMAIN defs :
                   /\ defs[i].path = path
                   /\ defs[i].symbol \in Callables
                   /\ defs[i].enclosing # None
                   /\ Encloses(defs[i].enclosing, range)}
  IN  IF around = {} THEN None
      ELSE defs[FirstSmallest(around, LAMBDA i : SpanLen(defs[i].enclosing))]

(* Mutant: the calls of a nested callable are its owner's too. *)
WithinCallableMutant(index, owner) ==
  LET occurrences == index.occurrences[owner.path]
      named == [i \in DOMAIN occurrences |->
                  IF Encloses(owner.enclosing, occurrences[i].range)
                  THEN index.names[occurrences[i].symbol] ELSE None]
  IN  Deduplicated(Selected(named, Symbols))

(* `references_within_callable_site`: the symbols named in the owner's body,
   in the order they first occur. *)
WithinCallable(index, owner) ==
  LET occurrences == index.occurrences[owner.path]
      later == {i \in DOMAIN occurrences :
                  occurrences[i].range.startLine > owner.enclosing.endLine}
      scanned == IF later = {} THEN DOMAIN occurrences ELSE 1 .. Min(later) - 1
      OwnedBy(o) ==
        LET callable == EnclosingCallable(index, owner.path, o.range)
        IN  callable = None \/ SiteOf(callable) = SiteOf(owner)
      Declares(o) ==
        \E def \in RangeOf(index.definitions) :
          SiteOf(def) = [symbol |-> index.names[o.symbol], path |-> owner.path, range |-> o.range]
      inside == {i \in scanned : /\ Encloses(owner.enclosing, occurrences[i].range)
                                 /\ OwnedBy(occurrences[i])
                                 /\ ~Declares(occurrences[i])}
      named == [i \in DOMAIN occurrences |->
                  IF i \in inside THEN index.names[occurrences[i].symbol] ELSE None]
  IN  Deduplicated(Selected(named, Symbols))

(* `references`, with the paths for the ids *)
ReferencesTo(index, symbol) ==
  [i \in DOMAIN index.references[symbol] |->
     [index.references[symbol][i] EXCEPT !.path = index.paths[@]]]

(* The positions in `definitions` of some of them. *)
PositionsOf(index, chosen) == Selected([i \in DOMAIN index.definitions |-> i], chosen)

(* `definitions_in`: source order, and insertion order at one place *)
DefinitionsIn(index, path) ==
  LET defs == index.definitions
      here == PositionsOf(index, {i \in DOMAIN defs : defs[i].path = path})
      order == SortedBy(here, [i \in RangeOf(here) |->
                                 <<defs[i].range.startLine, defs[i].range.startCol>>])
  IN  [k \in DOMAIN order |-> defs[order[k]]]

(* `implementors`, in the order they came in *)
Implementors(index, symbol) ==
  Selected(index.definitions, {def \in RangeOf(index.definitions) : symbol \in def.implements})

-----------------------------------------------------------------------------
(* Searching by name. *)

Matches(name, needle) ==
  \E i \in 0 .. Len(name) - Len(needle) : SubSeq(name, i + 1, i + Len(needle)) = needle

(* Exact, a prefix, or somewhere inside. *)
Rank(name, needle) ==
  IF name = needle THEN 0
  ELSE IF SubSeq(name, 1, Len(needle)) = needle THEN 1
  ELSE 2

(* `RankedDefinition`: shorter names first, then by name, path and symbol. *)
RankedDefinition(def, needle) ==
  LET name == ShortName[def.symbol]
  IN  <<Rank(name, needle), Len(name)>> \o name \o <<Order[def.path], Order[def.symbol]>>

(* Mutant: what is kept is the first to be scanned. *)
KeepMutant(best, candidate, limit) ==
  IF Cardinality(best) < limit THEN best \union {candidate} ELSE best

(* A candidate takes the place of the worst of the best so far. *)
Keep(best, candidate, limit) ==
  LET worst == CHOOSE w \in best : \A other \in best : ~Less(w.ranked, other.ranked)
  IN  IF Cardinality(best) < limit THEN best \union {candidate}
      ELSE IF Less(candidate.ranked, worst.ranked) THEN (best \ {worst}) \union {candidate}
      ELSE best

(* `into_sorted_vec`: what ranks the same may come in any order. *)
InOrder(best) ==
  CHOOSE order \in [1 .. Cardinality(best) -> best] :
    /\ RangeOf(order) = best
    /\ \A j, k \in DOMAIN order : j < k => ~Less(order[k].ranked, order[j].ranked)

(* The positions of the included, name by name, and as they came in for a name. *)
ByName(index, included, names) ==
  LET scanned[k \in 0 .. Len(names)] ==
        IF k = 0 THEN <<>>
        ELSE scanned[k - 1] \o
               PositionsOf(index, {i \in included :
                                     ShortName[index.definitions[i].symbol] = names[k]})
  IN  scanned[Len(names)]

(* What the heap has at the end. *)
BestOf(candidates, limit) ==
  LET best[k \in 0 .. Len(candidates)] ==
        IF k = 0 \/ limit = 0 THEN {} ELSE Keep(best[k - 1], candidates[k], limit)
  IN  best[Len(candidates)]

(* `search_limited`: the names are scanned in the order of a hash table, and
   `shadowed` paths are left out. *)
SearchLimited(index, query, limit, shadowed, names) ==
  LET defs == index.definitions
      scanned == ByName(index, {i \in DOMAIN defs : /\ defs[i].path \notin shadowed
                                                    /\ Matches(ShortName[defs[i].symbol], query)},
                        names)
      candidates == [k \in DOMAIN scanned |->
                       [at |-> scanned[k], ranked |-> RankedDefinition(defs[scanned[k]], query)]]
      sorted == InOrder(BestOf(candidates, limit))
  IN  IF query = <<>> THEN [results |-> <<>>, total |-> 0]
      ELSE [results |-> [k \in DOMAIN sorted |-> defs[sorted[k].at]],
            total |-> Len(candidates)]

=============================================================================
