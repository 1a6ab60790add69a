-------------------------------- MODULE Requests -------------------------------
(***************************************************************************)
(* The query handlers of server.rs, as far as what a reply says and what   *)
(* the guard records of it: which conditions a query is refused for, in    *)
(* which order, and what an answer that is empty or cut short counts as.   *)
(*                                                                         *)
(* What there is to know when a query is handled is its world: whether an  *)
(* index is loaded and the server has a workspace, whether the file is in  *)
(* it and among the stale documents, whether the index has the declaration *)
(* a call hierarchy item names, how many results there are, and whether    *)
(* the handler panics on its way to them.  Which results those are is      *)
(* Navigation's subject, and which files are stale is DocumentFreshness's. *)
(* A request whose parameters do not parse, or of an unknown method, is    *)
(* refused before its guard starts and leaves no trace.                    *)
(***************************************************************************)
EXTENDS Telemetry

LOCAL INSTANCE FiniteSetsExt

CONSTANTS
  SearchLimit,    (* SEARCH_LIMIT                                          *)
  ReferenceLimit, (* REFERENCE_LIMIT                                       *)
  CallLimit       (* CALL_HIERARCHY_LIMIT                                  *)

ASSUME LimitAssumption == {SearchLimit, ReferenceLimit, CallLimit} \subseteq Nat \ {0}

(* Numbers of results on both sides of every limit. *)
Founds == 0 .. Max({SearchLimit, ReferenceLimit, CallLimit}) + 1

Worlds ==
  {world \in [indexed : BOOLEAN, rooted : BOOLEAN, inside : BOOLEAN, stale : BOOLEAN,
              known : BOOLEAN, found : Founds, panics : BOOLEAN] :
     world.inside => world.rooted}

(* What a handler leaves behind: its reply, with the number of results in   *)
(* it and the number there are, and the guard it drops.                     *)
Left(kind, guard) == [kind |-> kind, count |-> 0, exist |-> 0, guard |-> guard]

Replied(guard, returned, world, outcome) ==
  [kind |-> "ok", count |-> returned, exist |-> world.found, guard |-> Finish(guard, outcome)]

CountOutcome(count) == IF count = 0 THEN Empty("NoMatch") ELSE Answered(count, count)

(* Of `SearchResults` and `ReferenceResults`. *)
CutOutcome(returned, total) == IF total = 0 THEN Empty("NoMatch") ELSE Answered(returned, total)

-----------------------------------------------------------------------------
(* Refusals. *)

IndexNotReady(guard) == Left("RequestFailed", Finish(guard, Failed("IndexUnavailable")))

BadRequest(guard) == Left("InvalidParams", Finish(guard, Failed("BadRequest")))

Refuse(guard, world) == IF ~world.indexed THEN IndexNotReady(guard) ELSE BadRequest(guard)

(* Positions in a stale document are refused, and counted as stale reads. *)
RequireCurrentDocument(guard) ==
  Left("ContentModified", MarkStale(Finish(guard, Failed("IndexUnavailable"))))

(* `resolve_query` finds nothing without an index, or for a file outside. *)
Resolves(world) == world.indexed /\ world.inside

(* What a positional query asks before it gives its answer, in this order. *)
Positional(op, world, answer) ==
  IF ~Resolves(world) THEN Refuse(Start(op), world)
  ELSE IF world.stale THEN RequireCurrentDocument(Start(op))
  ELSE answer

-----------------------------------------------------------------------------
(* Handlers. *)

WorkspaceSymbols(world) ==
  LET guard == Start("workspaceSymbol")
      returned == Min({world.found, SearchLimit})
  IN  IF ~(world.indexed /\ world.rooted) THEN IndexNotReady(guard)
      ELSE Replied(guard, returned, world, CutOutcome(returned, world.found))

GotoDefinition(world) ==
  Positional("goToDefinition", world,
    Replied(Start("goToDefinition"), world.found, world, CountOutcome(world.found)))

FindReferences(world) ==
  LET returned == Min({world.found, ReferenceLimit})
  IN  Positional("findReferences", world,
        Replied(Start("findReferences"), returned, world, CutOutcome(returned, world.found)))

(* One hover, or null. *)
Hover(world) ==
  LET returned == Min({world.found, 1})
  IN  Positional("hover", world,
        Replied(Start("hover"), returned, world, CountOutcome(returned)))

GotoImplementation(world) ==
  Positional("goToImplementation", world,
    Replied(Start("goToImplementation"), world.found, world, CountOutcome(world.found)))

(* Not positional: a stale file is parsed as it is.  Nothing declared is    *)
(* taken as nothing indexed.                                                *)
DocumentSymbol(world) ==
  LET guard == Start("documentSymbol")
  IN  IF ~Resolves(world) THEN Refuse(guard, world)
      ELSE Replied(guard, world.found, world,
                   IF world.found = 0 THEN Empty("FileNotIndexed")
                   ELSE Answered(world.found, world.found))

PrepareCallHierarchy(world) ==
  LET returned == Min({world.found, 1})
  IN  Positional("prepareCallHierarchy", world,
        Replied(Start("prepareCallHierarchy"), returned, world, CountOutcome(returned)))

(* An item without the site it was prepared for, or whose site the index    *)
(* does not have, is refused; what is cut off counts as all there is.       *)
CallHierarchy(op, world) ==
  LET returned == Min({world.found, CallLimit})
  IN  Positional(op, world,
        IF ~world.known THEN BadRequest(Start(op))
        ELSE Replied(Start(op), returned, world, CountOutcome(returned)))

-----------------------------------------------------------------------------
Dispatch(op, world) ==
  CASE op = "workspaceSymbol" -> WorkspaceSymbols(world)
    [] op = "goToDefinition" -> GotoDefinition(world)
    [] op = "findReferences" -> FindReferences(world)
    [] op = "hover" -> Hover(world)
    [] op = "documentSymbol" -> DocumentSymbol(world)
    [] op = "goToImplementation" -> GotoImplementation(world)
    [] op = "prepareCallHierarchy" -> PrepareCallHierarchy(world)
    [] op \in {"incomingCalls", "outgoingCalls"} -> CallHierarchy(op, world)

(* `on_request`: a handler that unwinds drops its guard, and is answered for. *)
OnRequest(op, world) ==
  IF world.panics THEN Left("InternalError", Start(op)) ELSE Dispatch(op, world)

=============================================================================
