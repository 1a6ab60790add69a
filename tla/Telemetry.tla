------------------------------- MODULE Telemetry -------------------------------
(***************************************************************************)
(* telemetry/src/lib.rs: the counters a server keeps of each operation,    *)
(* the guard that records an operation however its handler ends, and the   *)
(* health computed from the counters.                                      *)
(*                                                                         *)
(* A duration is a number of microseconds.  Rates are compared as          *)
(* fractions, so rounding is not modelled.  `check_span` and               *)
(* `record_violation` are called by nothing outside the crate's tests, so  *)
(* no health has a broken invariant.                                       *)
(***************************************************************************)
EXTENDS Naturals, Sequences, FiniteSets

LOCAL INSTANCE FiniteSetsExt

CONSTANTS
  SampleWindow, (* the durations kept of an operation                      *)
  MaxMicros     (* u32::MAX                                                *)

ASSUME TelemetryAssumption == SampleWindow \in Nat \ {0} /\ MaxMicros \in Nat

ClientFacing ==
  {"workspaceSymbol", "goToDefinition", "findReferences", "hover", "documentSymbol",
   "goToImplementation", "prepareCallHierarchy", "incomingCalls", "outgoingCalls"}

(* The internal operation the server records; no other one is in use. *)
Ops == ClientFacing \union {"indexBuild"}

(* The first is the healthy one, and the second is misleading. *)
EmptyReasons == {"NoMatch", "FileNotIndexed"}
Failures == {"Io", "Panic", "BadRequest", "IndexUnavailable"}

Answered(returned, total) == [kind |-> "Answered", returned |-> returned, total |-> total]
Empty(reason) == [kind |-> "Empty", reason |-> reason]
Failed(failure) == [kind |-> "Failed", failure |-> failure]
Cancelled == [kind |-> "Cancelled"]

NoStats ==
  [total |-> 0, answered |-> 0, truncated |-> 0, withheld |-> 0,
   empty |-> [r \in EmptyReasons |-> 0], failed |-> [f \in Failures |-> 0],
   cancelled |-> 0, stale |-> 0, samples |-> <<>>, next |-> 0]

-----------------------------------------------------------------------------
(* Guards. *)

(* `start`: the guard of a handler that has said nothing yet. *)
Start(op) == [op |-> op, stale |-> FALSE, outcome |-> [kind |-> "none"]]

(* `finish` and `mark_failed` *)
Finish(guard, outcome) == [guard EXCEPT !.outcome = outcome]

MarkStale(guard) == [guard EXCEPT !.stale = TRUE]

(* The drop, when the handler has returned or has unwound. *)
Dropped(guard, duration) ==
  [op |-> guard.op, stale |-> guard.stale, duration |-> duration,
   outcome |-> IF guard.outcome.kind = "none" THEN Failed("Panic") ELSE guard.outcome]

-----------------------------------------------------------------------------
(* Counters. *)

(* Mutant: the window holds one sample too many before it is a ring. *)
PushSampleMutant(stats, micros) ==
  IF Len(stats.samples) <= SampleWindow
  THEN [stats EXCEPT !.samples = Append(@, micros)]
  ELSE [stats EXCEPT !.samples[stats.next + 1] = micros,
                     !.next = (@ + 1) % SampleWindow]

(* A ring once it is full. *)
PushSample(stats, micros) ==
  IF Len(stats.samples) < SampleWindow
  THEN [stats EXCEPT !.samples = Append(@, micros)]
  ELSE [stats EXCEPT !.samples[stats.next + 1] = micros,
                     !.next = (@ + 1) % SampleWindow]

Count(stats, outcome) ==
  CASE outcome.kind = "Answered" ->
         [stats EXCEPT !.answered = @ + 1,
                       !.truncated = IF outcome.returned < outcome.total THEN @ + 1 ELSE @,
                       !.withheld = @ + outcome.total - outcome.returned]
    [] outcome.kind = "Empty" -> [stats EXCEPT !.empty[outcome.reason] = @ + 1]
    [] outcome.kind = "Failed" -> [stats EXCEPT !.failed[outcome.failure] = @ + 1]
    [] outcome.kind = "Cancelled" -> [stats EXCEPT !.cancelled = @ + 1]

(* Mutant: a record that panicked is not counted. *)
RecordMutant(stats, record) ==
  LET timed == PushSample([stats EXCEPT !.total = @ + 1], Min({record.duration, MaxMicros}))
      staled == IF record.stale THEN [timed EXCEPT !.stale = @ + 1] ELSE timed
  IN  IF record.outcome = Failed("Panic") THEN stats ELSE Count(staled, record.outcome)

(* `record`, for the operation the record is of. *)
Record(stats, record) ==
  LET timed == PushSample([stats EXCEPT !.total = @ + 1], Min({record.duration, MaxMicros}))
      staled == IF record.stale THEN [timed EXCEPT !.stale = @ + 1] ELSE timed
  IN  Count(staled, record.outcome)

-----------------------------------------------------------------------------
(* Health. *)

(* `sort_unstable` *)
Sorted(samples) ==
  LET order == CHOOSE order \in [DOMAIN samples -> DOMAIN samples] :
                 \A i, j \in DOMAIN samples : i < j =>
                   order[i] # order[j] /\ samples[order[i]] <= samples[order[j]]
  IN  [i \in DOMAIN samples |-> samples[order[i]]]

(* Nearest rank. *)
Percentile(samples, percent) ==
  IF samples = <<>> THEN 0
  ELSE LET rank == (percent * Len(samples) + 99) \div 100
       IN  Sorted(samples)[Min({Max({1, rank}), Len(samples)})]

(* The counts of every reason that is not healthy, and of every failure, are
   added up. *)
OpHealth(stats) ==
  [total |-> stats.total,
   answered |-> stats.answered,
   noMatch |-> stats.empty["NoMatch"],
   misleading |-> stats.empty["FileNotIndexed"],
   truncated |-> stats.truncated,
   withheld |-> stats.withheld,
   failed |-> stats.failed["Io"] + stats.failed["Panic"] + stats.failed["BadRequest"]
               + stats.failed["IndexUnavailable"],
   cancelled |-> stats.cancelled,
   stale |-> stats.stale,
   percentiles |-> [p \in {50, 95, 99} |-> Percentile(stats.samples, p)]]

(* `detect_concerns`, for one operation: more than one misleading answer in
   1000 if no client sees them, 5 failures in 100, 25 short answers in 100. *)
DetectConcerns(op, health) ==
  {concern \in {"MisleadingEmpties", "StaleReads", "HeavyTruncation", "Failing"} :
     CASE concern = "MisleadingEmpties" ->
            IF op \in ClientFacing THEN health.misleading > 0
            ELSE health.misleading * 1000 > health.total
       [] concern = "StaleReads" -> health.stale > 0
       [] concern = "HeavyTruncation" -> health.truncated * 100 > 25 * health.answered
       [] concern = "Failing" -> health.failed * 100 > 5 * health.total}

=============================================================================
