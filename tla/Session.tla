--------------------------------- MODULE Session -------------------------------
(***************************************************************************)
(* The editor's session as a whole: ClientLifecycle decides which server   *)
(* runs, and each server answers requests, loads indexes when it is asked  *)
(* to and keeps its own telemetry until a restart throws it away.          *)
(*                                                                         *)
(* A request and its reply are one step: the event loop handles a message  *)
(* at a time, and a shutdown comes after the requests sent before it.      *)
(***************************************************************************)
EXTENDS ClientLifecycle, Requests

CONSTANTS
  Used,       (* bound: the operations one behaviour uses                  *)
  Durations,  (* how long the first, the second, ... record of one took    *)
  MaxReplies  (* bound: replies, of all servers                            *)

ASSUME SessionAssumption ==
  /\ \A ops \in Used : ops \subseteq Ops
  /\ MaxReplies \in Nat
  /\ \A k \in 1 .. MaxReplies + 1 : Durations[k] \in Nat

(* What a query can leave behind. *)
AllLeft == {OnRequest(op, world) : op \in ClientFacing, world \in Worlds}

VARIABLES
  uses,     (* the operations of this behaviour                            *)
  sessions, (* of every server: the load that is open, and its telemetry   *)
  told      (* the replies sent, for the properties: a bag of them, with   *)
            (* a number for each of the ones that say the same             *)

vars == <<clientVars, uses, sessions, told>>

NewSession == [loading |-> FALSE, stats |-> [op \in uses |-> NoStats]]

ReplyKinds ==
  {"ok", "RequestFailed", "InvalidParams", "ContentModified", "InternalError",
   "RequestCanceled", "InvalidRequest", "Busy"}

TypeOK ==
  /\ ClientTypeOK
  /\ uses \in Used
  /\ told \subseteq [of : ClientIds, op : uses, kind : ReplyKinds,
                     count : Nat, exist : Nat, nth : Nat]
  /\ DOMAIN sessions = DOMAIN servers
  /\ \A c \in ClientIds :
       /\ sessions[c].loading \in BOOLEAN
       /\ \A op \in uses :
            LET stats == sessions[c].stats[op]
            IN  /\ stats.samples \in Seq(0 .. MaxMicros)
                /\ Len(stats.samples) <= SampleWindow
                /\ stats.next \in 0 .. SampleWindow - 1

Init ==
  /\ ClientInit
  /\ uses \in Used
  /\ sessions = <<>>
  /\ told = {}

-----------------------------------------------------------------------------
(* Replies. *)

(* A record, for the operation it is of. *)
Recorded(session, guard) ==
  LET stats == session.stats[guard.op]
  IN  [session EXCEPT !.stats[guard.op] =
         Record(stats, Dropped(guard, Durations[stats.total + 1]))]

(* One reply more. *)
Sent(c, op, kind, count, exist) ==
  LET same == {reply \in told : /\ reply.of = c /\ reply.op = op /\ reply.kind = kind
                               /\ reply.count = count /\ reply.exist = exist}
  IN  told \union {[of |-> c, op |-> op, kind |-> kind, count |-> count, exist |-> exist,
                   nth |-> Cardinality(same) + 1]}

Answer(c, session, replies) ==
  /\ Cardinality(told) < MaxReplies
  /\ sessions' = [sessions EXCEPT ![c] = session]
  /\ told' = replies
  /\ UNCHANGED <<clientVars, uses>>

(* A query, in any world. *)
Query(c, op) ==
  /\ servers[c].phase = "running"
  /\ \E left \in AllLeft :
       /\ left.guard.op = op
       /\ Answer(c, Recorded(sessions[c], left.guard),
                 Sent(c, op, left.kind, left.count, left.exist))

(* After shutdown every request is refused, and no guard is started. *)
QueryAfterShutdown(c, op) ==
  /\ servers[c].phase = "shutdown"
  /\ Answer(c, sessions[c], Sent(c, op, "InvalidRequest", 0, 0))

-----------------------------------------------------------------------------
(* Loading an index, which `jabar/loadIndex` answers when it is done. *)

Ended(session, outcome) ==
  [Recorded(session, Finish(Start("indexBuild"), outcome)) EXCEPT !.loading = FALSE]

(* Only one generation is loaded at a time: a request is refused while it is
   this one, one whose request was cancelled, or one nobody asked for. *)
LoadIndex(c) ==
  /\ servers[c].phase = "running"
  /\ \/ Answer(c, sessions[c], Sent(c, "indexBuild", "Busy", 0, 0))
     \/ /\ ~sessions[c].loading
        /\ Answer(c, [sessions[c] EXCEPT !.loading = TRUE], told)

(* The worker's result: definitions, an error of its own, a panic, or one
   that came too late for the tree the load was asked about; or the tree
   moves, and no result is waited for. *)
LoadEnds(c) ==
  /\ sessions[c].loading
  /\ servers[c].phase = "running"
  /\ \/ \E found \in 0 .. 1 :
          Answer(c, Ended(sessions[c], CountOutcome(found)),
                 Sent(c, "indexBuild", "ok", found, found))
     \/ \E kind \in {"InvalidParams", "InternalError"} :
          Answer(c, Ended(sessions[c], Failed("Io")), Sent(c, "indexBuild", kind, 0, 0))
     \/ \E kind \in {"ContentModified", "RequestCanceled"} :
          Answer(c, Ended(sessions[c], Cancelled), Sent(c, "indexBuild", kind, 0, 0))

(* `shutdown` cancels the load first, and answers it. *)
Shutdown(c) ==
  /\ AnswersShutdown(c)
  /\ IF sessions[c].loading
     THEN /\ sessions' = [sessions EXCEPT ![c] = Ended(@, Cancelled)]
          /\ told' = Sent(c, "indexBuild", "RequestCanceled", 0, 0)
     ELSE UNCHANGED <<sessions, told>>
  /\ UNCHANGED uses

-----------------------------------------------------------------------------
(* A server that is started has a session of its own. *)
Lifecycle ==
  /\ SettingsChange \/ Deactivate \/ Operates \/ \E c \in ClientIds : Exits(c)
  /\ sessions' = IF Len(servers') > Len(servers) THEN Append(sessions, NewSession) ELSE sessions
  /\ UNCHANGED <<uses, told>>

Next ==
  \/ Lifecycle
  \/ \E c \in ClientIds :
       \/ \E op \in uses \ {"indexBuild"} : Query(c, op) \/ QueryAfterShutdown(c, op)
       \/ "indexBuild" \in uses /\ (LoadIndex(c) \/ LoadEnds(c))
       \/ Shutdown(c)

Spec == Init /\ [][Next]_vars

(* Promises settle, a server spawns or does not, and its event loop answers *)
(* a shutdown.  Nothing makes the user answer a message.                    *)
Begins == BeginStart \/ BeginRestart \/ BeginShutdown
Untouched == UNCHANGED <<uses, told>> /\ Lifecycle

Fairness ==
  /\ WF_vars(Begins /\ Untouched)
  /\ WF_vars(StopResolves /\ Untouched)
  /\ WF_vars((StartResolves \/ StartRejects) /\ Untouched)
  /\ WF_vars(\E c \in ClientIds : Shutdown(c))

FairSpec == Spec /\ Fairness

-----------------------------------------------------------------------------
(* Properties. *)

(* The health in the reply to `jabar/status`. *)
Status(c) ==
  [op \in uses |-> [health |-> OpHealth(sessions[c].stats[op]),
                   concerns |-> DetectConcerns(op, OpHealth(sessions[c].stats[op]))]]

(* The replies an operation of a server has sent, but the ones that refused    *)
(* it before it was begun, and of these the ones that list something, have     *)
(* nothing to list, were given up, failed, came from a stale document, and     *)
(* were cut short.                                                             *)
Told(c, op) ==
  {reply \in told : /\ reply.of = c /\ reply.op = op
                   /\ reply.kind \notin {"InvalidRequest", "Busy"}}

Listed(replies) == {reply \in replies : reply.kind = "ok" /\ reply.count > 0}

Nothing(replies) == {reply \in replies : reply.kind = "ok" /\ reply.count = 0}

IsGivenUp(reply) ==
  \/ reply.kind = "RequestCanceled"
  \/ reply.kind = "ContentModified" /\ reply.op = "indexBuild"

GivenUp(replies) == {reply \in replies : IsGivenUp(reply)}

Errors(replies) == {reply \in replies : reply.kind # "ok" /\ ~IsGivenUp(reply)}

Late(replies) == {reply \in Errors(replies) : reply.kind = "ContentModified"}

CallOps == {"incomingCalls", "outgoingCalls"}

Short(replies) ==
  {reply \in Listed(replies) : /\ reply.op \in {"workspaceSymbol", "findReferences"}
                              /\ reply.count < reply.exist}

(* What a record keeps of how long it took. *)
Micros(k) == IF Durations[k] < MaxMicros THEN Durations[k] ELSE MaxMicros

(* The durations of the last records of an operation. *)
Recent(number) ==
  [k \in 1 .. (IF number < SampleWindow THEN number ELSE SampleWindow) |-> Micros(number + 1 - k)]

AtMost(samples, bound) == Cardinality({i \in DOMAIN samples : samples[i] <= bound})

(* The nearest rank: no less than that percentage of them are at most this. *)
IsPercentile(samples, percent, value) ==
  /\ \E k \in DOMAIN samples : samples[k] = value
  /\ AtMost(samples, value) * 100 >= percent * Len(samples)
  /\ \A k \in DOMAIN samples :
       samples[k] < value => AtMost(samples, samples[k]) * 100 < percent * Len(samples)

(* Whatever way its handlers ended - answered, refused early, panicked - a  *)
(* server's health is that of the replies its client got, and of no other   *)
(* server: the counts are those of the replies, the percentiles are nearest *)
(* ranks of the latest durations, there is a concern about failures and     *)
(* short lists exactly if such replies were sent often enough, and none     *)
(* about empty answers or stale reads without such a reply.                 *)
(*                                                                          *)
(* Three things are left open, where the records are not what telemetry     *)
(* documents.  A call hierarchy cut at CALL_HIERARCHY_LIMIT is recorded as  *)
(* all there is.  An open file that declares nothing is recorded as not     *)
(* indexed, so an empty answer that is the truth may be a concern.  And a   *)
(* position that is refused, not answered, counts as a stale read.          *)
HealthMatchesReplies ==
  \A c \in ClientIds : \A op \in uses :
    LET status == Status(c)[op]
        health == status.health
        replies == Told(c, op)
        total == Cardinality(replies)
        listed == Cardinality(Listed(replies))
        nothing == Cardinality(Nothing(replies))
        errors == Cardinality(Errors(replies))
        short == Cardinality(Short(replies))
    IN  /\ health.total = total
        /\ health.answered = listed
        /\ health.noMatch + health.misleading = nothing
        /\ health.failed = errors
        /\ health.cancelled = Cardinality(GivenUp(replies))
        /\ op \notin CallOps => health.truncated = short
        /\ \A p \in {50, 95, 99} :
             total > 0 => IsPercentile(Recent(total), p, health.percentiles[p])
        /\ op # "documentSymbol" => health.noMatch = nothing
        /\ "MisleadingEmpties" \in status.concerns => op = "documentSymbol" /\ nothing > 0
        /\ "StaleReads" \in status.concerns => Late(replies) # {}
        /\ "Failing" \in status.concerns <=> errors * 20 > total
        /\ op \notin CallOps =>
             ("HeavyTruncation" \in status.concerns <=> short * 4 > listed)

=============================================================================
