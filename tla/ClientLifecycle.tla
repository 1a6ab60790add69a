---------------------------- MODULE ClientLifecycle ----------------------------
(***************************************************************************)
(* The VS Code extension: clientLifecycle.ts queues the starting, the      *)
(* restarts and the stopping of the language client; extension.ts asks for *)
(* them.  An operation is a chain of awaits, and the user changes settings *)
(* and closes the window between any two of them.                          *)
(*                                                                         *)
(* A client is named by its place in the order of starting, and stands for *)
(* the server process it runs.  Of vscode-languageclient nothing is        *)
(* assumed but that `stop` resolves only after the server has answered the *)
(* shutdown request, and that a `start` that rejects leaves no server.     *)
(***************************************************************************)
EXTENDS Naturals, Sequences

CONSTANTS
  NoClient,
  MaxSettings (* bound: changes of the settings                            *)

ASSUME ClientAssumption == NoClient \notin Nat /\ MaxSettings \in Nat

VARIABLES
  settings,     (* how often the settings have changed                     *)
  queue,        (* the operations behind the one in progress               *)
  operation,    (* the one in progress, what it awaits, and of whom        *)
  current,      (* the client that commands are sent to                    *)
  shuttingDown,
  servers       (* the servers started, in order                           *)

clientVars == <<settings, queue, operation, current, shuttingDown, servers>>

Idle == [kind |-> "none", awaits |-> "nothing", of |-> NoClient]

Kinds == {"start", "restart", "shutdown"}
ClientIds == DOMAIN servers
Server == [settings : Nat, phase : {"starting", "running", "shutdown", "exited"}, asked : BOOLEAN]

ClientTypeOK ==
  /\ settings \in Nat
  /\ queue \in Seq(Kinds)
  /\ servers \in Seq(Server)
  /\ current \in ClientIds \union {NoClient}
  /\ shuttingDown \in BOOLEAN
  /\ operation = Idle
       \/ operation \in [kind : Kinds, awaits : {"stop", "start", "answer"}, of : ClientIds]

(* `activate` has enqueued the start. *)
ClientInit ==
  /\ settings = 0
  /\ queue = <<"start">>
  /\ operation = Idle
  /\ current = NoClient
  /\ shuttingDown = FALSE
  /\ servers = <<>>

-----------------------------------------------------------------------------
(* The user. *)

(* Mutant: a change is dropped while an operation is in progress. *)
SettingsChangeMutant ==
  /\ settings < MaxSettings
  /\ settings' = settings + 1
  /\ queue' = IF operation = Idle THEN Append(queue, "restart") ELSE queue
  /\ UNCHANGED <<operation, current, shuttingDown, servers>>

(* `onDidChangeConfiguration` for one of the settings a server is started with. *)
SettingsChange ==
  /\ settings < MaxSettings
  /\ settings' = settings + 1
  /\ queue' = Append(queue, "restart")
  /\ UNCHANGED <<operation, current, shuttingDown, servers>>

(* The flag is set at once, before the operations in the queue get to run. *)
Deactivate ==
  /\ ~shuttingDown
  /\ shuttingDown' = TRUE
  /\ queue' = Append(queue, "shutdown")
  /\ UNCHANGED <<settings, operation, current, servers>>

-----------------------------------------------------------------------------
(* Operations. *)

(* `startClient`, up to its await: the settings are read here. *)
StartClient(kind) ==
  /\ servers' = Append(servers, [settings |-> settings, phase |-> "starting", asked |-> FALSE])
  /\ operation' = [kind |-> kind, awaits |-> "start", of |-> Len(servers) + 1]

StopClient(kind) ==
  /\ servers' = [servers EXCEPT ![current].asked = TRUE]
  /\ operation' = [kind |-> kind, awaits |-> "stop", of |-> current]

Return ==
  /\ operation' = Idle
  /\ UNCHANGED servers

(* The tail of the queue settles, and the next operation runs to its first
   await or to its end. *)
Begin(kind) ==
  /\ operation = Idle
  /\ queue # <<>>
  /\ Head(queue) = kind
  /\ queue' = Tail(queue)
  /\ UNCHANGED <<settings, current, shuttingDown>>

BeginStart ==
  /\ Begin("start")
  /\ IF shuttingDown THEN Return ELSE StartClient("start")

BeginRestart ==
  /\ Begin("restart")
  /\ IF shuttingDown THEN Return
     ELSE IF current # NoClient THEN StopClient("restart")
     ELSE StartClient("restart")

BeginShutdown ==
  /\ Begin("shutdown")
  /\ IF current # NoClient THEN StopClient("shutdown") ELSE Return

Awaited(what) == operation # Idle /\ operation.awaits = what

(* `shutdown` may have been called since the stop began. *)
StopResolves ==
  /\ Awaited("stop")
  /\ servers[operation.of].phase \in {"shutdown", "exited"}
  /\ current' = NoClient
  /\ IF operation.kind = "restart" /\ ~shuttingDown THEN StartClient("restart") ELSE Return
  /\ UNCHANGED <<settings, queue, shuttingDown>>

(* Mutant: a failed stop does not keep a restart from going on. *)
StopRejectsMutant ==
  /\ Awaited("stop")
  /\ current' = NoClient
  /\ IF operation.kind = "restart" /\ ~shuttingDown THEN StartClient("restart") ELSE Return
  /\ UNCHANGED <<settings, queue, shuttingDown>>

(* Mutant: the tail of the queue rejects too, and what follows never runs. *)
StopRejectsStuckMutant ==
  /\ Awaited("stop")
  /\ operation' = [operation EXCEPT !.awaits = "nothing"]
  /\ UNCHANGED <<settings, queue, current, shuttingDown, servers>>

(* The operation rejects, the client stays, and the queue goes on. *)
StopRejects ==
  /\ Awaited("stop")
  /\ Return
  /\ UNCHANGED <<settings, queue, current, shuttingDown>>

StartResolves ==
  /\ Awaited("start")
  /\ servers' = [servers EXCEPT ![operation.of].phase = "running"]
  /\ current' = operation.of
  /\ operation' = Idle
  /\ UNCHANGED <<settings, queue, shuttingDown>>

(* The user is told, and the operation waits for the answer. *)
StartRejects ==
  /\ Awaited("start")
  /\ servers' = [servers EXCEPT ![operation.of].phase = "exited"]
  /\ operation' = [operation EXCEPT !.awaits = "answer"]
  /\ UNCHANGED <<settings, queue, current, shuttingDown>>

MessageDismissed ==
  /\ Awaited("answer")
  /\ Return
  /\ current' = IF operation.kind = "start" THEN NoClient ELSE current
  /\ UNCHANGED <<settings, queue, shuttingDown>>

-----------------------------------------------------------------------------
(* The server's end of a stop. *)

(* The `shutdown` request is answered. *)
AnswersShutdown(c) ==
  /\ servers[c].asked
  /\ servers[c].phase = "running"
  /\ servers' = [servers EXCEPT ![c].phase = "shutdown"]
  /\ UNCHANGED <<settings, queue, operation, current, shuttingDown>>

(* `exit`, which a client sends when shutdown was answered. *)
Exits(c) ==
  /\ servers[c].phase = "shutdown"
  /\ servers' = [servers EXCEPT ![c].phase = "exited"]
  /\ UNCHANGED <<settings, queue, operation, current, shuttingDown>>

Operates ==
  \/ BeginStart \/ BeginRestart \/ BeginShutdown
  \/ StopResolves \/ StopRejects
  \/ StartResolves \/ StartRejects
  \/ MessageDismissed

ClientNext ==
  \/ SettingsChange \/ Deactivate
  \/ Operates
  \/ \E c \in ClientIds : AnswersShutdown(c) \/ Exits(c)

ClientSpec == ClientInit /\ [][ClientNext]_clientVars

-----------------------------------------------------------------------------
(* Properties. *)

Running(c) == servers[c].phase = "running"

(* There is never a second server beside one that answers: a server that    *)
(* runs is the one commands are sent to or the one the operation in         *)
(* progress stops, whichever stops and starts failed; and when the          *)
(* extension has shut down, a server that still runs is one whose stop was  *)
(* asked for and failed, not one a restart left behind or launched since.   *)
ReachableServer ==
  /\ \A c, d \in ClientIds : Running(c) /\ Running(d) => c = d
  /\ \A c \in ClientIds : Running(c) => c = current
  /\ shuttingDown /\ operation = Idle /\ queue = <<>> =>
       \A c \in ClientIds : servers[c].phase \in {"starting", "running"} => servers[c].asked

(* Changing the binary or another setting restarts the client: when nothing *)
(* is queued, the client started last was started with the settings as they *)
(* are, unless its predecessor could not be stopped and is still there.     *)
SettingsTakeEffect ==
  operation = Idle /\ queue = <<>> /\ ~shuttingDown =>
    LET latest == Len(servers)
    IN  servers[latest].settings = settings \/ (current = latest /\ servers[latest].asked)

(* Every start, restart and shutdown comes to its end, after failures too,  *)
(* unless the message that the server could not start is left open.         *)
OperationsEnd == []<>((operation = Idle /\ queue = <<>>) \/ Awaited("answer"))

=============================================================================
