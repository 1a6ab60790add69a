----------------------------- MODULE SessionProofs -----------------------------
(***************************************************************************)
(* The extension's queue, for any number of changes of the settings: there *)
(* is one server at most that answers, and the last one started has the    *)
(* settings of now.                                                        *)
(*                                                                         *)
(* A session is a run of that queue: nothing its servers answer or count   *)
(* disturbs the clients, so what is shown of the queue holds of it.  And   *)
(* whatever its servers answer, their counters are those of the replies.   *)
(***************************************************************************)
EXTENDS Session, FiniteSetTheorems, TLAPS

LOCAL INSTANCE FiniteSetsExt

Queued(kind) == \E i \in DOMAIN queue : queue[i] = kind

Phase(c) == servers[c].phase

(* What an operation has settled before the await it is at. *)
AwaitsInOrder ==
  operation # Idle =>
    /\ operation.kind = "shutdown" => shuttingDown /\ operation.awaits = "stop"
    /\ operation.awaits = "stop" =>
         /\ operation.kind # "start"
         /\ operation.of = current
         /\ servers[current].asked
    /\ operation.awaits # "stop" => current = NoClient /\ operation.of = Len(servers)

(* The first operation is the start, and there is no other one. *)
StartIsFirst ==
  \A i \in DOMAIN queue : queue[i] = "start" =>
    i = 1 /\ operation = Idle /\ servers = <<>>

(* Nothing but the current server answers, and only one being started may yet. *)
OneAnswers ==
  /\ current # NoClient => current = Len(servers)
  /\ \A c \in ClientIds :
       /\ Phase(c) = "running" => c = current
       /\ Phase(c) = "starting" =>
            operation # Idle /\ operation.awaits = "start" /\ c = operation.of

(* Once the shutdown has had its turn nothing is started any more. *)
ShutdownAsks ==
  /\ Queued("shutdown") => shuttingDown
  /\ shuttingDown /\ ~Queued("shutdown") =>
       /\ operation # Idle => operation.awaits = "stop"
       /\ current # NoClient => servers[current].asked

(* The settings a restart has not seen have one in the queue. *)
RestartPending ==
  shuttingDown \/ Queued("restart") \/ Queued("start")
    \/ (servers # <<>> /\ \/ servers[Len(servers)].settings = settings
                          \/ current = Len(servers) /\ servers[current].asked)

ClientInv ==
  /\ ClientTypeOK
  /\ AwaitsInOrder
  /\ StartIsFirst
  /\ OneAnswers
  /\ ShutdownAsks
  /\ RestartPending

-----------------------------------------------------------------------------
(* Steps that operations are made of. *)

LEMMA Appended ==
  ASSUME NEW S, NEW s \in Seq(S), NEW e \in S
  PROVE  /\ Append(s, e) \in Seq(S)
         /\ Len(Append(s, e)) = Len(s) + 1
         /\ DOMAIN Append(s, e) = 1 .. Len(s) + 1
         /\ \A k \in 1 .. Len(s) : Append(s, e)[k] = s[k]
         /\ Append(s, e)[Len(s) + 1] = e
  OBVIOUS

LEMMA Popped ==
  ASSUME NEW S, NEW s \in Seq(S), s # <<>>
  PROVE  /\ Tail(s) \in Seq(S)
         /\ Len(Tail(s)) = Len(s) - 1
         /\ DOMAIN Tail(s) = 1 .. Len(s) - 1
         /\ \A k \in 1 .. Len(s) - 1 : Tail(s)[k] = s[k + 1]
         /\ Head(s) = s[1]
         /\ 1 \in DOMAIN s
  OBVIOUS

LEMMA StartClientStep ==
  ASSUME ClientTypeOK, NEW kind \in {"start", "restart"}, StartClient(kind)
  PROVE  /\ servers' \in Seq(Server)
         /\ Len(servers') = Len(servers) + 1
         /\ DOMAIN servers' = 1 .. Len(servers) + 1
         /\ DOMAIN servers = 1 .. Len(servers)
         /\ Len(servers) \in Nat
         /\ \A c \in 1 .. Len(servers) : servers'[c] = servers[c]
         /\ servers'[Len(servers) + 1].settings = settings
         /\ servers'[Len(servers) + 1].phase = "starting"
         /\ operation' = [kind |-> kind, awaits |-> "start", of |-> Len(servers) + 1]
         /\ operation' \in [kind : Kinds, awaits : {"stop", "start", "answer"}, of : DOMAIN servers']
<1> DEFINE server == [settings |-> settings, phase |-> "starting", asked |-> FALSE]
<1>1. server \in Server /\ servers \in Seq(Server)
  BY DEF ClientTypeOK, Server
<1>2. servers' = Append(servers, server)
  BY DEF StartClient
<1>3. operation' = [kind |-> kind, awaits |-> "start", of |-> Len(servers) + 1]
  BY DEF StartClient
<1>4. server.settings = settings /\ server.phase = "starting"
  OBVIOUS
<1>5. Len(servers) \in Nat /\ DOMAIN servers = 1 .. Len(servers)
  BY <1>1
<1> HIDE DEF server
<1> QED BY <1>1, <1>2, <1>3, <1>4, <1>5, Appended DEF Kinds

LEMMA StopClientStep ==
  ASSUME ClientTypeOK, current # NoClient, NEW kind \in Kinds, StopClient(kind)
  PROVE  /\ servers' \in Seq(Server)
         /\ Len(servers') = Len(servers)
         /\ DOMAIN servers' = DOMAIN servers
         /\ current \in DOMAIN servers
         /\ servers'[current].asked = TRUE
         /\ \A c \in DOMAIN servers : /\ servers'[c].settings = servers[c].settings
                                      /\ servers'[c].phase = servers[c].phase
         /\ operation' = [kind |-> kind, awaits |-> "stop", of |-> current]
         /\ operation' \in [kind : Kinds, awaits : {"stop", "start", "answer"}, of : DOMAIN servers']
<1> DEFINE server == [servers[current] EXCEPT !.asked = TRUE]
<1>1. servers \in Seq(Server) /\ current \in DOMAIN servers
  BY DEF ClientTypeOK, ClientIds
<1>2. server \in Server
  <2>1. servers[current] \in Server
    BY <1>1
  <2> QED BY <2>1 DEF Server
<1>3. server.asked
  BY <1>1 DEF Server
<1>4. server.settings = servers[current].settings /\ server.phase = servers[current].phase
  BY <1>1 DEF Server
<1>5. servers' = [servers EXCEPT ![current] = server]
  BY DEF StopClient
<1>6. operation' = [kind |-> kind, awaits |-> "stop", of |-> current]
  BY DEF StopClient
<1> HIDE DEF server
<1>7. servers' \in Seq(Server) /\ Len(servers') = Len(servers) /\ DOMAIN servers' = DOMAIN servers
  BY <1>1, <1>2, <1>5
<1>8. servers'[current] = server /\ \A c \in DOMAIN servers : c # current => servers'[c] = servers[c]
  BY <1>1, <1>5
<1> QED BY <1>1, <1>3, <1>4, <1>6, <1>7, <1>8

LEMMA PhaseStep ==
  ASSUME ClientTypeOK, NEW c \in ClientIds, NEW phase \in {"starting", "running", "shutdown", "exited"},
         servers' = [servers EXCEPT ![c].phase = phase]
  PROVE  /\ servers' \in Seq(Server)
         /\ Len(servers') = Len(servers)
         /\ DOMAIN servers' = DOMAIN servers
         /\ servers'[c].phase = phase
         /\ \A d \in DOMAIN servers : /\ servers'[d].settings = servers[d].settings
                                      /\ servers'[d].asked = servers[d].asked
                                      /\ d # c => servers'[d].phase = servers[d].phase
<1> DEFINE server == [servers[c] EXCEPT !.phase = phase]
<1>1. servers \in Seq(Server) /\ c \in DOMAIN servers
  BY DEF ClientTypeOK, ClientIds
<1>2. /\ server \in Server /\ server.phase = phase
      /\ server.settings = servers[c].settings /\ server.asked = servers[c].asked
  <2>1. servers[c] \in Server
    BY <1>1
  <2> QED BY <2>1 DEF Server
<1>3. servers' = [servers EXCEPT ![c] = server]
  OBVIOUS
<1> HIDE DEF server
<1>4. servers' \in Seq(Server) /\ Len(servers') = Len(servers) /\ DOMAIN servers' = DOMAIN servers
  BY <1>1, <1>2, <1>3
<1>5. servers'[c] = server /\ \A d \in DOMAIN servers : d # c => servers'[d] = servers[d]
  BY <1>1, <1>3
<1> QED BY <1>2, <1>4, <1>5

LEMMA BeginStep ==
  ASSUME ClientTypeOK, NEW kind, Begin(kind)
  PROVE  /\ queue' \in Seq(Kinds)
         /\ Queued(kind)
         /\ \A k : Queued(k)' => Queued(k)
         /\ \A k : Queued(k) /\ k # kind => Queued(k)'
         /\ StartIsFirst => ~Queued("start")'
         /\ StartIsFirst => StartIsFirst'
         /\ operation = Idle
         /\ UNCHANGED <<settings, current, shuttingDown>>
<1>1. /\ queue \in Seq(Kinds) /\ queue # <<>>
      /\ queue' = Tail(queue) /\ Head(queue) = kind
      /\ operation = Idle /\ UNCHANGED <<settings, current, shuttingDown>>
  BY DEF Begin, ClientTypeOK
<1>2. /\ queue' \in Seq(Kinds)
      /\ DOMAIN queue' = 1 .. Len(queue) - 1
      /\ DOMAIN queue = 1 .. Len(queue)
      /\ Len(queue) \in Nat
      /\ \A k \in 1 .. Len(queue) - 1 : queue'[k] = queue[k + 1]
      /\ queue[1] = kind /\ 1 \in DOMAIN queue
  BY <1>1, Popped
<1>3. Queued(kind)
  BY <1>2 DEF Queued
<1>4. ASSUME NEW k, Queued(k)' PROVE Queued(k)
  BY <1>2, <1>4 DEF Queued
<1>5. ASSUME NEW k, Queued(k), k # kind PROVE Queued(k)'
  <2>1. PICK i \in DOMAIN queue : queue[i] = k
    BY <1>5 DEF Queued
  <2>2. i - 1 \in 1 .. Len(queue) - 1 /\ queue'[i - 1] = k
    BY <1>2, <1>5, <2>1
  <2> QED BY <1>2, <2>2 DEF Queued
<1>6. ASSUME StartIsFirst PROVE ~Queued("start")'
  BY <1>2, <1>6 DEF StartIsFirst, Queued
<1>7. ASSUME StartIsFirst PROVE StartIsFirst'
  BY <1>6, <1>7 DEF StartIsFirst, Queued
<1> QED BY <1>1, <1>2, <1>3, <1>4, <1>5, <1>6, <1>7

LEMMA EnqueueStep ==
  ASSUME ClientTypeOK, NEW kind \in {"restart", "shutdown"}, queue' = Append(queue, kind),
         UNCHANGED <<operation, servers>>
  PROVE  /\ queue' \in Seq(Kinds)
         /\ \A k : Queued(k)' <=> Queued(k) \/ k = kind
         /\ StartIsFirst => StartIsFirst'
<1>1. queue \in Seq(Kinds) /\ kind \in Kinds
  BY DEF ClientTypeOK, Kinds
<1>2. /\ queue' \in Seq(Kinds)
      /\ DOMAIN queue' = 1 .. Len(queue) + 1
      /\ DOMAIN queue = 1 .. Len(queue)
      /\ Len(queue) \in Nat
      /\ \A k \in 1 .. Len(queue) : queue'[k] = queue[k]
      /\ queue'[Len(queue) + 1] = kind
  BY <1>1, Appended
<1>3. ASSUME NEW k PROVE Queued(k)' <=> Queued(k) \/ k = kind
  BY <1>2 DEF Queued
<1>4. ASSUME StartIsFirst PROVE StartIsFirst'
  BY <1>2, <1>4 DEF StartIsFirst
<1> QED BY <1>2, <1>3, <1>4

LEMMA SettingsChangeInv == ClientInv /\ SettingsChange => ClientInv'
<1> SUFFICES ASSUME ClientInv, SettingsChange PROVE ClientInv'
  OBVIOUS
<1> USE ClientAssumption DEF ClientInv
<1>e. /\ queue' \in Seq(Kinds)
      /\ \A k : Queued(k)' <=> Queued(k) \/ k = "restart"
      /\ StartIsFirst'
  BY EnqueueStep DEF SettingsChange
<1>1. ClientTypeOK'
  BY <1>e DEF SettingsChange, ClientTypeOK, ClientIds
<1>2. AwaitsInOrder'
  BY DEF SettingsChange, AwaitsInOrder
<1>3. StartIsFirst'
  BY <1>e DEF StartIsFirst
<1>4. OneAnswers'
  BY DEF SettingsChange, OneAnswers, Phase, ClientIds
<1>5. ShutdownAsks'
  BY <1>e DEF SettingsChange, ShutdownAsks
<1>6. RestartPending'
  BY <1>e DEF RestartPending
<1> QED BY <1>1, <1>2, <1>3, <1>4, <1>5, <1>6 DEF ClientInv

LEMMA DeactivateInv == ClientInv /\ Deactivate => ClientInv'
<1> SUFFICES ASSUME ClientInv, Deactivate PROVE ClientInv'
  OBVIOUS
<1> USE ClientAssumption DEF ClientInv
<1>e. /\ queue' \in Seq(Kinds)
      /\ \A k : Queued(k)' <=> Queued(k) \/ k = "shutdown"
      /\ StartIsFirst'
  BY EnqueueStep DEF Deactivate
<1>1. ClientTypeOK'
  BY <1>e DEF Deactivate, ClientTypeOK, ClientIds
<1>2. AwaitsInOrder'
  BY DEF Deactivate, AwaitsInOrder
<1>3. StartIsFirst'
  BY <1>e DEF StartIsFirst
<1>4. OneAnswers'
  BY DEF Deactivate, OneAnswers, Phase, ClientIds
<1>5. ShutdownAsks'
  BY <1>e DEF Deactivate, ShutdownAsks
<1>6. RestartPending'
  BY DEF Deactivate, RestartPending
<1> QED BY <1>1, <1>2, <1>3, <1>4, <1>5, <1>6 DEF ClientInv

LEMMA BeginStartInv == ClientInv /\ BeginStart => ClientInv'
<1> SUFFICES ASSUME ClientInv, BeginStart PROVE ClientInv'
  OBVIOUS
<1> USE ClientAssumption DEF ClientInv
<1>b. /\ queue' \in Seq(Kinds) /\ Queued("start")
      /\ \A k : Queued(k)' => Queued(k)
      /\ \A k : Queued(k) /\ k # "start" => Queued(k)'
      /\ ~Queued("start")' /\ StartIsFirst'
      /\ operation = Idle /\ UNCHANGED <<settings, current, shuttingDown>>
  BY BeginStep DEF BeginStart
<1>1. CASE shuttingDown
  <2>r. operation' = Idle /\ servers' = servers
    BY <1>1 DEF BeginStart, Return
  <2>1. ClientTypeOK'
    BY <1>b, <2>r DEF ClientTypeOK, ClientIds
  <2>2. AwaitsInOrder'
    BY <2>r DEF AwaitsInOrder
  <2>3. StartIsFirst'
    BY <1>b DEF StartIsFirst
  <2>4. OneAnswers'
    BY <1>b, <2>r DEF OneAnswers, Phase, ClientIds
  <2>5. ShutdownAsks'
    BY <1>b, <2>r DEF ShutdownAsks
  <2>6. RestartPending'
    BY <1>1, <1>b DEF RestartPending
  <2> QED BY <2>1, <2>2, <2>3, <2>4, <2>5, <2>6 DEF ClientInv
<1>2. CASE ~shuttingDown
  <2>s. StartClient("start")
    BY <1>2 DEF BeginStart
  <2>r. current = NoClient
    BY <1>2, <1>b DEF BeginStart, ClientTypeOK, ClientIds, StartIsFirst, Queued
  <2>t. /\ servers' \in Seq(Server) /\ Len(servers') = Len(servers) + 1
        /\ DOMAIN servers' = 1 .. Len(servers) + 1 /\ DOMAIN servers = 1 .. Len(servers)
        /\ Len(servers) \in Nat
        /\ \A c \in 1 .. Len(servers) : servers'[c] = servers[c]
        /\ servers'[Len(servers) + 1].settings = settings
        /\ servers'[Len(servers) + 1].phase = "starting"
        /\ operation' = [kind |-> "start", awaits |-> "start", of |-> Len(servers) + 1]
        /\ operation' \in [kind : Kinds, awaits : {"stop", "start", "answer"}, of : DOMAIN servers']
    BY <2>s, StartClientStep
  <2>1. ClientTypeOK'
    BY <1>b, <2>t DEF ClientTypeOK, ClientIds
  <2>2. AwaitsInOrder'
    BY <1>b, <2>r, <2>t DEF AwaitsInOrder
  <2>3. StartIsFirst'
    BY <1>b DEF StartIsFirst
  <2>4. OneAnswers'
    <3>1. \A c \in 1 .. Len(servers) : Phase(c) \notin {"running", "starting"}
      BY <2>r, <1>b, <2>t DEF OneAnswers, ClientIds
    <3>2. \A c \in 1 .. Len(servers) : servers'[c].phase \notin {"running", "starting"}
      BY <3>1, <2>t DEF Phase
    <3>3. current' = NoClient
      BY <2>r, <1>b
    <3>4. operation' # Idle /\ operation'.awaits = "start" /\ operation'.of = Len(servers) + 1
      BY <2>t DEF Idle
    <3> QED BY <3>2, <3>3, <3>4, <2>t DEF OneAnswers, Phase, ClientIds
  <2>5. ShutdownAsks'
    BY <1>2, <1>b DEF ShutdownAsks
  <2>6. RestartPending'
    BY <1>b, <2>t DEF RestartPending
  <2> QED BY <2>1, <2>2, <2>3, <2>4, <2>5, <2>6 DEF ClientInv
<1> QED BY <1>1, <1>2

LEMMA BeginRestartInv == ClientInv /\ BeginRestart => ClientInv'
<1> SUFFICES ASSUME ClientInv, BeginRestart PROVE ClientInv'
  OBVIOUS
<1> USE ClientAssumption DEF ClientInv
<1>b. /\ queue' \in Seq(Kinds) /\ Queued("restart")
      /\ \A k : Queued(k)' => Queued(k)
      /\ \A k : Queued(k) /\ k # "restart" => Queued(k)'
      /\ ~Queued("start")' /\ StartIsFirst'
      /\ operation = Idle /\ UNCHANGED <<settings, current, shuttingDown>>
  BY BeginStep DEF BeginRestart
<1>1. CASE shuttingDown
  <2>r. operation' = Idle /\ servers' = servers
    BY <1>1 DEF BeginRestart, Return
  <2>1. ClientTypeOK'
    BY <1>b, <2>r DEF ClientTypeOK, ClientIds
  <2>2. AwaitsInOrder'
    BY <2>r DEF AwaitsInOrder
  <2>3. StartIsFirst'
    BY <1>b DEF StartIsFirst
  <2>4. OneAnswers'
    BY <1>b, <2>r DEF OneAnswers, Phase, ClientIds
  <2>5. ShutdownAsks'
    BY <1>b, <2>r DEF ShutdownAsks
  <2>6. RestartPending'
    BY <1>1, <1>b DEF RestartPending
  <2> QED BY <2>1, <2>2, <2>3, <2>4, <2>5, <2>6 DEF ClientInv
<1>2. CASE ~shuttingDown /\ current # NoClient
  <2>s. StopClient("restart") /\ "restart" \in Kinds
    BY <1>2 DEF BeginRestart, Kinds
  <2>t. /\ servers' \in Seq(Server) /\ Len(servers') = Len(servers)
        /\ DOMAIN servers' = DOMAIN servers /\ current \in DOMAIN servers
        /\ servers'[current].asked
        /\ \A c \in DOMAIN servers : servers'[c].settings = servers[c].settings /\ servers'[c].phase = servers[c].phase
        /\ operation' = [kind |-> "restart", awaits |-> "stop", of |-> current]
        /\ operation' \in [kind : Kinds, awaits : {"stop", "start", "answer"}, of : DOMAIN servers']
    BY <1>2, <2>s, StopClientStep
  <2>1. ClientTypeOK'
    BY <1>b, <2>t DEF ClientTypeOK, ClientIds
  <2>2. AwaitsInOrder'
    BY <1>b, <2>t DEF AwaitsInOrder
  <2>3. StartIsFirst'
    BY <1>b DEF StartIsFirst
  <2>4. OneAnswers'
    BY <1>b, <2>t DEF OneAnswers, Phase, ClientIds
  <2>5. ShutdownAsks'
    BY <1>b, <2>t DEF ShutdownAsks
  <2>6. RestartPending'
    BY <1>b, <2>t DEF OneAnswers, RestartPending
  <2> QED BY <2>1, <2>2, <2>3, <2>4, <2>5, <2>6 DEF ClientInv
<1>3. CASE ~shuttingDown /\ current = NoClient
  <2>s. StartClient("restart")
    BY <1>3 DEF BeginRestart
  <2>r. current = NoClient
    BY <1>3, <1>b DEF BeginRestart, ClientTypeOK, ClientIds, StartIsFirst, Queued
  <2>t. /\ servers' \in Seq(Server) /\ Len(servers') = Len(servers) + 1
        /\ DOMAIN servers' = 1 .. Len(servers) + 1 /\ DOMAIN servers = 1 .. Len(servers)
        /\ Len(servers) \in Nat
        /\ \A c \in 1 .. Len(servers) : servers'[c] = servers[c]
        /\ servers'[Len(servers) + 1].settings = settings
        /\ servers'[Len(servers) + 1].phase = "starting"
        /\ operation' = [kind |-> "restart", awaits |-> "start", of |-> Len(servers) + 1]
        /\ operation' \in [kind : Kinds, awaits : {"stop", "start", "answer"}, of : DOMAIN servers']
    BY <2>s, StartClientStep
  <2>1. ClientTypeOK'
    BY <1>b, <2>t DEF ClientTypeOK, ClientIds
  <2>2. AwaitsInOrder'
    BY <1>b, <2>r, <2>t DEF AwaitsInOrder
  <2>3. StartIsFirst'
    BY <1>b DEF StartIsFirst
  <2>4. OneAnswers'
    <3>1. \A c \in 1 .. Len(servers) : Phase(c) \notin {"running", "starting"}
      BY <2>r, <1>b, <2>t DEF OneAnswers, ClientIds
    <3>2. \A c \in 1 .. Len(servers) : servers'[c].phase \notin {"running", "starting"}
      BY <3>1, <2>t DEF Phase
    <3>3. current' = NoClient
      BY <2>r, <1>b
    <3>4. operation' # Idle /\ operation'.awaits = "start" /\ operation'.of = Len(servers) + 1
      BY <2>t DEF Idle
    <3> QED BY <3>2, <3>3, <3>4, <2>t DEF OneAnswers, Phase, ClientIds
  <2>5. ShutdownAsks'
    BY <1>3, <1>b DEF ShutdownAsks
  <2>6. RestartPending'
    BY <1>b, <2>t DEF RestartPending
  <2> QED BY <2>1, <2>2, <2>3, <2>4, <2>5, <2>6 DEF ClientInv
<1> QED BY <1>1, <1>2, <1>3

LEMMA BeginShutdownInv == ClientInv /\ BeginShutdown => ClientInv'
<1> SUFFICES ASSUME ClientInv, BeginShutdown PROVE ClientInv'
  OBVIOUS
<1> USE ClientAssumption DEF ClientInv
<1>b. /\ queue' \in Seq(Kinds) /\ Queued("shutdown")
      /\ \A k : Queued(k)' => Queued(k)
      /\ \A k : Queued(k) /\ k # "shutdown" => Queued(k)'
      /\ ~Queued("start")' /\ StartIsFirst'
      /\ operation = Idle /\ UNCHANGED <<settings, current, shuttingDown>>
  BY BeginStep DEF BeginShutdown
<1>1. CASE current = NoClient
  <2>r. operation' = Idle /\ servers' = servers
    BY <1>1 DEF BeginShutdown, Return
  <2>1. ClientTypeOK'
    BY <1>1, <1>b, <2>r DEF ClientTypeOK
  <2>2. AwaitsInOrder'
    BY <2>r DEF AwaitsInOrder
  <2>3. StartIsFirst'
    BY <1>b DEF StartIsFirst
  <2>4. OneAnswers'
    BY <1>b, <2>r DEF OneAnswers, Phase, ClientIds
  <2>5. ShutdownAsks'
    BY <1>1, <1>b, <2>r DEF ShutdownAsks
  <2>6. RestartPending'
    BY <1>b, <2>r DEF RestartPending
  <2> QED BY <2>1, <2>2, <2>3, <2>4, <2>5, <2>6 DEF ClientInv
<1>2. CASE current # NoClient
  <2>s. StopClient("shutdown") /\ "shutdown" \in Kinds
    BY <1>2 DEF BeginShutdown, Kinds
  <2>t. /\ servers' \in Seq(Server) /\ Len(servers') = Len(servers)
        /\ DOMAIN servers' = DOMAIN servers /\ current \in DOMAIN servers
        /\ servers'[current].asked
        /\ \A c \in DOMAIN servers : servers'[c].settings = servers[c].settings /\ servers'[c].phase = servers[c].phase
        /\ operation' = [kind |-> "shutdown", awaits |-> "stop", of |-> current]
        /\ operation' \in [kind : Kinds, awaits : {"stop", "start", "answer"}, of : DOMAIN servers']
    BY <1>2, <2>s, StopClientStep
  <2>1. ClientTypeOK'
    BY <1>b, <2>t DEF ClientTypeOK, ClientIds
  <2>2. AwaitsInOrder'
    BY <1>2, <1>b, <2>t DEF AwaitsInOrder, ShutdownAsks, Idle
  <2>3. StartIsFirst'
    BY <1>b DEF StartIsFirst
  <2>4. OneAnswers'
    BY <1>b, <2>t DEF OneAnswers, Phase, ClientIds
  <2>5. ShutdownAsks'
    BY <1>b, <2>t DEF ShutdownAsks
  <2>6. RestartPending'
    BY <1>b, <2>t DEF RestartPending
  <2> QED BY <2>1, <2>2, <2>3, <2>4, <2>5, <2>6 DEF ClientInv
<1> QED BY <1>1, <1>2

LEMMA StopRejectsInv == ClientInv /\ StopRejects => ClientInv'
<1> SUFFICES ASSUME ClientInv, StopRejects PROVE ClientInv'
  OBVIOUS
<1> USE ClientAssumption DEF ClientInv
<1>r. operation' = Idle /\ servers' = servers
  BY DEF StopRejects, Return
<1>q. \A k : Queued(k)' <=> Queued(k)
  BY DEF StopRejects, Queued
<1>1. ClientTypeOK'
  BY <1>r DEF StopRejects, ClientTypeOK, ClientIds
<1>2. AwaitsInOrder'
  BY <1>r DEF AwaitsInOrder
<1>3. StartIsFirst'
  BY <1>q DEF StopRejects, Awaited, StartIsFirst
<1>4. OneAnswers'
  BY <1>r DEF StopRejects, Awaited, OneAnswers, Phase, ClientIds
<1>5. ShutdownAsks'
  BY <1>r, <1>q DEF StopRejects, ShutdownAsks
<1>6. RestartPending'
  BY <1>r, <1>q DEF StopRejects, RestartPending
<1> QED BY <1>1, <1>2, <1>3, <1>4, <1>5, <1>6 DEF ClientInv

LEMMA MessageDismissedInv == ClientInv /\ MessageDismissed => ClientInv'
<1> SUFFICES ASSUME ClientInv, MessageDismissed PROVE ClientInv'
  OBVIOUS
<1> USE ClientAssumption DEF ClientInv
<1>r. operation' = Idle /\ servers' = servers
  BY DEF MessageDismissed, Return
<1>q. \A k : Queued(k)' <=> Queued(k)
  BY DEF MessageDismissed, Queued
<1>1. ClientTypeOK'
  BY <1>r DEF MessageDismissed, ClientTypeOK, ClientIds
<1>2. AwaitsInOrder'
  BY <1>r DEF AwaitsInOrder
<1>3. StartIsFirst'
  BY <1>q DEF MessageDismissed, Awaited, StartIsFirst
<1>4. OneAnswers'
  BY <1>r DEF MessageDismissed, Awaited, AwaitsInOrder, OneAnswers, Phase, ClientIds
<1>5. ShutdownAsks'
  BY <1>q DEF MessageDismissed, Awaited, ShutdownAsks
<1>6. RestartPending'
  BY <1>r, <1>q DEF MessageDismissed, Awaited, AwaitsInOrder, RestartPending
<1> QED BY <1>1, <1>2, <1>3, <1>4, <1>5, <1>6 DEF ClientInv

LEMMA StartResolvesInv == ClientInv /\ StartResolves => ClientInv'
<1> SUFFICES ASSUME ClientInv, StartResolves PROVE ClientInv'
  OBVIOUS
<1> USE ClientAssumption DEF ClientInv
<1>a. /\ operation # Idle /\ operation.awaits = "start" /\ operation.of \in ClientIds
      /\ operation.kind \in {"start", "restart"} /\ operation.of = Len(servers) /\ current = NoClient
      /\ operation \in [kind : Kinds, awaits : {"stop", "start", "answer"}, of : ClientIds]
  BY DEF StartResolves, Awaited, AwaitsInOrder, ClientTypeOK, Kinds
<1>t. /\ servers' \in Seq(Server) /\ Len(servers') = Len(servers)
      /\ DOMAIN servers' = DOMAIN servers
      /\ servers'[operation.of].phase = "running"
      /\ \A d \in DOMAIN servers : /\ servers'[d].settings = servers[d].settings
                                   /\ servers'[d].asked = servers[d].asked
                                   /\ d # operation.of => servers'[d].phase = servers[d].phase
  BY <1>a, PhaseStep DEF StartResolves
<1>q. \A k : Queued(k)' <=> Queued(k)
  BY DEF StartResolves, Queued
<1>1. ClientTypeOK'
  BY <1>t DEF StartResolves, ClientTypeOK, ClientIds
<1>2. AwaitsInOrder'
  BY <1>q DEF StartResolves, AwaitsInOrder
<1>3. StartIsFirst'
  BY <1>q DEF StartResolves, StartIsFirst
<1>4. OneAnswers'
  BY <1>a DEF StartResolves, OneAnswers, Phase, ClientIds
<1>5. ShutdownAsks'
  BY <1>a, <1>q DEF StartResolves, ShutdownAsks
<1>6. RestartPending'
  BY <1>a, <1>q DEF StartResolves, RestartPending
<1> QED BY <1>1, <1>2, <1>3, <1>4, <1>5, <1>6 DEF ClientInv

LEMMA StartRejectsInv == ClientInv /\ StartRejects => ClientInv'
<1> SUFFICES ASSUME ClientInv, StartRejects PROVE ClientInv'
  OBVIOUS
<1> USE ClientAssumption DEF ClientInv
<1>a. /\ operation # Idle /\ operation.awaits = "start" /\ operation.of \in ClientIds
      /\ operation.kind \in {"start", "restart"} /\ operation.of = Len(servers) /\ current = NoClient
      /\ operation \in [kind : Kinds, awaits : {"stop", "start", "answer"}, of : ClientIds]
  BY DEF StartRejects, Awaited, AwaitsInOrder, ClientTypeOK, Kinds
<1>t. /\ servers' \in Seq(Server) /\ Len(servers') = Len(servers)
      /\ DOMAIN servers' = DOMAIN servers
      /\ servers'[operation.of].phase = "exited"
      /\ \A d \in DOMAIN servers : /\ servers'[d].settings = servers[d].settings
                                   /\ servers'[d].asked = servers[d].asked
                                   /\ d # operation.of => servers'[d].phase = servers[d].phase
  BY <1>a, PhaseStep DEF StartRejects
<1>q. \A k : Queued(k)' <=> Queued(k)
  BY DEF StartRejects, Queued
<1>1. ClientTypeOK'
  BY <1>a, <1>t DEF StartRejects, ClientTypeOK, ClientIds
<1>2. AwaitsInOrder'
  BY <1>a DEF StartRejects, AwaitsInOrder
<1>3. StartIsFirst'
  BY <1>t DEF StartRejects, StartIsFirst
<1>4. OneAnswers'
  BY <1>q DEF StartRejects, OneAnswers, Phase, ClientIds
<1>5. ShutdownAsks'
  BY <1>a, <1>q DEF StartRejects, ShutdownAsks
<1>6. RestartPending'
  BY <1>q DEF StartRejects, RestartPending
<1> QED BY <1>1, <1>2, <1>3, <1>4, <1>5, <1>6 DEF ClientInv

LEMMA StopResolvesInv == ClientInv /\ StopResolves => ClientInv'
<1> SUFFICES ASSUME ClientInv, StopResolves PROVE ClientInv'
  OBVIOUS
<1> USE ClientAssumption DEF ClientInv
<1>a. /\ operation # Idle /\ operation.awaits = "stop" /\ operation.of = current
      /\ current \in ClientIds /\ operation.kind \in {"restart", "shutdown"}
      /\ operation.kind = "shutdown" => shuttingDown
      /\ servers[current].phase \in {"shutdown", "exited"}
      /\ current' = NoClient /\ UNCHANGED <<settings, queue, shuttingDown>>
  BY DEF StopResolves, Awaited, AwaitsInOrder, ClientTypeOK, Kinds
<1>b. \A k : Queued(k)' <=> Queued(k)
  BY <1>a DEF Queued
<1>c. ~Queued("start")
  BY <1>a DEF Queued, StartIsFirst
<1>d. \A c \in ClientIds : servers[c].phase \notin {"running", "starting"}
  BY <1>a DEF OneAnswers, Phase
<1>1. CASE operation.kind = "restart" /\ ~shuttingDown
  <2>s. StartClient("restart")
    BY <1>1 DEF StopResolves
  <2>t. /\ servers' \in Seq(Server) /\ Len(servers') = Len(servers) + 1
        /\ DOMAIN servers' = 1 .. Len(servers) + 1 /\ DOMAIN servers = 1 .. Len(servers)
        /\ Len(servers) \in Nat
        /\ \A c \in 1 .. Len(servers) : servers'[c] = servers[c]
        /\ servers'[Len(servers) + 1].settings = settings
        /\ servers'[Len(servers) + 1].phase = "starting"
        /\ operation' = [kind |-> "restart", awaits |-> "start", of |-> Len(servers) + 1]
        /\ operation' \in [kind : Kinds, awaits : {"stop", "start", "answer"}, of : DOMAIN servers']
    BY <2>s, StartClientStep
  <2>1. ClientTypeOK'
    BY <1>1, <1>a, <2>t DEF ClientTypeOK, ClientIds
  <2>2. AwaitsInOrder'
    BY <1>1, <1>a, <2>t DEF AwaitsInOrder
  <2>3. StartIsFirst'
    BY <1>a, <1>b, <1>c DEF StartIsFirst, Queued
  <2>4. OneAnswers'
    <3>1. \A c \in 1 .. Len(servers) : servers'[c].phase \notin {"running", "starting"}
      BY <1>d, <2>t DEF ClientIds
    <3>2. operation' # Idle /\ operation'.awaits = "start" /\ operation'.of = Len(servers) + 1
      BY <2>t DEF Idle
    <3> QED BY <1>a, <3>1, <3>2, <2>t DEF OneAnswers, Phase, ClientIds
  <2>5. ShutdownAsks'
    BY <1>1, <1>a, <1>b DEF ShutdownAsks
  <2>6. RestartPending'
    BY <1>a, <2>t DEF RestartPending
  <2> QED BY <2>1, <2>2, <2>3, <2>4, <2>5, <2>6 DEF ClientInv
<1>2. CASE ~(operation.kind = "restart" /\ ~shuttingDown)
  <2>r. operation' = Idle /\ servers' = servers /\ shuttingDown
    BY <1>2, <1>a DEF StopResolves, Return
  <2>1. ClientTypeOK'
    BY <1>a, <2>r DEF ClientTypeOK, ClientIds
  <2>2. AwaitsInOrder'
    BY <2>r DEF AwaitsInOrder, Idle
  <2>3. StartIsFirst'
    BY <1>a, <1>b, <1>c DEF StartIsFirst, Queued
  <2>4. OneAnswers'
    BY <1>a, <1>d, <2>r DEF OneAnswers, Phase, ClientIds
  <2>5. ShutdownAsks'
    BY <1>a, <1>b, <2>r DEF ShutdownAsks
  <2>6. RestartPending'
    BY <1>a, <2>r DEF RestartPending
  <2> QED BY <2>1, <2>2, <2>3, <2>4, <2>5, <2>6 DEF ClientInv
<1> QED BY <1>1, <1>2

(* The server's own steps, from one phase after running to the next. *)
LEMMA SettledInv ==
  ASSUME ClientInv, NEW c \in ClientIds,
         settings' = settings, queue' = queue, operation' = operation,
         current' = current, shuttingDown' = shuttingDown,
         servers' \in Seq(Server), Len(servers') = Len(servers),
         DOMAIN servers' = DOMAIN servers,
         servers'[c].phase \in {"shutdown", "exited"},
         \A d \in DOMAIN servers : /\ servers'[d].settings = servers[d].settings
                                   /\ servers'[d].asked = servers[d].asked
                                   /\ d # c => servers'[d].phase = servers[d].phase
  PROVE  ClientInv'
<1> USE ClientAssumption DEF ClientInv
<1>b. \A k : Queued(k)' <=> Queued(k)
  BY DEF Queued
<1>1. ClientTypeOK'
  BY DEF ClientTypeOK, ClientIds, Kinds, Idle
<1>2. AwaitsInOrder'
  BY DEF AwaitsInOrder, ClientTypeOK, ClientIds, Idle
<1>3. StartIsFirst'
  BY DEF StartIsFirst
<1>4. OneAnswers'
  BY DEF OneAnswers, ClientIds, Phase
<1>5. ShutdownAsks'
  BY <1>b DEF ClientTypeOK, ClientIds, ShutdownAsks
<1>6. RestartPending'
  BY <1>b DEF RestartPending
<1> QED BY <1>1, <1>2, <1>3, <1>4, <1>5, <1>6 DEF ClientInv

LEMMA ServerStepInv ==
  ASSUME ClientInv, NEW c \in ClientIds, AnswersShutdown(c) \/ Exits(c)
  PROVE  ClientInv'
<1>1. ClientTypeOK
  BY DEF ClientInv
<1>2. CASE AnswersShutdown(c)
  BY <1>1, <1>2, PhaseStep, SettledInv DEF AnswersShutdown
<1>3. CASE Exits(c)
  BY <1>1, <1>3, PhaseStep, SettledInv DEF Exits
<1> QED BY <1>2, <1>3

-----------------------------------------------------------------------------
(* Theorems. *)

LEMMA ClientInvInit == ClientInit => ClientInv
<1> SUFFICES ASSUME ClientInit PROVE ClientInv
  OBVIOUS
<1>1. ClientTypeOK
  <2>1. servers \in Seq(Server) /\ queue \in Seq(Kinds)
    BY DEF ClientInit, Kinds
  <2> QED BY <2>1 DEF ClientInit, ClientTypeOK
<1>4. AwaitsInOrder /\ StartIsFirst /\ OneAnswers
  BY DEF ClientInit, AwaitsInOrder, StartIsFirst, OneAnswers, ClientIds
<1>2. ShutdownAsks
  BY DEF ClientInit, ShutdownAsks, Queued
<1>3. RestartPending
  BY DEF ClientInit, RestartPending, Queued
<1> QED BY <1>1, <1>2, <1>3, <1>4 DEF ClientInv

LEMMA ClientInvNext == ClientInv /\ [ClientNext]_clientVars => ClientInv'
<1> SUFFICES ASSUME ClientInv, [ClientNext]_clientVars PROVE ClientInv'
  OBVIOUS
<1>1. CASE SettingsChange
  BY <1>1, SettingsChangeInv
<1>2. CASE Deactivate
  BY <1>2, DeactivateInv
<1>3. CASE Operates
  BY <1>3, BeginStartInv, BeginRestartInv, BeginShutdownInv, StopResolvesInv, StopRejectsInv,
     StartResolvesInv, StartRejectsInv, MessageDismissedInv DEF Operates
<1>4. CASE \E c \in ClientIds : AnswersShutdown(c) \/ Exits(c)
  BY <1>4, ServerStepInv
<1>5. CASE UNCHANGED clientVars
  <2>1. /\ UNCHANGED <<settings, queue, operation, current, shuttingDown, servers>>
        /\ \A k : Queued(k)' <=> Queued(k)
    BY <1>5 DEF clientVars, Queued
  <2> QED BY <2>1 DEF ClientInv, ClientTypeOK, AwaitsInOrder, StartIsFirst, OneAnswers,
              Phase, ShutdownAsks, RestartPending, ClientIds
<1> QED BY <1>1, <1>2, <1>3, <1>4, <1>5 DEF ClientNext

(* Whatever the user, the promises and the server do, the client's state stays *)
(* of its type: an operation in progress is about a client that was started.   *)
THEOREM ClientIsTyped == ClientSpec => []ClientTypeOK
<1>1. ClientInv => ClientTypeOK
  BY DEF ClientInv
<1> QED BY ClientInvInit, ClientInvNext, <1>1, PTL DEF ClientSpec

(* However often the settings change and whichever stops and starts fail, no   *)
(* second server answers beside the current one, and no server runs on behind  *)
(* an extension that has shut down without having been asked to stop.          *)
THEOREM ServerIsReachable == ClientSpec => []ReachableServer
<1>1. ClientInv => ReachableServer
  <2> SUFFICES ASSUME ClientInv PROVE ReachableServer
    OBVIOUS
  <2>1. \A c \in ClientIds : Running(c) => c = current
    BY DEF ClientInv, OneAnswers, Phase, Running
  <2>2. ASSUME shuttingDown, operation = Idle, queue = <<>>, NEW c \in ClientIds,
               servers[c].phase \in {"starting", "running"}
        PROVE  servers[c].asked
    <3>1. ~Queued("shutdown")
      BY <2>2 DEF Queued
    <3>2. c = current /\ current # NoClient
      BY <2>2, ClientAssumption DEF ClientInv, OneAnswers, Phase, ClientIds, ClientTypeOK
    <3> QED BY <2>2, <3>1, <3>2 DEF ClientInv, ShutdownAsks
  <2> QED BY <2>1, <2>2 DEF ReachableServer
<1> QED BY ClientInvInit, ClientInvNext, <1>1, PTL DEF ClientSpec

(* When the queue has run dry the settings of now are the ones the last server *)
(* was started with, or its predecessor refused to stop, however many changes  *)
(* there were and wherever in an operation they fell.                          *)
THEOREM SettingsHaveEffect == ClientSpec => []SettingsTakeEffect
<1>1. ClientInv => SettingsTakeEffect
  <2> SUFFICES ASSUME ClientInv, queue = <<>>, ~shuttingDown
               PROVE  \/ servers[Len(servers)].settings = settings
                      \/ current = Len(servers) /\ servers[Len(servers)].asked
    BY DEF SettingsTakeEffect
  <2>1. ~Queued("restart") /\ ~Queued("start")
    BY DEF Queued
  <2> QED BY <2>1 DEF ClientInv, RestartPending
<1> QED BY ClientInvInit, ClientInvNext, <1>1, PTL DEF ClientSpec

-----------------------------------------------------------------------------
(* Sessions. *)

LEMMA SessionStep == [Next]_vars => [ClientNext]_clientVars
<1> SUFFICES ASSUME [Next]_vars PROVE [ClientNext]_clientVars
  OBVIOUS
<1>1. CASE Lifecycle
  BY <1>1 DEF Lifecycle, ClientNext
<1>2. ASSUME NEW c \in ClientIds, NEW op \in uses \ {"indexBuild"},
             Query(c, op) \/ QueryAfterShutdown(c, op)
      PROVE  UNCHANGED clientVars
  BY <1>2 DEF Query, QueryAfterShutdown, Answer
<1>3. ASSUME NEW c \in ClientIds, LoadIndex(c) \/ LoadEnds(c) PROVE UNCHANGED clientVars
  BY <1>3 DEF LoadIndex, LoadEnds, Answer
<1>4. ASSUME NEW c \in ClientIds, Shutdown(c) PROVE ClientNext
  BY <1>4 DEF Shutdown, ClientNext
<1>5. CASE UNCHANGED vars
  BY <1>5 DEF vars
<1> QED BY <1>1, <1>2, <1>3, <1>4, <1>5 DEF Next

(* A session refines the extension's queue: requests, loads and telemetry are *)
(* stutters of it, and a server's shutdown is the step the queue waits for.   *)
THEOREM SessionIsAClient == Spec => ClientSpec
<1>1. Init => ClientInit
  BY DEF Init
<1> QED BY <1>1, SessionStep, PTL DEF Spec, ClientSpec

(* In a session with requests, loads and their telemetry there is never a     *)
(* second server that answers, nor one left behind by the shutdown.           *)
THEOREM SessionHasOneServer == Spec => []ReachableServer
<1> QED BY SessionIsAClient, ServerIsReachable

(* In such a session no change of the settings is lost.                       *)
THEOREM SessionHasSettings == Spec => []SettingsTakeEffect
<1> QED BY SessionIsAClient, SettingsHaveEffect

-----------------------------------------------------------------------------
(* Numbers and orders. *)

LEMMA MinOfTwo ==
  ASSUME NEW a \in Nat, NEW b \in Nat
  PROVE  Min({a, b}) = IF a <= b THEN a ELSE b
<1>1. \E m \in {a, b} : \A y \in {a, b} : m <= y
  OBVIOUS
<1>2. Min({a, b}) \in {a, b} /\ \A y \in {a, b} : Min({a, b}) <= y
  BY <1>1, Zenon DEF Min
<1> QED BY <1>2

LEMMA MaxOfTwo ==
  ASSUME NEW a \in Nat, NEW b \in Nat
  PROVE  Max({a, b}) = IF a <= b THEN b ELSE a
<1>1. \E m \in {a, b} : \A y \in {a, b} : m >= y
  OBVIOUS
<1>2. Max({a, b}) \in {a, b} /\ \A y \in {a, b} : Max({a, b}) >= y
  BY <1>1, Zenon DEF Max
<1> QED BY <1>2

LEMMA FirstNumbers ==
  ASSUME NEW n \in Nat
  PROVE  IsFiniteSet(1 .. n) /\ Cardinality(1 .. n) = n
<1>1. 1 \in Int /\ n \in Int
  OBVIOUS
<1>2. IsFiniteSet(1 .. n) /\ Cardinality(1 .. n) = IF 1 > n THEN 0 ELSE n - 1 + 1
  BY ONLY <1>1, FS_Interval
<1> QED BY <1>2

(* The order of the samples: by value, and equal ones by place. *)
Precedes(s, j, i) == s[j] < s[i] \/ (s[j] = s[i] /\ j <= i)

Before(s, i) == {j \in DOMAIN s : Precedes(s, j, i)}

(* The number of the samples up to one is its place in that order. *)
LEMMA PlaceFacts ==
  ASSUME NEW s \in Seq(Nat)
  PROVE  /\ IsFiniteSet(DOMAIN s) /\ Cardinality(DOMAIN s) = Len(s)
         /\ \A i \in DOMAIN s :
              IsFiniteSet(Before(s, i)) /\ Cardinality(Before(s, i)) \in DOMAIN s
         /\ \A i, j \in DOMAIN s : i # j /\ Precedes(s, i, j) =>
              Cardinality(Before(s, i)) < Cardinality(Before(s, j))
<1>1. DOMAIN s = 1 .. Len(s) /\ Len(s) \in Nat /\ \A i \in DOMAIN s : s[i] \in Nat
  OBVIOUS
<1>2. IsFiniteSet(DOMAIN s) /\ Cardinality(DOMAIN s) = Len(s)
  BY <1>1, FirstNumbers
<1>3. ASSUME NEW i \in DOMAIN s
      PROVE  /\ IsFiniteSet(Before(s, i)) /\ Cardinality(Before(s, i)) \in DOMAIN s
  <2>1. Before(s, i) \subseteq DOMAIN s
    BY DEF Before
  <2>2. IsFiniteSet(Before(s, i)) /\ Cardinality(Before(s, i)) <= Len(s)
    BY <1>2, <2>1, FS_Subset
  <2>3. i \in Before(s, i)
    BY <1>1 DEF Before, Precedes
  <2>4. Cardinality(Before(s, i)) \in Nat
    BY <2>2, FS_CardinalityType
  <2>5. Cardinality(Before(s, i)) # 0
    BY <2>2, <2>3, FS_EmptySet
  <2> QED BY <1>1, <2>2, <2>4, <2>5
<1>4. ASSUME NEW i \in DOMAIN s, NEW j \in DOMAIN s, i # j, Precedes(s, i, j)
      PROVE  Cardinality(Before(s, i)) < Cardinality(Before(s, j))
  <2>1. s[i] \in Nat /\ s[j] \in Nat /\ i \in Nat /\ j \in Nat
    BY <1>1
  <2>2. Before(s, i) \subseteq Before(s, j)
    <3> SUFFICES ASSUME NEW k \in DOMAIN s, Precedes(s, k, i) PROVE Precedes(s, k, j)
      BY DEF Before
    <3>1. s[k] \in Nat /\ k \in Nat
      BY <1>1
    <3> QED BY <1>4, <2>1, <3>1 DEF Precedes
  <2>3. j \in Before(s, j) /\ j \notin Before(s, i)
    BY <1>4, <2>1 DEF Before, Precedes
  <2>4. Cardinality(Before(s, i)) <= Cardinality(Before(s, j))
        /\ Cardinality(Before(s, i)) # Cardinality(Before(s, j))
    BY <1>3, <2>2, <2>3, FS_Subset
  <2>5. Cardinality(Before(s, i)) \in Nat /\ Cardinality(Before(s, j)) \in Nat
    BY <1>1, <1>3
  <2> QED BY <2>4, <2>5
<1> QED BY <1>2, <1>3, <1>4

(* Samples can be sorted. *)
LEMMA SortedFacts ==
  ASSUME NEW s \in Seq(Nat)
  PROVE  \E order \in [DOMAIN s -> DOMAIN s] :
           /\ \A i, j \in DOMAIN s : order[i] = order[j] => i = j
           /\ \A i, j \in DOMAIN s : i < j => s[order[i]] <= s[order[j]]
           /\ Sorted(s) = [i \in DOMAIN s |-> s[order[i]]]
<1> DEFINE D == DOMAIN s
           place == [i \in D |-> Cardinality(Before(s, i))]
           order == [k \in D |-> CHOOSE i \in D : place[i] = k]
<1>1. D = 1 .. Len(s) /\ \A i \in D : s[i] \in Nat
  OBVIOUS
<1>2. place \in [D -> D]
  BY PlaceFacts
<1>3. \A i, j \in D : i # j /\ Precedes(s, i, j) => place[i] < place[j]
  BY PlaceFacts
<1>4. IsFiniteSet(D)
  BY PlaceFacts
<1> HIDE DEF D, place
<1>5. \A i, j \in D : i # j => place[i] # place[j]
  <2> SUFFICES ASSUME NEW i \in D, NEW j \in D, i # j PROVE place[i] # place[j]
    OBVIOUS
  <2>1. Precedes(s, i, j) \/ Precedes(s, j, i)
    BY <1>1 DEF Precedes
  <2>2. place[i] \in Nat /\ place[j] \in Nat
    BY <1>1, <1>2
  <2> QED BY <1>3, <2>1, <2>2
<1>8. ASSUME NEW k \in D PROVE \E i \in D : place[i] = k
  <2> SUFFICES ASSUME \A i \in D : place[i] # k PROVE FALSE
    OBVIOUS
  <2>1. place \in [D -> D \ {k}]
    BY <1>2
  <2>2. IsFiniteSet(D \ {k}) /\ Cardinality(D \ {k}) = Cardinality(D) - 1
    BY <1>4, FS_RemoveElement
  <2>3. Cardinality(D) \in Nat
    BY <1>4, FS_CardinalityType
  <2>4. Cardinality(D \ {k}) < Cardinality(D)
    BY <2>2, <2>3
  <2> QED BY <1>4, <1>5, <2>1, <2>2, <2>4, FS_PigeonHole
<1>9. \A k \in D : order[k] \in D /\ place[order[k]] = k
  BY <1>8
<1>9a. order \in [D -> D]
  BY <1>9
<1> HIDE DEF order
<1>10. \A i \in D : order[place[i]] = i
  BY <1>2, <1>5, <1>9
<1>12. ASSUME NEW i \in D, NEW j \in D, i < j PROVE s[order[i]] <= s[order[j]]
  <2> DEFINE a == order[i]
             b == order[j]
  <2>1. a \in D /\ b \in D /\ place[a] = i /\ place[b] = j
    BY <1>9
  <2> HIDE DEF a, b
  <2>2. i \in Nat /\ j \in Nat /\ s[a] \in Nat /\ s[b] \in Nat
    BY <1>1, <2>1
  <2>3. ~(b # a /\ Precedes(s, b, a))
    BY <1>3, <1>12, <2>1, <2>2
  <2>4. a # b
    BY <1>12, <2>1, <2>2
  <2>5. s[a] <= s[b]
    BY <2>2, <2>3, <2>4 DEF Precedes
  <2> QED BY <2>5 DEF a, b
<1> DEFINE Sorts(o) == \A i, j \in DOMAIN s : i < j =>
                         o[i] # o[j] /\ s[o[i]] <= s[o[j]]
           chosen == CHOOSE o \in [DOMAIN s -> DOMAIN s] : Sorts(o)
<1>13. \E o \in [DOMAIN s -> DOMAIN s] : Sorts(o)
  <2>1. ASSUME NEW i \in D, NEW j \in D, i < j PROVE order[i] # order[j]
    BY <1>1, <1>9, <2>1
  <2> QED BY <1>9a, <1>12, <2>1 DEF D
<1>14. chosen \in [DOMAIN s -> DOMAIN s] /\ Sorts(chosen)
  <2> HIDE DEF Sorts
  <2> QED BY <1>13, Zenon
<1>15. Sorted(s) = [i \in DOMAIN s |-> s[chosen[i]]]
  BY Zenon DEF Sorted
<1> HIDE DEF chosen
<1>16. \A i, j \in DOMAIN s : chosen[i] = chosen[j] => i = j
  <2> SUFFICES ASSUME NEW i \in DOMAIN s, NEW j \in DOMAIN s, i # j PROVE chosen[i] # chosen[j]
    OBVIOUS
  <2>1. i < j \/ j < i
    BY <1>1 DEF D
  <2> QED BY <1>14, <2>1
<1> QED BY <1>14, <1>15, <1>16

-----------------------------------------------------------------------------
(* The percentile of a sequence is a nearest rank of it. *)

RankOf(p, n) == Min({Max({1, (p * n + 99) \div 100}), n})

LEMMA RankFacts ==
  ASSUME NEW n \in Nat \ {0}, NEW p \in {50, 95, 99}
  PROVE  /\ RankOf(p, n) \in 1 .. n
         /\ RankOf(p, n) * 100 >= p * n
         /\ (RankOf(p, n) - 1) * 100 < p * n
<1> DEFINE rank == (p * n + 99) \div 100
<1>1. rank \in Nat /\ 100 * rank <= p * n + 99 /\ p * n + 99 < 100 * rank + 100
  <2>1. CASE p = 50
    BY <2>1
  <2>2. CASE p = 95
    BY <2>2
  <2>3. CASE p = 99
    BY <2>3
  <2> QED BY <2>1, <2>2, <2>3
<1> HIDE DEF rank
<1>2. 1 <= rank /\ rank <= n
  <2>1. CASE p = 50
    BY <1>1, <2>1
  <2>2. CASE p = 95
    BY <1>1, <2>2
  <2>3. CASE p = 99
    BY <1>1, <2>3
  <2> QED BY <2>1, <2>2, <2>3
<1>3. Max({1, rank}) = rank
  BY <1>1, <1>2, MaxOfTwo
<1>4. Min({rank, n}) = rank
  BY <1>1, <1>2, MinOfTwo
<1>5. rank \in 1 .. n /\ rank * 100 >= p * n /\ (rank - 1) * 100 < p * n
  BY <1>1, <1>2
<1> QED BY <1>3, <1>4, <1>5 DEF rank, RankOf

(* Of n numbered samples there are at most n. *)
LEMMA AtMostIsNat ==
  ASSUME NEW s \in Seq(Nat), NEW b \in Nat
  PROVE  AtMost(s, b) \in Nat /\ IsFiniteSet({i \in DOMAIN s : s[i] <= b})
<1>1. {i \in DOMAIN s : s[i] <= b} \subseteq DOMAIN s /\ IsFiniteSet(DOMAIN s)
  BY PlaceFacts
<1>2. IsFiniteSet({i \in DOMAIN s : s[i] <= b})
  BY ONLY <1>1, FS_Subset
<1> QED BY <1>2, FS_CardinalityType DEF AtMost

(* Of two finite sets that map into each other one to one. *)
LEMMA SameSize ==
  ASSUME NEW S, NEW T, IsFiniteSet(S), IsFiniteSet(T), NEW f \in [S -> T],
         \A x, y \in S : f[x] = f[y] => x = y, \A t \in T : \E x \in S : f[x] = t
  PROVE  Cardinality(S) = Cardinality(T)
<1> DEFINE g == [t \in T |-> CHOOSE x \in S : f[x] = t]
<1>1. \A t \in T : g[t] \in S /\ f[g[t]] = t
  OBVIOUS
<1>2. g \in [T -> S]
  BY <1>1
<1> HIDE DEF g
<1>3. \A x, y \in T : g[x] = g[y] => x = y
  BY <1>1
<1>4. ~(Cardinality(T) < Cardinality(S))
  BY FS_PigeonHole
<1>5. ~(Cardinality(S) < Cardinality(T))
  BY <1>2, <1>3, FS_PigeonHole
<1>6. Cardinality(S) \in Nat /\ Cardinality(T) \in Nat
  BY FS_CardinalityType
<1> QED BY <1>4, <1>5, <1>6

LEMMA ImageOfFirst ==
  ASSUME NEW D, IsFiniteSet(D), NEW n \in Nat, NEW f, \A i \in 1 .. n : f[i] \in D,
         \A i, j \in 1 .. n : f[i] = f[j] => i = j,
         NEW T, T = {f[i] : i \in 1 .. n}
  PROVE  IsFiniteSet(T) /\ Cardinality(T) = n
<1> DEFINE g == [i \in 1 .. n |-> f[i]]
<1>1. /\ g \in [1 .. n -> T]
      /\ \A x, y \in 1 .. n : g[x] = g[y] => x = y
      /\ \A t \in T : \E x \in 1 .. n : g[x] = t
  OBVIOUS
<1>2. T \subseteq D
  OBVIOUS
<1> HIDE DEF g
<1>3. IsFiniteSet(T)
  BY <1>2, FS_Subset
<1>4. IsFiniteSet(1 .. n) /\ Cardinality(1 .. n) = n
  BY FirstNumbers
<1>5. Cardinality(1 .. n) = Cardinality(T)
  BY <1>1, <1>3, <1>4, SameSize
<1> QED BY <1>3, <1>4, <1>5

(* What stands at the rank is the nearest-rank percentile. *)
LEMMA NearestRank ==
  ASSUME NEW s \in Seq(Nat), s # <<>>, NEW p \in {50, 95, 99}
  PROVE  IsPercentile(s, p, Percentile(s, p))
<1> DEFINE n == Len(s)
           D == DOMAIN s
           place == Min({Max({1, (p * n + 99) \div 100}), n})
<1>1. n \in Nat \ {0} /\ D = 1 .. n /\ \A i \in D : s[i] \in Nat
  OBVIOUS
<1>2. place \in 1 .. n /\ place * 100 >= p * n /\ (place - 1) * 100 < p * n
  <2>1. place = RankOf(p, n)
    BY DEF RankOf
  <2> HIDE DEF n, place
  <2>2. n \in Nat \ {0}
    BY <1>1
  <2>3. /\ RankOf(p, n) \in 1 .. n
        /\ RankOf(p, n) * 100 >= p * n
        /\ (RankOf(p, n) - 1) * 100 < p * n
    <3>1. CASE p = 50
      BY ONLY <2>2, <3>1, RankFacts
    <3>2. CASE p = 95
      BY ONLY <2>2, <3>2, RankFacts, Zenon
    <3>3. CASE p = 99
      BY ONLY <2>2, <3>3, RankFacts
    <3> QED BY <3>1, <3>2, <3>3
  <2> QED BY <2>1, <2>3
<1>3. PICK order \in [D -> D] :
        /\ \A i, j \in D : order[i] = order[j] => i = j
        /\ \A i, j \in D : i < j => s[order[i]] <= s[order[j]]
        /\ Sorted(s) = [i \in D |-> s[order[i]]]
  BY SortedFacts
<1>4. Percentile(s, p) = Sorted(s)[place]
  BY Zenon DEF Percentile
<1> HIDE DEF n, D, place
<1> DEFINE v == s[order[place]]
<1>5. place \in D /\ order[place] \in D /\ v \in Nat
  BY <1>1, <1>2, <1>3
<1>6. Percentile(s, p) = v
  BY <1>3, <1>4, <1>5
<1>6a. place \in Nat /\ p * n \in Nat
  BY <1>1, <1>2
<1>7. \A k \in D : \E i \in D : order[i] = k
  <2> SUFFICES ASSUME NEW k \in D, \A i \in D : order[i] # k PROVE FALSE
    OBVIOUS
  <2>0. IsFiniteSet(D)
    BY PlaceFacts DEF D
  <2>1. order \in [D -> D \ {k}]
    BY <1>3
  <2>2. IsFiniteSet(D \ {k}) /\ Cardinality(D \ {k}) = Cardinality(D) - 1
    BY <2>0, FS_RemoveElement
  <2>3. Cardinality(D) \in Nat
    BY <2>0, FS_CardinalityType
  <2>4. Cardinality(D \ {k}) < Cardinality(D)
    BY <2>2, <2>3
  <2> QED BY <1>3, <2>0, <2>1, <2>2, <2>4, FS_PigeonHole
<1>8. AtMost(s, v) >= place
  <2> DEFINE T == {order[i] : i \in 1 .. place}
             below == {i \in D : s[i] <= v}
  <2>1. \A i \in 1 .. place : order[i] \in D /\ i \in D
    BY <1>1, <1>2, <1>3
  <2>1a. \A i, j \in 1 .. place : order[i] = order[j] => i = j
    BY <1>3, <2>1
  <2>1b. IsFiniteSet(D)
    BY PlaceFacts DEF D
  <2>2. place \in Nat
    BY <1>1, <1>2
  <2>3. Cardinality(T) = place
    <3>1. T = {order[i] : i \in 1 .. place}
      OBVIOUS
    <3> HIDE DEF T
    <3> QED BY <2>1, <2>1a, <2>1b, <2>2, <3>1, ImageOfFirst
  <2>4. T \subseteq below
    <3> SUFFICES ASSUME NEW i \in 1 .. place PROVE s[order[i]] <= v
      BY <2>1
    <3>1. i = place \/ i < place
      BY <2>2
    <3>2. s[order[i]] \in Nat
      BY <1>1, <2>1
    <3> QED BY <1>3, <1>5, <2>1, <3>1, <3>2
  <2>5. IsFiniteSet(below) /\ AtMost(s, v) = Cardinality(below)
    <3> HIDE DEF v
    <3> QED BY <1>5, AtMostIsNat DEF AtMost, D
  <2> HIDE DEF T, below
  <2> QED BY <2>3, <2>4, <2>5, FS_Subset
<1>9. ASSUME NEW b \in Nat, b < v PROVE AtMost(s, b) <= place - 1
  <2> DEFINE T == {order[i] : i \in 1 .. place - 1}
             below == {i \in D : s[i] <= b}
  <2>1. \A i \in 1 .. place - 1 : order[i] \in D /\ i \in D
    BY <1>1, <1>2, <1>3
  <2>1a. \A i, j \in 1 .. place - 1 : order[i] = order[j] => i = j
    BY <1>3, <2>1
  <2>1b. IsFiniteSet(D)
    BY PlaceFacts DEF D
  <2>2. place - 1 \in Nat
    BY <1>1, <1>2
  <2>3. IsFiniteSet(T) /\ Cardinality(T) = place - 1
    <3>1. T = {order[i] : i \in 1 .. place - 1}
      OBVIOUS
    <3> HIDE DEF T
    <3> QED BY <2>1, <2>1a, <2>1b, <2>2, <3>1, ImageOfFirst
  <2>4. below \subseteq T
    <3> SUFFICES ASSUME NEW k \in D, s[k] <= b PROVE k \in T
      OBVIOUS
    <3>1. PICK i \in D : order[i] = k
      BY <1>7
    <3>2. s[k] \in Nat /\ s[k] < v
      <4>1. s[k] \in Nat
        BY <1>1
      <4> HIDE DEF v
      <4> QED BY <1>5, <1>9, <4>1
    <3>3. ~(place < i)
      BY <1>3, <1>5, <3>1, <3>2
    <3>4. i # place
      BY <1>5, <3>1, <3>2
    <3>5. i \in 1 .. place - 1
      BY <1>1, <1>2, <3>3, <3>4
    <3> QED BY <3>1, <3>5
  <2>5. AtMost(s, b) = Cardinality(below)
    BY DEF AtMost, D
  <2> HIDE DEF T, below
  <2> QED BY <2>3, <2>4, <2>5, FS_Subset
<1>10. AtMost(s, v) * 100 >= p * n
  <2>1. AtMost(s, v) \in Nat
    <3> HIDE DEF v
    <3> QED BY <1>5, AtMostIsNat
  <2> QED BY <1>2, <1>6a, <1>8, <2>1
<1>11. \A k \in D : s[k] < v => AtMost(s, s[k]) * 100 < p * n
  <2> SUFFICES ASSUME NEW k \in D, s[k] < v PROVE AtMost(s, s[k]) * 100 < p * n
    OBVIOUS
  <2>1. s[k] \in Nat
    BY <1>1
  <2>2. AtMost(s, s[k]) <= place - 1
    BY <1>9, <2>1
  <2>3. ASSUME NEW b \in Nat PROVE AtMost(s, b) \in Nat
    BY AtMostIsNat
  <2>4. AtMost(s, s[k]) \in Nat
    BY <2>1, <2>3
  <2> QED BY <1>2, <1>6a, <2>2, <2>4
<1>12. \E k \in D : s[k] = v
  BY <1>5
<1> QED BY <1>6, <1>10, <1>11, <1>12 DEF IsPercentile, D, n

(* The order of the samples makes no difference. *)
LEMMA Rearranged ==
  ASSUME NEW s \in Seq(Nat), NEW t \in Seq(Nat), NEW f \in [DOMAIN s -> DOMAIN t],
         \A x, y \in DOMAIN s : f[x] = f[y] => x = y,
         \A k \in DOMAIN t : \E x \in DOMAIN s : f[x] = k,
         \A x \in DOMAIN s : s[x] = t[f[x]],
         NEW p, NEW v \in Nat, IsPercentile(s, p, v)
  PROVE  IsPercentile(t, p, v)
<1>1. ASSUME NEW b \in Nat PROVE AtMost(s, b) = AtMost(t, b)
  <2> DEFINE S == {x \in DOMAIN s : s[x] <= b}
             T == {k \in DOMAIN t : t[k] <= b}
             g == [x \in S |-> f[x]]
  <2>1. IsFiniteSet(S) /\ IsFiniteSet(T)
    <3>1. S \subseteq DOMAIN s /\ T \subseteq DOMAIN t
      OBVIOUS
    <3> HIDE DEF S, T
    <3> QED BY <3>1, PlaceFacts, FS_Subset
  <2>2. g \in [S -> T]
    OBVIOUS
  <2>3. \A x, y \in S : g[x] = g[y] => x = y
    OBVIOUS
  <2>4. \A k \in T : \E x \in S : g[x] = k
    <3> SUFFICES ASSUME NEW k \in T PROVE \E x \in S : g[x] = k
      OBVIOUS
    <3>1. k \in DOMAIN t /\ t[k] <= b
      OBVIOUS
    <3>2. PICK x \in DOMAIN s : f[x] = k
      BY <3>1
    <3>3. x \in S
      BY <3>1, <3>2
    <3> QED BY <3>2, <3>3
  <2>5. AtMost(s, b) = Cardinality(S) /\ AtMost(t, b) = Cardinality(T)
    BY DEF AtMost
  <2> HIDE DEF S, T, g
  <2>6. Cardinality(S) = Cardinality(T)
    BY ONLY <2>1, <2>2, <2>3, <2>4, SameSize
  <2> QED BY <2>5, <2>6
<1>2. Len(s) = Len(t)
  <2>1. /\ IsFiniteSet(DOMAIN s) /\ Cardinality(DOMAIN s) = Len(s)
        /\ IsFiniteSet(DOMAIN t) /\ Cardinality(DOMAIN t) = Len(t)
    BY PlaceFacts
  <2>2. Cardinality(DOMAIN s) = Cardinality(DOMAIN t)
    BY <2>1, SameSize
  <2> QED BY <2>1, <2>2
<1>3. \E k \in DOMAIN t : t[k] = v
  <2>1. PICK x \in DOMAIN s : s[x] = v
    BY DEF IsPercentile
  <2> QED BY <2>1
<1>4. AtMost(t, v) * 100 >= p * Len(t)
  <2>1. AtMost(s, v) * 100 >= p * Len(s)
    BY DEF IsPercentile
  <2> QED BY <1>1, <1>2, <2>1
<1>5. ASSUME NEW k \in DOMAIN t, t[k] < v
      PROVE  AtMost(t, t[k]) * 100 < p * Len(t)
  <2>1. PICK x \in DOMAIN s : f[x] = k
    OBVIOUS
  <2>2. s[x] = t[k] /\ s[x] \in Nat
    BY <2>1
  <2>3. AtMost(s, s[x]) * 100 < p * Len(s)
    BY <1>5, <2>2 DEF IsPercentile
  <2>4. AtMost(s, s[x]) = AtMost(t, s[x])
    BY <1>1, <2>2
  <2> QED BY <1>2, <2>2, <2>3, <2>4
<1> QED BY <1>3, <1>4, <1>5 DEF IsPercentile

-----------------------------------------------------------------------------
(* The ring has the durations of the latest records. *)

(* The records are numbered; the place `next` is the oldest one's. *)
Ring(samples, next, n) ==
  /\ samples \in Seq(0 .. MaxMicros)
  /\ next \in 0 .. SampleWindow - 1
  /\ n < SampleWindow =>
       /\ Len(samples) = n
       /\ next = 0
       /\ \A i \in 1 .. n : samples[i] = Micros(i)
  /\ n >= SampleWindow =>
       /\ Len(samples) = SampleWindow
       /\ \A i \in 1 .. SampleWindow :
            samples[i] = Micros(IF i <= next THEN n - next + i ELSE n - next + i - SampleWindow)

LEMMA NextPlace ==
  ASSUME NEW w \in Nat \ {0}, NEW k \in 0 .. w - 1
  PROVE  (k + 1) % w = IF k + 1 = w THEN 0 ELSE k + 1
<1>1. \A m \in 0 .. w - 1 : m % w = m
  OBVIOUS
<1>2. w % w = 0
  OBVIOUS
<1> QED BY <1>1, <1>2

(* A sample more is the latest one. *)
LEMMA RingPushed ==
  ASSUME NEW samples, NEW next, NEW n \in Nat, Ring(samples, next, n),
         Micros(n + 1) \in 0 .. MaxMicros
  PROVE  /\ Len(samples) < SampleWindow => Ring(Append(samples, Micros(n + 1)), next, n + 1)
         /\ ~(Len(samples) < SampleWindow) =>
              Ring([samples EXCEPT ![next + 1] = Micros(n + 1)],
                   (next + 1) % SampleWindow, n + 1)
<1> DEFINE W == SampleWindow
           new == Micros(n + 1)
<1>1. W \in Nat \ {0} /\ samples \in Seq(0 .. MaxMicros) /\ next \in 0 .. W - 1
      /\ MaxMicros \in Nat
  BY TelemetryAssumption DEF Ring
<1>2. CASE n < W
  <2>1. Len(samples) = n /\ next = 0 /\ \A i \in 1 .. n : samples[i] = Micros(i)
    BY <1>2 DEF Ring
  <2> DEFINE more == Append(samples, new)
  <2>2. /\ more \in Seq(0 .. MaxMicros) /\ Len(more) = n + 1
        /\ \A i \in 1 .. n : more[i] = samples[i]
        /\ more[n + 1] = new
    BY <1>1, <2>1
  <2> HIDE DEF more
  <2>3. \A i \in 1 .. n + 1 : more[i] = Micros(i)
    BY <2>1, <2>2
  <2>4. n + 1 < W => Ring(more, next, n + 1)
    BY <1>1, <2>1, <2>2, <2>3 DEF Ring
  <2>5. ASSUME n + 1 = W PROVE Ring(more, next, n + 1)
    <3>1. \A i \in 1 .. W : ~(i <= next) /\ (n + 1) - next + i - W = i
      BY <1>1, <2>1, <2>5
    <3>2. \A i \in 1 .. W :
            more[i] = Micros(IF i <= next THEN (n + 1) - next + i ELSE (n + 1) - next + i - W)
      BY <2>3, <2>5, <3>1
    <3> QED BY <1>1, <2>2, <2>5, <3>2 DEF Ring
  <2>6. Ring(more, next, n + 1)
    BY <1>1, <1>2, <2>4, <2>5
  <2> QED BY <1>2, <2>1, <2>6 DEF more
<1>3. CASE ~(n < W)
  <2>1. Len(samples) = W
        /\ \A i \in 1 .. W :
             samples[i] = Micros(IF i <= next THEN n - next + i ELSE n - next + i - W)
    BY <1>1, <1>3 DEF Ring
  <2> DEFINE ring == [samples EXCEPT ![next + 1] = new]
             after == (next + 1) % W
  <2>2. next + 1 \in 1 .. W
    BY <1>1
  <2>3. after = IF next + 1 = W THEN 0 ELSE next + 1
    BY <1>1, NextPlace
  <2>4. /\ ring \in Seq(0 .. MaxMicros) /\ Len(ring) = W
        /\ \A i \in 1 .. W : ring[i] = IF i = next + 1 THEN new ELSE samples[i]
    BY <1>1, <2>1, <2>2
  <2> HIDE DEF ring, after
  <2>5. ASSUME NEW i \in 1 .. W
        PROVE  ring[i] = Micros(IF i <= after THEN (n + 1) - after + i
                                ELSE (n + 1) - after + i - W)
    <3> DEFINE k == IF i <= after THEN (n + 1) - after + i ELSE (n + 1) - after + i - W
               m == IF i <= next THEN n - next + i ELSE n - next + i - W
    <3>1. CASE i = next + 1
      <4>1. k = n + 1
        BY <1>1, <2>3, <3>1
      <4> HIDE DEF k
      <4>2. ring[i] = new
        BY <2>4, <3>1
      <4> QED BY <4>1, <4>2 DEF k
    <3>2. CASE i # next + 1
      <4>1. k = m
        BY <1>1, <2>3, <3>2
      <4>2. ring[i] = Micros(m)
        BY <2>1, <2>4, <3>2
      <4> QED BY <4>1, <4>2
    <3> QED BY <3>1, <3>2
  <2>6. after \in 0 .. W - 1 /\ n + 1 \in Nat /\ ~(n + 1 < W)
    BY <1>1, <1>3, <2>3
  <2>7. Ring(ring, after, n + 1)
    BY <2>4, <2>5, <2>6 DEF Ring
  <2> QED BY <1>1, <2>1, <2>7 DEF ring, after
<1> QED BY <1>2, <1>3

(* So the percentiles are those of the latest durations. *)
LEMMA RingPercentile ==
  ASSUME NEW samples, NEW next, NEW n \in Nat \ {0}, Ring(samples, next, n), NEW p \in {50, 95, 99}
  PROVE  IsPercentile(Recent(n), p, Percentile(samples, p))
<1> DEFINE W == SampleWindow
           m == IF n < W THEN n ELSE W
           t == Recent(n)
           f == [i \in 1 .. m |-> IF n < W THEN n + 1 - i
                                  ELSE IF i <= next THEN next + 1 - i ELSE next + 1 - i + W]
<1>1. W \in Nat \ {0} /\ samples \in Seq(0 .. MaxMicros) /\ next \in 0 .. W - 1
      /\ MaxMicros \in Nat /\ m \in Nat \ {0} /\ m <= n
  BY TelemetryAssumption DEF Ring
<1>2. Len(samples) = m /\ samples \in Seq(Nat) /\ samples # <<>>
  <2>1. Len(samples) = m
    BY <1>1 DEF Ring
  <2>2. DOMAIN samples = 1 .. m /\ \A i \in DOMAIN samples : samples[i] \in Nat
    BY <1>1, <2>1
  <2> QED BY <1>1, <2>1, <2>2
<1>3. DOMAIN samples = 1 .. m
  BY <1>1, <1>2
<1>4. t = [k \in 1 .. m |-> Micros(n + 1 - k)]
  BY DEF Recent
<1>5. \A i \in 1 .. m : f[i] \in 1 .. m /\ f[f[i]] = i
  <2> SUFFICES ASSUME NEW i \in 1 .. m PROVE f[i] \in 1 .. m /\ f[f[i]] = i
    OBVIOUS
  <2>1. CASE n < W
    BY <1>1, <2>1
  <2>2. CASE ~(n < W)
    <3>1. m = W
      BY <2>2
    <3>2. CASE i <= next
      <4>1. f[i] = next + 1 - i
        BY <2>2, <3>2
      <4>2. next + 1 - i \in 1 .. m /\ next + 1 - i <= next
        BY <1>1, <3>1, <3>2
      <4>3. f[next + 1 - i] = next + 1 - (next + 1 - i)
        BY <2>2, <4>2
      <4> QED BY <1>1, <4>1, <4>2, <4>3
    <3>3. CASE ~(i <= next)
      <4>1. f[i] = next + 1 - i + W
        BY <2>2, <3>3
      <4>2. next + 1 - i + W \in 1 .. m /\ ~(next + 1 - i + W <= next)
        BY <1>1, <3>1, <3>3
      <4>3. f[next + 1 - i + W] = next + 1 - (next + 1 - i + W) + W
        BY <2>2, <4>2
      <4> QED BY <1>1, <4>1, <4>2, <4>3
    <3> QED BY <3>2, <3>3
  <2> QED BY <2>1, <2>2
<1>6. \A i \in 1 .. m : samples[i] = Micros(n + 1 - f[i])
  <2> SUFFICES ASSUME NEW i \in 1 .. m PROVE samples[i] = Micros(n + 1 - f[i])
    OBVIOUS
  <2>1. CASE n < W
    <3>1. n + 1 - f[i] = i
      BY <1>1, <2>1
    <3>2. samples[i] = Micros(i)
      BY <2>1 DEF Ring
    <3> QED BY <3>1, <3>2
  <2>2. CASE ~(n < W)
    <3>1. n + 1 - f[i] = IF i <= next THEN n - next + i ELSE n - next + i - W
      BY <1>1, <2>2
    <3>2. samples[i] = Micros(IF i <= next THEN n - next + i ELSE n - next + i - W)
      BY <1>1, <2>2 DEF Ring
    <3> QED BY <3>1, <3>2
  <2> QED BY <2>1, <2>2
<1> HIDE DEF m, t, f, W
<1>7. f \in [1 .. m -> 1 .. m]
  BY <1>5 DEF f
<1>8. DOMAIN t = 1 .. m /\ \A i \in 1 .. m : samples[i] = t[f[i]]
  BY <1>4, <1>5, <1>6
<1>9. t \in Seq(Nat)
  <2>1. \A k \in 1 .. m : t[k] \in Nat
    <3> SUFFICES ASSUME NEW k \in 1 .. m PROVE t[k] \in Nat
      OBVIOUS
    <3>1. f[k] \in 1 .. m /\ f[f[k]] = k
      BY <1>5
    <3>2. t[k] = samples[f[k]]
      BY <1>8, <3>1
    <3> QED BY <1>2, <1>3, <3>1, <3>2
  <2>2. t \in [1 .. m -> Nat] /\ m \in Nat
    BY <1>1, <1>4, <2>1
  <2> QED BY <2>2
<1>10. IsPercentile(samples, p, Percentile(samples, p))
  BY <1>2, NearestRank
<1>11. Percentile(samples, p) \in Nat
  <2>1. PICK k \in DOMAIN samples : samples[k] = Percentile(samples, p)
    BY <1>10 DEF IsPercentile
  <2> QED BY <1>2, <2>1
<1>12. \A x, y \in 1 .. m : f[x] = f[y] => x = y
  BY <1>5
<1>13. \A k \in 1 .. m : \E x \in 1 .. m : f[x] = k
  BY <1>5
<1>14. IsPercentile(t, p, Percentile(samples, p))
  <2>1. /\ f \in [DOMAIN samples -> DOMAIN t]
        /\ \A x, y \in DOMAIN samples : f[x] = f[y] => x = y
        /\ \A k \in DOMAIN t : \E x \in DOMAIN samples : f[x] = k
        /\ \A x \in DOMAIN samples : samples[x] = t[f[x]]
    BY <1>3, <1>7, <1>8, <1>12, <1>13
  <2>2. samples \in Seq(Nat)
    BY <1>2
  <2> DEFINE v == Percentile(samples, p)
  <2>3. v \in Nat /\ IsPercentile(samples, p, v)
    BY <1>10, <1>11
  <2> HIDE DEF v
  <2>4. IsPercentile(t, p, v)
    BY ONLY <2>1, <2>2, <2>3, <1>9, Rearranged
  <2> QED BY <2>4 DEF v
<1> QED BY <1>14 DEF t

-----------------------------------------------------------------------------
(* What a record adds to the counters. *)

Stats ==
  [total : Nat, answered : Nat, truncated : Nat, withheld : Int,
   empty : [EmptyReasons -> Nat], failed : [Failures -> Nat],
   cancelled : Nat, stale : Nat, samples : Seq(0 .. MaxMicros), next : Nat]

Outcomes ==
  [kind : {"Answered"}, returned : Nat, total : Nat]
    \union [kind : {"Empty"}, reason : EmptyReasons]
    \union [kind : {"Failed"}, failure : Failures]
    \union {Cancelled}

FailedSum(stats) ==
  stats.failed["Io"] + stats.failed["Panic"] + stats.failed["BadRequest"]
    + stats.failed["IndexUnavailable"]

One(condition) == IF condition THEN 1 ELSE 0

LEMMA Pushed ==
  ASSUME NEW stats \in Stats, Ring(stats.samples, stats.next, stats.total),
         Micros(stats.total + 1) \in 0 .. MaxMicros
  PROVE  LET timed == PushSample([stats EXCEPT !.total = @ + 1], Micros(stats.total + 1))
         IN  /\ timed \in Stats
             /\ Ring(timed.samples, timed.next, timed.total)
             /\ timed.total = stats.total + 1
             /\ timed.answered = stats.answered
             /\ timed.truncated = stats.truncated
             /\ timed.empty = stats.empty
             /\ timed.failed = stats.failed
             /\ timed.cancelled = stats.cancelled
             /\ timed.stale = stats.stale
<1> DEFINE micros == Micros(stats.total + 1)
           counted == [stats EXCEPT !.total = @ + 1]
           timed == PushSample(counted, micros)
<1>2. stats.total \in Nat /\ stats.total + 1 \in Nat
  BY DEF Stats
<1>0. counted \in Stats
  BY <1>2 DEF Stats
<1>1. /\ counted \in Stats
      /\ counted.total = stats.total + 1 /\ counted.samples = stats.samples
      /\ counted.next = stats.next
      /\ counted.answered = stats.answered /\ counted.truncated = stats.truncated
      /\ counted.empty = stats.empty /\ counted.failed = stats.failed
      /\ counted.cancelled = stats.cancelled /\ counted.stale = stats.stale
  BY <1>0 DEF Stats
<1> DEFINE full == ~(Len(stats.samples) < SampleWindow)
           samples == IF full THEN [stats.samples EXCEPT ![stats.next + 1] = micros]
                      ELSE Append(stats.samples, micros)
           next == IF full THEN (stats.next + 1) % SampleWindow ELSE stats.next
<1>3. Ring(samples, next, stats.total + 1)
  BY <1>2, RingPushed
<1>4. samples \in Seq(0 .. MaxMicros) /\ next \in Nat
  BY <1>3, TelemetryAssumption DEF Ring
<1> HIDE DEF samples, next, micros, counted
<1>5. timed = [counted EXCEPT !.samples = samples, !.next = next]
  <2>1. CASE full
    BY <1>1, <2>1 DEF PushSample, samples, next, Stats
  <2>2. CASE ~full
    BY <1>1, <2>2 DEF PushSample, samples, next, Stats
  <2> QED BY <2>1, <2>2
<1> HIDE DEF timed
<1>6. /\ timed \in Stats
      /\ timed.samples = samples /\ timed.next = next
      /\ timed.total = counted.total
      /\ timed.answered = counted.answered /\ timed.truncated = counted.truncated
      /\ timed.empty = counted.empty /\ timed.failed = counted.failed
      /\ timed.cancelled = counted.cancelled /\ timed.stale = counted.stale
  BY <1>1, <1>4, <1>5 DEF Stats
<1> QED BY <1>1, <1>3, <1>6 DEF timed, counted, micros

LEMMA Counted ==
  ASSUME NEW stats \in Stats, NEW outcome \in Outcomes
  PROVE  LET new == Count(stats, outcome)
         IN  /\ new \in Stats
             /\ new.total = stats.total /\ new.stale = stats.stale
             /\ new.samples = stats.samples /\ new.next = stats.next
             /\ new.answered = stats.answered + One(outcome.kind = "Answered")
             /\ new.truncated = stats.truncated
                  + One(outcome.kind = "Answered" /\ outcome.returned < outcome.total)
             /\ new.cancelled = stats.cancelled + One(outcome.kind = "Cancelled")
             /\ FailedSum(new) = FailedSum(stats) + One(outcome.kind = "Failed")
             /\ \A r \in EmptyReasons :
                  new.empty[r] = stats.empty[r] + One(outcome.kind = "Empty" /\ outcome.reason = r)
<1> DEFINE new == Count(stats, outcome)
<1>0. stats.failed \in [Failures -> Nat] /\ stats.empty \in [EmptyReasons -> Nat]
  BY DEF Stats
<1>a. /\ stats.answered \in Nat /\ stats.truncated \in Nat /\ stats.withheld \in Int
      /\ stats.cancelled \in Nat
  BY DEF Stats
<1>b. FailedSum(stats) \in Nat
  BY <1>0 DEF FailedSum, Failures
<1>1. CASE outcome \in [kind : {"Answered"}, returned : Nat, total : Nat]
  <2>1. outcome.kind = "Answered" /\ outcome.returned \in Nat /\ outcome.total \in Nat
    BY <1>1
  <2>2. new = [stats EXCEPT !.answered = @ + 1,
                       !.truncated = IF outcome.returned < outcome.total THEN @ + 1 ELSE @,
                       !.withheld = @ + outcome.total - outcome.returned]
    BY <2>1 DEF Count
  <2> DEFINE truncated == IF outcome.returned < outcome.total THEN stats.truncated + 1
                          ELSE stats.truncated
             withheld == stats.withheld + outcome.total - outcome.returned
  <2>3. stats.answered + 1 \in Nat /\ truncated \in Nat /\ withheld \in Int
    BY <1>a, <2>1
  <2>4. new = [stats EXCEPT !.answered = stats.answered + 1, !.truncated = truncated,
                            !.withheld = withheld]
    BY <2>2
  <2>5. truncated = stats.truncated + One(outcome.kind = "Answered" /\ outcome.returned < outcome.total)
    BY <1>a, <2>1 DEF One
  <2> HIDE DEF new, truncated, withheld
  <2>6. new \in Stats
    BY <2>3, <2>4 DEF Stats
  <2>7. /\ new.total = stats.total /\ new.stale = stats.stale
        /\ new.samples = stats.samples /\ new.next = stats.next
        /\ new.answered = stats.answered + 1 /\ new.truncated = truncated
        /\ new.cancelled = stats.cancelled /\ new.failed = stats.failed
        /\ new.empty = stats.empty
    BY <2>4 DEF Stats
  <2> QED BY <1>0, <1>a, <1>b, <2>1, <2>5, <2>6, <2>7 DEF One, FailedSum, new
<1>2. CASE outcome \in [kind : {"Empty"}, reason : EmptyReasons]
  <2>1. outcome.kind = "Empty" /\ outcome.reason \in EmptyReasons
    BY <1>2
  <2>2. new = [stats EXCEPT !.empty[outcome.reason] = @ + 1]
    BY <2>1 DEF Count
  <2>3. new.empty = [stats.empty EXCEPT ![outcome.reason] = @ + 1]
        /\ new.empty \in [EmptyReasons -> Nat]
    BY <1>0, <2>1, <2>2 DEF Stats
  <2>4. \A r \in EmptyReasons :
          new.empty[r] = stats.empty[r] + One(outcome.kind = "Empty" /\ outcome.reason = r)
    BY <1>0, <2>1, <2>3 DEF One
  <2> HIDE DEF new
  <2>5. new \in Stats
    BY <2>2, <2>3 DEF Stats
  <2>6. /\ new.total = stats.total /\ new.stale = stats.stale
        /\ new.samples = stats.samples /\ new.next = stats.next
        /\ new.answered = stats.answered /\ new.truncated = stats.truncated
        /\ new.cancelled = stats.cancelled /\ new.failed = stats.failed
    BY <2>2 DEF Stats
  <2> QED BY <1>a, <1>b, <2>1, <2>4, <2>5, <2>6 DEF One, FailedSum, new
<1>3. CASE outcome \in [kind : {"Failed"}, failure : Failures]
  <2>1. outcome.kind = "Failed" /\ outcome.failure \in Failures
    BY <1>3
  <2>2. new = [stats EXCEPT !.failed[outcome.failure] = @ + 1]
    BY <2>1 DEF Count
  <2>3. new.failed = [stats.failed EXCEPT ![outcome.failure] = @ + 1]
        /\ new.failed \in [Failures -> Nat]
    BY <1>0, <2>1, <2>2 DEF Stats
  <2>4. FailedSum(new) = FailedSum(stats) + One(outcome.kind = "Failed")
    BY <1>0, <2>1, <2>3 DEF One, FailedSum, Failures
  <2> HIDE DEF new
  <2>5. new \in Stats
    BY <2>2, <2>3 DEF Stats
  <2>6. /\ new.total = stats.total /\ new.stale = stats.stale
        /\ new.samples = stats.samples /\ new.next = stats.next
        /\ new.answered = stats.answered /\ new.truncated = stats.truncated
        /\ new.cancelled = stats.cancelled /\ new.empty = stats.empty
    BY <2>2 DEF Stats
  <2> QED BY <1>0, <1>a, <2>1, <2>4, <2>5, <2>6 DEF One, new
<1>4. CASE outcome = Cancelled
  <2>1. outcome.kind = "Cancelled"
    BY <1>4 DEF Cancelled
  <2>2. new = [stats EXCEPT !.cancelled = @ + 1]
    BY <2>1 DEF Count
  <2>3. stats.cancelled + 1 \in Nat
    BY <1>a
  <2> HIDE DEF new
  <2>4. new \in Stats
    BY <2>2, <2>3 DEF Stats
  <2>5. /\ new.total = stats.total /\ new.stale = stats.stale
        /\ new.samples = stats.samples /\ new.next = stats.next
        /\ new.answered = stats.answered /\ new.truncated = stats.truncated
        /\ new.cancelled = stats.cancelled + 1 /\ new.failed = stats.failed
        /\ new.empty = stats.empty
    BY <2>2 DEF Stats
  <2> QED BY <1>0, <1>a, <1>b, <2>1, <2>4, <2>5 DEF One, FailedSum, new
<1> QED BY <1>1, <1>2, <1>3, <1>4 DEF Outcomes

(* A record adds one to the total, and to the counter of its outcome. *)
LEMMA RecordFacts ==
  ASSUME NEW stats \in Stats, Ring(stats.samples, stats.next, stats.total),
         NEW stale \in BOOLEAN, NEW outcome \in Outcomes, NEW op,
         Durations[stats.total + 1] \in Nat
  PROVE  LET new == Record(stats, [op |-> op, stale |-> stale,
                                   duration |-> Durations[stats.total + 1], outcome |-> outcome])
         IN  /\ new \in Stats
             /\ Ring(new.samples, new.next, new.total)
             /\ new.total = stats.total + 1
             /\ new.stale = stats.stale + One(stale)
             /\ new.answered = stats.answered + One(outcome.kind = "Answered")
             /\ new.truncated = stats.truncated
                  + One(outcome.kind = "Answered" /\ outcome.returned < outcome.total)
             /\ new.cancelled = stats.cancelled + One(outcome.kind = "Cancelled")
             /\ FailedSum(new) = FailedSum(stats) + One(outcome.kind = "Failed")
             /\ \A r \in EmptyReasons :
                  new.empty[r] = stats.empty[r] + One(outcome.kind = "Empty" /\ outcome.reason = r)
<1> DEFINE duration == Durations[stats.total + 1]
           record == [op |-> op, stale |-> stale, duration |-> duration, outcome |-> outcome]
           new == Record(stats, record)
           timed == PushSample([stats EXCEPT !.total = @ + 1], Min({duration, MaxMicros}))
           staled == IF stale THEN [timed EXCEPT !.stale = @ + 1] ELSE timed
<1>1. new = Count(staled, outcome)
  BY Zenon DEF Record
<1>2. Min({duration, MaxMicros}) = Micros(stats.total + 1)
      /\ Micros(stats.total + 1) \in 0 .. MaxMicros
  <2>1. MaxMicros \in Nat /\ duration \in Nat
    BY TelemetryAssumption
  <2>2. Min({duration, MaxMicros}) = IF duration <= MaxMicros THEN duration ELSE MaxMicros
    BY <2>1, MinOfTwo
  <2> QED BY <2>1, <2>2 DEF Micros
<1>3. timed = PushSample([stats EXCEPT !.total = @ + 1], Micros(stats.total + 1))
  BY <1>2
<1> HIDE DEF timed, new
<1>4. /\ timed \in Stats
      /\ Ring(timed.samples, timed.next, timed.total)
      /\ timed.total = stats.total + 1
      /\ timed.answered = stats.answered
      /\ timed.truncated = stats.truncated
      /\ timed.empty = stats.empty
      /\ timed.failed = stats.failed
      /\ timed.cancelled = stats.cancelled
      /\ timed.stale = stats.stale
  BY <1>2, <1>3, Pushed
<1>5. /\ staled \in Stats
      /\ staled.samples = timed.samples /\ staled.next = timed.next
      /\ staled.total = timed.total
      /\ staled.answered = timed.answered
      /\ staled.truncated = timed.truncated
      /\ staled.empty = timed.empty
      /\ staled.failed = timed.failed
      /\ staled.cancelled = timed.cancelled
      /\ staled.stale = timed.stale + One(stale)
  <2>1. timed.stale \in Nat /\ timed.stale + 1 \in Nat
    BY <1>4 DEF Stats
  <2>2. CASE stale
    <3>1. staled = [timed EXCEPT !.stale = timed.stale + 1]
      BY <2>2
    <3> HIDE DEF staled
    <3>2. staled \in Stats
      BY <1>4, <2>1, <3>1 DEF Stats
    <3> QED BY <1>4, <2>2, <3>1, <3>2 DEF Stats, One
  <2>3. CASE ~stale
    BY <1>4, <2>1, <2>3 DEF One
  <2> QED BY <2>2, <2>3
<1> HIDE DEF staled
<1>6. FailedSum(staled) = FailedSum(stats)
  BY <1>4, <1>5 DEF FailedSum
<1>7. /\ new \in Stats
      /\ new.total = staled.total /\ new.stale = staled.stale
      /\ new.samples = staled.samples /\ new.next = staled.next
      /\ new.answered = staled.answered + One(outcome.kind = "Answered")
      /\ new.truncated = staled.truncated
           + One(outcome.kind = "Answered" /\ outcome.returned < outcome.total)
      /\ new.cancelled = staled.cancelled + One(outcome.kind = "Cancelled")
      /\ FailedSum(new) = FailedSum(staled) + One(outcome.kind = "Failed")
      /\ \A r \in EmptyReasons :
           new.empty[r] = staled.empty[r] + One(outcome.kind = "Empty" /\ outcome.reason = r)
  BY <1>1, <1>5, Counted
<1> QED BY <1>4, <1>5, <1>6, <1>7 DEF new

-----------------------------------------------------------------------------
(* What a reply adds to the replies. *)

LEMMA OneMore ==
  ASSUME NEW A, NEW B, NEW x, IsFiniteSet(A), x \notin A, A = B \ {x}
  PROVE  Cardinality(A) \in Nat /\ Cardinality(B) = Cardinality(A) + One(x \in B)
<1>1. Cardinality(A) \in Nat
  BY FS_CardinalityType
<1>2. CASE x \in B
  <2>1. B = A \cup {x}
    BY <1>2
  <2> QED BY <1>1, <1>2, <2>1, FS_AddElement DEF One
<1>3. CASE x \notin B
  <2>1. B = A
    BY <1>3
  <2> QED BY <1>1, <1>3, <2>1 DEF One
<1> QED BY <1>2, <1>3

LEMMA ReplyAdded ==
  ASSUME NEW R, IsFiniteSet(R), NEW x, x \notin R
  PROVE  LET all == R \union {x}
             ok == x.kind = "ok"
         IN  /\ Cardinality(R) \in Nat /\ Cardinality(all) = Cardinality(R) + 1
             /\ Cardinality(Listed(all)) = Cardinality(Listed(R)) + One(ok /\ x.count > 0)
             /\ Cardinality(Nothing(all)) = Cardinality(Nothing(R)) + One(ok /\ x.count = 0)
             /\ Cardinality(GivenUp(all)) = Cardinality(GivenUp(R)) + One(IsGivenUp(x))
             /\ Cardinality(Errors(all)) = Cardinality(Errors(R)) + One(~ok /\ ~IsGivenUp(x))
             /\ Cardinality(Late(all)) = Cardinality(Late(R))
                  + One(~ok /\ ~IsGivenUp(x) /\ x.kind = "ContentModified")
             /\ Cardinality(Short(all)) = Cardinality(Short(R))
                  + One(/\ ok /\ x.count > 0
                        /\ x.op \in {"workspaceSymbol", "findReferences"}
                        /\ x.count < x.exist)
<1> DEFINE all == R \union {x}
           ok == x.kind = "ok"
<1>1. ASSUME NEW A, NEW B, A \subseteq R, A = B \ {x}
      PROVE  Cardinality(B) = Cardinality(A) + One(x \in B)
  <2>1. IsFiniteSet(A) /\ x \notin A
    BY <1>1, FS_Subset
  <2> QED BY <1>1, <2>1, OneMore
<1>2. Cardinality(R) \in Nat /\ Cardinality(all) = Cardinality(R) + 1
  BY FS_CardinalityType, FS_AddElement
<1>3. Cardinality(Listed(all)) = Cardinality(Listed(R)) + One(ok /\ x.count > 0)
  <2>1. Listed(R) \subseteq R /\ Listed(R) = Listed(all) \ {x}
        /\ (x \in Listed(all) <=> ok /\ x.count > 0)
    BY DEF Listed
  <2>2. Cardinality(Listed(all)) = Cardinality(Listed(R)) + One(x \in Listed(all))
    BY <1>1, <2>1
  <2> QED BY <2>1, <2>2 DEF One
<1>4. Cardinality(Nothing(all)) = Cardinality(Nothing(R)) + One(ok /\ x.count = 0)
  <2>1. Nothing(R) \subseteq R /\ Nothing(R) = Nothing(all) \ {x}
        /\ (x \in Nothing(all) <=> ok /\ x.count = 0)
    BY DEF Nothing
  <2>2. Cardinality(Nothing(all)) = Cardinality(Nothing(R)) + One(x \in Nothing(all))
    BY <1>1, <2>1
  <2> QED BY <2>1, <2>2 DEF One
<1>5. Cardinality(GivenUp(all)) = Cardinality(GivenUp(R)) + One(IsGivenUp(x))
  <2>1. GivenUp(R) \subseteq R /\ GivenUp(R) = GivenUp(all) \ {x}
        /\ (x \in GivenUp(all) <=> IsGivenUp(x))
    BY DEF GivenUp
  <2>2. Cardinality(GivenUp(all)) = Cardinality(GivenUp(R)) + One(x \in GivenUp(all))
    BY <1>1, <2>1
  <2> QED BY <2>1, <2>2 DEF One
<1>6. Cardinality(Errors(all)) = Cardinality(Errors(R)) + One(~ok /\ ~IsGivenUp(x))
  <2>1. Errors(R) \subseteq R /\ Errors(R) = Errors(all) \ {x}
        /\ (x \in Errors(all) <=> ~ok /\ ~IsGivenUp(x))
    BY DEF Errors
  <2>2. Cardinality(Errors(all)) = Cardinality(Errors(R)) + One(x \in Errors(all))
    BY <1>1, <2>1
  <2> QED BY <2>1, <2>2 DEF One
<1>7. Cardinality(Late(all)) = Cardinality(Late(R))
        + One(~ok /\ ~IsGivenUp(x) /\ x.kind = "ContentModified")
  <2>1. Late(R) \subseteq R /\ Late(R) = Late(all) \ {x}
        /\ (x \in Late(all) <=> ~ok /\ ~IsGivenUp(x) /\ x.kind = "ContentModified")
    BY DEF Late, Errors
  <2>2. Cardinality(Late(all)) = Cardinality(Late(R)) + One(x \in Late(all))
    BY <1>1, <2>1
  <2> QED BY <2>1, <2>2 DEF One
<1>8. Cardinality(Short(all)) = Cardinality(Short(R))
        + One(/\ ok /\ x.count > 0
              /\ x.op \in {"workspaceSymbol", "findReferences"}
              /\ x.count < x.exist)
  <2>1. Short(R) \subseteq R /\ Short(R) = Short(all) \ {x}
        /\ (x \in Short(all) <=> /\ ok /\ x.count > 0
                                 /\ x.op \in {"workspaceSymbol", "findReferences"}
                                 /\ x.count < x.exist)
    BY DEF Short, Listed
  <2>2. Cardinality(Short(all)) = Cardinality(Short(R)) + One(x \in Short(all))
    BY <1>1, <2>1
  <2> QED BY <2>1, <2>2 DEF One
<1> QED BY <1>2, <1>3, <1>4, <1>5, <1>6, <1>7, <1>8

-----------------------------------------------------------------------------
(* A guard and a reply that say the same, and counters that count replies. *)

ReasonOf(op) == IF op = "documentSymbol" THEN "FileNotIndexed" ELSE "NoMatch"

Limited(op) == op \in {"workspaceSymbol", "findReferences"}

(* What the guard of a handler that has sent this reply says of it. *)
Says(guard, reply) ==
  LET outcome == guard.outcome
  IN  /\ guard.op = reply.op /\ guard.stale \in BOOLEAN
      /\ outcome \in Outcomes \/ outcome = [kind |-> "none"]
      /\ reply.kind \in ReplyKinds \ {"InvalidRequest", "Busy"}
      /\ reply.kind = "ok" /\ reply.count > 0 =>
           /\ outcome.kind = "Answered" /\ ~guard.stale
           /\ outcome.returned < outcome.total <=> Limited(reply.op) /\ reply.count < reply.exist
      /\ reply.kind = "ok" /\ reply.count = 0 =>
           outcome = Empty(ReasonOf(reply.op)) /\ ~guard.stale
      /\ IsGivenUp(reply) => outcome = Cancelled /\ ~guard.stale
      /\ reply.kind # "ok" /\ ~IsGivenUp(reply) =>
           /\ outcome.kind \in {"Failed", "none"}
           /\ guard.stale <=> reply.kind = "ContentModified"

(* The counters are the numbers of the replies they are about. *)
Tallies(stats, op, replies) ==
  /\ stats \in Stats
  /\ Ring(stats.samples, stats.next, stats.total)
  /\ stats.total = Cardinality(replies)
  /\ stats.answered = Cardinality(Listed(replies))
  /\ stats.truncated = Cardinality(Short(replies))
  /\ stats.cancelled = Cardinality(GivenUp(replies))
  /\ stats.stale = Cardinality(Late(replies))
  /\ FailedSum(stats) = Cardinality(Errors(replies))
  /\ \A r \in EmptyReasons :
       stats.empty[r] = IF r = ReasonOf(op) THEN Cardinality(Nothing(replies)) ELSE 0

(* A record and a reply that say the same keep that. *)
LEMMA TallyKept ==
  ASSUME NEW op, NEW stats, NEW R, IsFiniteSet(R), Tallies(stats, op, R),
         NEW guard, NEW x, x \notin R, x.op = op, Says(guard, x),
         x.count \in Nat, x.exist \in Nat,
         Durations[stats.total + 1] \in Nat
  PROVE  Tallies(Record(stats, Dropped(guard, Durations[stats.total + 1])), op, R \union {x})
<1> DEFINE duration == Durations[stats.total + 1]
           outcome == IF guard.outcome.kind = "none" THEN Failed("Panic") ELSE guard.outcome
           record == [op |-> guard.op, stale |-> guard.stale, duration |-> duration,
                      outcome |-> outcome]
           new == Record(stats, record)
           all == R \union {x}
           ok == x.kind = "ok"
<1>1. Dropped(guard, duration) = record
  BY DEF Dropped
<1>2. outcome \in Outcomes
  <2>1. CASE guard.outcome = [kind |-> "none"]
    BY <2>1 DEF Outcomes, Failed, Failures
  <2>2. CASE guard.outcome \in Outcomes
    <3>1. guard.outcome.kind # "none"
      BY <2>2 DEF Outcomes, Cancelled
    <3> QED BY <2>2, <3>1
  <2> QED BY <2>1, <2>2 DEF Says
<1>3. /\ ok /\ x.count > 0 =>
           /\ outcome.kind = "Answered" /\ ~guard.stale
           /\ outcome.returned < outcome.total <=> Limited(op) /\ x.count < x.exist
      /\ ok /\ x.count = 0 =>
           outcome.kind = "Empty" /\ outcome.reason = ReasonOf(op) /\ ~guard.stale
      /\ IsGivenUp(x) => outcome.kind = "Cancelled" /\ ~guard.stale
      /\ ~ok /\ ~IsGivenUp(x) =>
           /\ outcome.kind = "Failed"
           /\ guard.stale <=> x.kind = "ContentModified"
  BY DEF Says, Empty, Cancelled, Failed
<1>4. guard.stale \in BOOLEAN
  BY DEF Says
<1>5. stats \in Stats /\ Ring(stats.samples, stats.next, stats.total)
  BY DEF Tallies
<1> HIDE DEF outcome
<1>6. /\ new \in Stats
      /\ Ring(new.samples, new.next, new.total)
      /\ new.total = stats.total + 1
      /\ new.stale = stats.stale + One(guard.stale)
      /\ new.answered = stats.answered + One(outcome.kind = "Answered")
      /\ new.truncated = stats.truncated
           + One(outcome.kind = "Answered" /\ outcome.returned < outcome.total)
      /\ new.cancelled = stats.cancelled + One(outcome.kind = "Cancelled")
      /\ FailedSum(new) = FailedSum(stats) + One(outcome.kind = "Failed")
      /\ \A r \in EmptyReasons :
           new.empty[r] = stats.empty[r] + One(outcome.kind = "Empty" /\ outcome.reason = r)
  BY <1>2, <1>4, <1>5, RecordFacts
<1> HIDE DEF new
<1>7. /\ Cardinality(R) \in Nat /\ Cardinality(all) = Cardinality(R) + 1
      /\ Cardinality(Listed(all)) = Cardinality(Listed(R)) + One(ok /\ x.count > 0)
      /\ Cardinality(Nothing(all)) = Cardinality(Nothing(R)) + One(ok /\ x.count = 0)
      /\ Cardinality(GivenUp(all)) = Cardinality(GivenUp(R)) + One(IsGivenUp(x))
      /\ Cardinality(Errors(all)) = Cardinality(Errors(R)) + One(~ok /\ ~IsGivenUp(x))
      /\ Cardinality(Late(all)) = Cardinality(Late(R))
           + One(~ok /\ ~IsGivenUp(x) /\ x.kind = "ContentModified")
      /\ Cardinality(Short(all)) = Cardinality(Short(R))
           + One(/\ ok /\ x.count > 0
                 /\ x.op \in {"workspaceSymbol", "findReferences"}
                 /\ x.count < x.exist)
  BY ReplyAdded
<1> HIDE DEF all, ok
<1>8. /\ (ok /\ x.count > 0) \/ (ok /\ x.count = 0) \/ IsGivenUp(x) \/ (~ok /\ ~IsGivenUp(x))
      /\ ~(ok /\ IsGivenUp(x)) /\ ~(x.count > 0 /\ x.count = 0)
  BY DEF ok, IsGivenUp
<1>9. One(guard.stale) = One(~ok /\ ~IsGivenUp(x) /\ x.kind = "ContentModified")
  BY <1>3, <1>4, <1>8 DEF One
<1>10. One(outcome.kind = "Answered") = One(ok /\ x.count > 0)
  BY <1>3, <1>8 DEF One
<1>11. One(outcome.kind = "Answered" /\ outcome.returned < outcome.total)
         = One(/\ ok /\ x.count > 0
               /\ x.op \in {"workspaceSymbol", "findReferences"}
               /\ x.count < x.exist)
  BY <1>3, <1>8 DEF One, Limited
<1>12. One(outcome.kind = "Cancelled") = One(IsGivenUp(x))
  BY <1>3, <1>8 DEF One
<1>13. One(outcome.kind = "Failed") = One(~ok /\ ~IsGivenUp(x))
  BY <1>3, <1>8 DEF One
<1>14. ASSUME NEW r \in EmptyReasons
       PROVE  One(outcome.kind = "Empty" /\ outcome.reason = r)
                = IF r = ReasonOf(op) THEN One(ok /\ x.count = 0) ELSE 0
  BY <1>3, <1>8 DEF One
<1>15. ASSUME NEW r \in EmptyReasons
       PROVE  new.empty[r] = IF r = ReasonOf(op) THEN Cardinality(Nothing(all)) ELSE 0
  <2>1. stats.empty[r] = IF r = ReasonOf(op) THEN Cardinality(Nothing(R)) ELSE 0
    BY DEF Tallies
  <2>2. new.empty[r] = stats.empty[r] + IF r = ReasonOf(op) THEN One(ok /\ x.count = 0) ELSE 0
    BY <1>6, <1>14
  <2>3. CASE r = ReasonOf(op)
    BY <1>7, <2>1, <2>2, <2>3
  <2>4. CASE r # ReasonOf(op)
    BY <2>1, <2>2, <2>4
  <2> QED BY <2>3, <2>4
<1>16. /\ stats.total = Cardinality(R)
       /\ stats.answered = Cardinality(Listed(R))
       /\ stats.truncated = Cardinality(Short(R))
       /\ stats.cancelled = Cardinality(GivenUp(R))
       /\ stats.stale = Cardinality(Late(R))
       /\ FailedSum(stats) = Cardinality(Errors(R))
  BY DEF Tallies
<1>17. Tallies(new, op, all)
  BY <1>6, <1>7, <1>9, <1>10, <1>11, <1>12, <1>13, <1>15, <1>16 DEF Tallies
<1> QED BY <1>1, <1>17 DEF new, all, outcome

-----------------------------------------------------------------------------
(* The guard of every handler says what its reply says. *)

ReplyOf(c, op, left, k) ==
  [of |-> c, op |-> op, kind |-> left.kind, count |-> left.count, exist |-> left.exist,
   nth |-> k]

Agrees(op, left) ==
  /\ left.count \in Nat /\ left.exist \in Nat
  /\ \A c, k : Says(left.guard, ReplyOf(c, op, left, k))

(* A reply that is no answer. *)
LEMMA RefusalAgrees ==
  ASSUME NEW op \in ClientFacing, NEW left, NEW guard,
         NEW kind \in {"RequestFailed", "InvalidParams", "ContentModified", "InternalError"},
         left = Left(kind, guard), guard.op = op, guard.stale \in BOOLEAN,
         guard.stale <=> kind = "ContentModified",
         guard.outcome = [kind |-> "none"]
           \/ \E failure \in Failures : guard.outcome = Failed(failure)
  PROVE  Agrees(op, left)
<1>1. left.kind = kind /\ left.count = 0 /\ left.exist = 0 /\ left.guard = guard
  BY DEF Left
<1>2. op # "indexBuild"
  BY DEF ClientFacing
<1>3. ASSUME NEW c, NEW k PROVE Says(guard, ReplyOf(c, op, left, k))
  <2> DEFINE reply == ReplyOf(c, op, left, k)
  <2>1. reply.op = op /\ reply.kind = kind /\ kind # "ok" /\ ~IsGivenUp(reply)
    BY <1>1, <1>2 DEF ReplyOf, IsGivenUp
  <2>2. kind \in ReplyKinds \ {"InvalidRequest", "Busy"}
    BY DEF ReplyKinds
  <2>3. guard.outcome = [kind |-> "none"] => guard.outcome.kind = "none"
    OBVIOUS
  <2>4. ASSUME NEW failure \in Failures, guard.outcome = Failed(failure)
        PROVE  guard.outcome.kind = "Failed" /\ guard.outcome \in Outcomes
    BY <2>4 DEF Failed, Outcomes
  <2> HIDE DEF reply
  <2>5. Says(guard, reply)
    BY <2>1, <2>2, <2>3, <2>4 DEF Says
  <2> QED BY <2>5 DEF reply
<1> QED BY <1>1, <1>3 DEF Agrees

LEMMA RefusalsAgree ==
  ASSUME NEW op \in ClientFacing
  PROVE  /\ Agrees(op, Left("InternalError", Start(op)))
         /\ Agrees(op, IndexNotReady(Start(op)))
         /\ Agrees(op, BadRequest(Start(op)))
         /\ Agrees(op, RequireCurrentDocument(Start(op)))
<1>1. Agrees(op, Left("InternalError", Start(op)))
  <2> DEFINE guard == Start(op)
  <2>1. guard.op = op /\ guard.stale = FALSE /\ guard.outcome = [kind |-> "none"]
    BY DEF Start
  <2> HIDE DEF guard
  <2>2. Agrees(op, Left("InternalError", guard))
    BY <2>1, RefusalAgrees
  <2> QED BY <2>2 DEF guard
<1>2. Agrees(op, IndexNotReady(Start(op)))
  <2> DEFINE guard == Finish(Start(op), Failed("IndexUnavailable"))
  <2>1. guard.op = op /\ guard.stale = FALSE /\ guard.outcome = Failed("IndexUnavailable")
    BY DEF Start, Finish, MarkStale
  <2>2. IndexNotReady(Start(op)) = Left("RequestFailed", guard)
    BY DEF IndexNotReady
  <2> HIDE DEF guard
  <2> QED BY <2>1, <2>2, RefusalAgrees DEF Failures
<1>3. Agrees(op, BadRequest(Start(op)))
  <2> DEFINE guard == Finish(Start(op), Failed("BadRequest"))
  <2>1. guard.op = op /\ guard.stale = FALSE /\ guard.outcome = Failed("BadRequest")
    BY DEF Start, Finish, MarkStale
  <2>2. BadRequest(Start(op)) = Left("InvalidParams", guard)
    BY DEF BadRequest
  <2> HIDE DEF guard
  <2> QED BY <2>1, <2>2, RefusalAgrees DEF Failures
<1>4. Agrees(op, RequireCurrentDocument(Start(op)))
  <2> DEFINE guard == MarkStale(Finish(Start(op), Failed("IndexUnavailable")))
  <2>1. guard.op = op /\ guard.stale = TRUE /\ guard.outcome = Failed("IndexUnavailable")
    BY DEF Start, Finish, MarkStale
  <2>2. RequireCurrentDocument(Start(op)) = Left("ContentModified", guard)
    BY DEF RequireCurrentDocument
  <2> HIDE DEF guard
  <2> QED BY <2>1, <2>2, RefusalAgrees DEF Failures
<1> QED BY <1>1, <1>2, <1>3, <1>4

(* A reply that is an answer. *)
LEMMA AnswerAgrees ==
  ASSUME NEW op \in ClientFacing, NEW world, world.found \in Nat, NEW returned \in Nat,
         NEW outcome \in Outcomes,
         returned > 0 => /\ outcome.kind = "Answered"
                         /\ outcome.returned < outcome.total
                              <=> Limited(op) /\ returned < world.found,
         returned = 0 => outcome = Empty(ReasonOf(op))
  PROVE  Agrees(op, Replied(Start(op), returned, world, outcome))
<1> DEFINE left == Replied(Start(op), returned, world, outcome)
           guard == Finish(Start(op), outcome)
<1>1. left.kind = "ok" /\ left.count = returned /\ left.exist = world.found /\ left.guard = guard
  BY DEF Replied
<1>2. guard.op = op /\ guard.stale = FALSE /\ guard.outcome = outcome
  BY DEF Start, Finish
<1> HIDE DEF left, guard
<1>3. ASSUME NEW c, NEW k PROVE Says(guard, ReplyOf(c, op, left, k))
  <2> DEFINE reply == ReplyOf(c, op, left, k)
  <2>1. /\ reply.op = op /\ reply.kind = "ok" /\ ~IsGivenUp(reply)
        /\ reply.count = returned /\ reply.exist = world.found
    BY <1>1 DEF ReplyOf, IsGivenUp
  <2>2. "ok" \in ReplyKinds \ {"InvalidRequest", "Busy"}
    BY DEF ReplyKinds
  <2> HIDE DEF reply
  <2>3. Says(guard, reply)
    BY <1>2, <2>1, <2>2 DEF Says
  <2> QED BY <2>3 DEF reply
<1>4. Agrees(op, left)
  BY <1>1, <1>3 DEF Agrees
<1> QED BY <1>4 DEF left

LEMMA FoundIsNat ==
  ASSUME NEW world \in Worlds PROVE world.found \in Nat
<1> DEFINE limits == {SearchLimit, ReferenceLimit, CallLimit}
<1>1. \E m \in limits : \A y \in limits : m >= y
  BY LimitAssumption
<1>2. Max(limits) \in limits
  <2> HIDE DEF limits
  <2> QED BY <1>1, Zenon DEF Max
<1>3. Max(limits) \in Nat
  BY <1>2, LimitAssumption
<1> HIDE DEF limits
<1>4. world.found \in 0 .. Max(limits) + 1
  BY DEF Worlds, Founds, limits
<1> QED BY <1>3, <1>4

LEMMA OutcomeFacts ==
  ASSUME NEW m \in Nat, NEW n \in Nat
  PROVE  /\ CountOutcome(m) \in Outcomes
         /\ m > 0 => CountOutcome(m).kind = "Answered" /\ CountOutcome(m).returned = m
                     /\ CountOutcome(m).total = m
         /\ m = 0 => CountOutcome(m) = Empty("NoMatch")
         /\ CutOutcome(m, n) \in Outcomes
         /\ n > 0 => CutOutcome(m, n).kind = "Answered" /\ CutOutcome(m, n).returned = m
                     /\ CutOutcome(m, n).total = n
         /\ n = 0 => CutOutcome(m, n) = Empty("NoMatch")
         /\ Empty("FileNotIndexed") \in Outcomes
  BY DEF CountOutcome, CutOutcome, Empty, Answered, Outcomes, EmptyReasons

(* One that is not cut, and the two that may be. *)
LEMMA PlainAgrees ==
  ASSUME NEW op \in ClientFacing, ~Limited(op), op # "documentSymbol",
         NEW world \in Worlds, NEW returned \in Nat
  PROVE  Agrees(op, Replied(Start(op), returned, world, CountOutcome(returned)))
<1>1. CountOutcome(returned) \in Outcomes
      /\ (returned > 0 => ~(CountOutcome(returned).returned < CountOutcome(returned).total)
                          /\ CountOutcome(returned).kind = "Answered")
      /\ (returned = 0 => CountOutcome(returned) = Empty("NoMatch"))
  BY OutcomeFacts
<1>2. ReasonOf(op) = "NoMatch" /\ world.found \in Nat
  BY FoundIsNat DEF ReasonOf
<1> QED BY <1>1, <1>2, AnswerAgrees

LEMMA LimitedAgrees ==
  ASSUME NEW op \in ClientFacing, Limited(op), op # "documentSymbol",
         NEW world \in Worlds, NEW limit \in Nat \ {0}
  PROVE  LET returned == Min({world.found, limit})
         IN  Agrees(op, Replied(Start(op), returned, world, CutOutcome(returned, world.found)))
<1> DEFINE returned == Min({world.found, limit})
           outcome == CutOutcome(returned, world.found)
<1>1. world.found \in Nat
  BY FoundIsNat
<1>2. returned = IF world.found <= limit THEN world.found ELSE limit
  BY <1>1, MinOfTwo
<1>3. returned \in Nat /\ (returned = 0 <=> world.found = 0)
  BY <1>1, <1>2
<1>4. outcome \in Outcomes
      /\ (world.found > 0 => /\ outcome.returned = returned /\ outcome.total = world.found
                             /\ outcome.kind = "Answered")
      /\ (world.found = 0 => outcome = Empty("NoMatch"))
  BY <1>1, <1>3, OutcomeFacts
<1> HIDE DEF returned, outcome
<1>5. ReasonOf(op) = "NoMatch"
  BY DEF ReasonOf
<1>6. returned > 0 => /\ outcome.kind = "Answered"
                      /\ outcome.returned < outcome.total
                           <=> Limited(op) /\ returned < world.found
  BY <1>1, <1>3, <1>4
<1>7. returned = 0 => outcome = Empty(ReasonOf(op))
  BY <1>3, <1>4, <1>5
<1>8. Agrees(op, Replied(Start(op), returned, world, outcome))
  BY <1>1, <1>3, <1>4, <1>6, <1>7, AnswerAgrees
<1> QED BY <1>8 DEF returned, outcome

LEMMA PositionalAgrees ==
  ASSUME NEW op \in ClientFacing, NEW world, NEW answer, Agrees(op, answer)
  PROVE  Agrees(op, Positional(op, world, answer))
  BY RefusalsAgree DEF Positional, Refuse

(* Every handler, in any world. *)
LEMMA RequestAgrees ==
  ASSUME NEW op \in ClientFacing, NEW world \in Worlds
  PROVE  Agrees(op, OnRequest(op, world))
<1>0. world.found \in Nat
  BY FoundIsNat
<1>a. {SearchLimit, ReferenceLimit, CallLimit, 1} \subseteq Nat \ {0}
  BY LimitAssumption
<1>b. \A n \in Nat : Min({world.found, n}) \in Nat
  BY <1>0, MinOfTwo
<1>1. CASE op = "workspaceSymbol"
  <2>1. Limited(op) /\ op # "documentSymbol"
    BY <1>1 DEF Limited
  <2> DEFINE returned == Min({world.found, SearchLimit})
  <2>2. Agrees(op, Replied(Start(op), returned, world, CutOutcome(returned, world.found)))
    BY <1>a, <2>1, LimitedAgrees
  <2>3. Agrees(op, WorkspaceSymbols(world))
    BY <1>1, <2>2, RefusalsAgree DEF WorkspaceSymbols
  <2>4. Dispatch(op, world) = WorkspaceSymbols(world)
    BY <1>1 DEF Dispatch
  <2> QED BY <2>3, <2>4, RefusalsAgree DEF OnRequest
<1>2. CASE op = "goToDefinition"
  <2>1. ~Limited(op) /\ op # "documentSymbol"
    BY <1>2 DEF Limited
  <2>2. Agrees(op, Replied(Start(op), world.found, world, CountOutcome(world.found)))
    BY <1>0, <2>1, PlainAgrees
  <2>3. Agrees(op, GotoDefinition(world))
    BY <1>2, <2>2, PositionalAgrees DEF GotoDefinition
  <2>4. Dispatch(op, world) = GotoDefinition(world)
    BY <1>2 DEF Dispatch
  <2> QED BY <2>3, <2>4, RefusalsAgree DEF OnRequest
<1>3. CASE op = "findReferences"
  <2>1. Limited(op) /\ op # "documentSymbol"
    BY <1>3 DEF Limited
  <2> DEFINE returned == Min({world.found, ReferenceLimit})
  <2>2. Agrees(op, Replied(Start(op), returned, world, CutOutcome(returned, world.found)))
    BY <1>a, <2>1, LimitedAgrees
  <2>3. Agrees(op, FindReferences(world))
    BY <1>3, <2>2, PositionalAgrees DEF FindReferences
  <2>4. Dispatch(op, world) = FindReferences(world)
    BY <1>3 DEF Dispatch
  <2> QED BY <2>3, <2>4, RefusalsAgree DEF OnRequest
<1>4. CASE op = "hover"
  <2>1. ~Limited(op) /\ op # "documentSymbol"
    BY <1>4 DEF Limited
  <2> DEFINE returned == Min({world.found, 1})
  <2>2. Agrees(op, Replied(Start(op), returned, world, CountOutcome(returned)))
    BY <1>b, <2>1, PlainAgrees
  <2>3. Agrees(op, Hover(world))
    BY <1>4, <2>2, PositionalAgrees DEF Hover
  <2>4. Dispatch(op, world) = Hover(world)
    BY <1>4 DEF Dispatch
  <2> QED BY <2>3, <2>4, RefusalsAgree DEF OnRequest
<1>5. CASE op = "documentSymbol"
  <2> DEFINE outcome == IF world.found = 0 THEN Empty("FileNotIndexed")
                        ELSE Answered(world.found, world.found)
  <2>1. outcome \in Outcomes
        /\ (world.found > 0 => outcome.kind = "Answered" /\ ~(outcome.returned < outcome.total))
        /\ (world.found = 0 => outcome = Empty(ReasonOf(op)))
        /\ ~Limited(op)
    BY <1>0, <1>5 DEF Empty, Answered, Outcomes, EmptyReasons, ReasonOf, Limited
  <2> HIDE DEF outcome
  <2>2. Agrees(op, Replied(Start(op), world.found, world, outcome))
    BY <1>0, <2>1, AnswerAgrees
  <2>3. Agrees(op, DocumentSymbol(world))
    BY <1>5, <2>2, RefusalsAgree DEF DocumentSymbol, Refuse, outcome
  <2>4. Dispatch(op, world) = DocumentSymbol(world)
    BY <1>5 DEF Dispatch
  <2> QED BY <2>3, <2>4, RefusalsAgree DEF OnRequest
<1>6. CASE op = "goToImplementation"
  <2>1. ~Limited(op) /\ op # "documentSymbol"
    BY <1>6 DEF Limited
  <2>2. Agrees(op, Replied(Start(op), world.found, world, CountOutcome(world.found)))
    BY <1>0, <2>1, PlainAgrees
  <2>3. Agrees(op, GotoImplementation(world))
    BY <1>6, <2>2, PositionalAgrees DEF GotoImplementation
  <2>4. Dispatch(op, world) = GotoImplementation(world)
    BY <1>6 DEF Dispatch
  <2> QED BY <2>3, <2>4, RefusalsAgree DEF OnRequest
<1>7. CASE op = "prepareCallHierarchy"
  <2>1. ~Limited(op) /\ op # "documentSymbol"
    BY <1>7 DEF Limited
  <2> DEFINE returned == Min({world.found, 1})
  <2>2. Agrees(op, Replied(Start(op), returned, world, CountOutcome(returned)))
    BY <1>b, <2>1, PlainAgrees
  <2>3. Agrees(op, PrepareCallHierarchy(world))
    BY <1>7, <2>2, PositionalAgrees DEF PrepareCallHierarchy
  <2>4. Dispatch(op, world) = PrepareCallHierarchy(world)
    BY <1>7 DEF Dispatch
  <2> QED BY <2>3, <2>4, RefusalsAgree DEF OnRequest
<1>8. CASE op \in {"incomingCalls", "outgoingCalls"}
  <2>1. ~Limited(op) /\ op # "documentSymbol"
    BY <1>8 DEF Limited
  <2> DEFINE returned == Min({world.found, CallLimit})
             answer == IF ~world.known THEN BadRequest(Start(op))
                       ELSE Replied(Start(op), returned, world, CountOutcome(returned))
  <2>2. Agrees(op, Replied(Start(op), returned, world, CountOutcome(returned)))
    BY <1>a, <1>b, <2>1, PlainAgrees
  <2>3. Agrees(op, answer)
    BY <2>2, RefusalsAgree
  <2>4. Agrees(op, CallHierarchy(op, world))
    BY <2>3, PositionalAgrees DEF CallHierarchy
  <2>5. Dispatch(op, world) = CallHierarchy(op, world)
    BY <1>8 DEF Dispatch
  <2> QED BY <2>4, <2>5, RefusalsAgree DEF OnRequest
<1> QED BY <1>1, <1>2, <1>3, <1>4, <1>5, <1>6, <1>7, <1>8 DEF ClientFacing

-----------------------------------------------------------------------------
(* The state of a session. *)

Reply == [of : ClientIds, op : uses, kind : ReplyKinds, count : Nat, exist : Nat, nth : Nat]

Same(c, op, kind, count, exist) ==
  {reply \in told : /\ reply.of = c /\ reply.op = op /\ reply.kind = kind
                   /\ reply.count = count /\ reply.exist = exist}

(* The replies that say the same are numbered from 1 on. *)
Replies ==
  /\ uses \in Used
  /\ told \subseteq Reply
  /\ IsFiniteSet(told)
  /\ \A x \in told : x.nth <= Cardinality(Same(x.of, x.op, x.kind, x.count, x.exist))

Sessions ==
  /\ sessions \in Seq([loading : BOOLEAN, stats : [uses -> Stats]])
  /\ Len(sessions) = Len(servers)
  /\ \A c \in ClientIds : sessions[c].loading => "indexBuild" \in uses

Tallied ==
  \A c \in ClientIds : \A op \in uses : Tallies(sessions[c].stats[op], op, Told(c, op))

(* Until a server has answered its shutdown it has room for one record more. *)
Bounded ==
  \A c \in ClientIds : Phase(c) \notin {"shutdown", "exited"} =>
    Cardinality({x \in told : x.of = c}) <= MaxReplies

StartPending ==
  operation # Idle /\ operation.awaits = "start" => Phase(operation.of) = "starting"

SessionInv == ClientInv /\ StartPending /\ Replies /\ Sessions /\ Tallied /\ Bounded

LEMMA NothingTallied ==
  ASSUME NEW op PROVE Tallies(NoStats, op, {})
<1>1. NoStats \in Stats
  <2>1. <<>> \in Seq(0 .. MaxMicros)
    OBVIOUS
  <2>2. [r \in EmptyReasons |-> 0] \in [EmptyReasons -> Nat]
        /\ [f \in Failures |-> 0] \in [Failures -> Nat]
    OBVIOUS
  <2> QED BY <2>1, <2>2 DEF NoStats, Stats
<1>2. NoStats.total = 0 /\ NoStats.samples = <<>> /\ NoStats.next = 0
  BY DEF NoStats
<1>3. Ring(NoStats.samples, NoStats.next, NoStats.total)
  <2>1. SampleWindow \in Nat \ {0} /\ MaxMicros \in Nat
    BY TelemetryAssumption
  <2>2. Ring(<<>>, 0, 0)
    BY <2>1 DEF Ring
  <2> QED BY <1>2, <2>2
<1>4. /\ NoStats.answered = 0 /\ NoStats.truncated = 0 /\ NoStats.cancelled = 0
      /\ NoStats.stale = 0 /\ FailedSum(NoStats) = 0
      /\ \A r \in EmptyReasons : NoStats.empty[r] = 0
  BY DEF NoStats, FailedSum, Failures
<1>5. /\ Listed({}) = {} /\ Nothing({}) = {} /\ GivenUp({}) = {} /\ Errors({}) = {}
      /\ Late({}) = {} /\ Short({}) = {}
  BY DEF Listed, Nothing, GivenUp, Errors, Late, Short
<1>6. Cardinality({}) = 0
  BY FS_EmptySet
<1> HIDE DEF NoStats
<1> QED BY <1>1, <1>2, <1>3, <1>4, <1>5, <1>6 DEF Tallies

(* A reply is one that was not told before. *)
LEMMA SentFacts ==
  ASSUME Replies, NEW c \in ClientIds, NEW op \in uses, NEW kind \in ReplyKinds,
         NEW count \in Nat, NEW exist \in Nat,
         told' = Sent(c, op, kind, count, exist), uses' = uses, ClientIds' = ClientIds
  PROVE  /\ Replies'
         /\ Cardinality(told) \in Nat /\ Cardinality(told') = Cardinality(told) + 1
         /\ \E k \in Nat :
              LET x == [of |-> c, op |-> op, kind |-> kind, count |-> count, exist |-> exist,
                        nth |-> k]
              IN  x \notin told /\ told' = told \union {x}
<1> DEFINE same == Same(c, op, kind, count, exist)
           k == Cardinality(same) + 1
           x == [of |-> c, op |-> op, kind |-> kind, count |-> count, exist |-> exist, nth |-> k]
<1>1. told \subseteq Reply /\ IsFiniteSet(told) /\ Cardinality(told) \in Nat
  BY FS_CardinalityType DEF Replies
<1>2. ASSUME NEW a, NEW b, NEW g, NEW h, NEW e
      PROVE  IsFiniteSet(Same(a, b, g, h, e)) /\ Cardinality(Same(a, b, g, h, e)) \in Nat
  BY <1>1, FS_Subset, FS_CardinalityType DEF Same
<1>3. told' = told \union {x}
  BY DEF Sent, Same
<1>4. k \in Nat /\ k = Cardinality(same) + 1
  BY <1>2
<1>5. /\ x.of = c /\ x.op = op /\ x.kind = kind /\ x.count = count /\ x.exist = exist
      /\ x.nth = k /\ x \in Reply
  BY <1>4 DEF Reply
<1> HIDE DEF k, x
<1>6. x \notin told
  <2> SUFFICES ASSUME x \in told PROVE FALSE
    OBVIOUS
  <2>1. x.nth <= Cardinality(Same(x.of, x.op, x.kind, x.count, x.exist))
    BY DEF Replies
  <2>2. Cardinality(same) \in Nat
    BY <1>2
  <2> QED BY <1>4, <1>5, <2>1, <2>2
<1>7. IsFiniteSet(told') /\ Cardinality(told') = Cardinality(told) + 1
  BY <1>1, <1>3, <1>6, FS_AddElement
<1>8. told' \subseteq Reply'
  BY <1>1, <1>3, <1>5 DEF Reply
<1>9. ASSUME NEW y \in told'
      PROVE  y.nth <= Cardinality(Same(y.of, y.op, y.kind, y.count, y.exist)')
  <2> DEFINE old == Same(y.of, y.op, y.kind, y.count, y.exist)
             now == Same(y.of, y.op, y.kind, y.count, y.exist)'
  <2>1. old \subseteq now /\ now \subseteq told'
    BY <1>3 DEF Same
  <2>2. IsFiniteSet(now) /\ Cardinality(now) \in Nat /\ Cardinality(old) \in Nat
        /\ Cardinality(old) <= Cardinality(now)
    BY <1>2, <1>7, <2>1, FS_Subset, FS_CardinalityType
  <2>3. CASE y \in told
    <3>1. y.nth <= Cardinality(old)
      BY <2>3 DEF Replies
    <3>2. y.nth \in Nat
      BY <1>1, <2>3 DEF Reply
    <3> HIDE DEF old, now
    <3>3. y.nth <= Cardinality(now)
      BY <2>2, <3>1, <3>2
    <3> QED BY <3>3 DEF now
  <2>4. CASE y = x
    <3>1. old = same
      BY <1>5, <2>4
    <3>2. now = same \union {x}
      BY <1>3, <1>5, <2>4 DEF Same
    <3>3. x \notin same /\ IsFiniteSet(same)
      <4>1. IsFiniteSet(same)
        BY <1>2
      <4>2. same \subseteq told
        BY DEF Same
      <4> HIDE DEF same
      <4> QED BY <1>6, <4>1, <4>2
    <3>4. Cardinality(now) = k
      BY <1>4, <3>2, <3>3, FS_AddElement
    <3> HIDE DEF now
    <3>5. y.nth <= Cardinality(now)
      BY <1>4, <1>5, <2>4, <3>4
    <3> QED BY <3>5 DEF now
  <2> QED BY <1>3, <2>3, <2>4
<1>10. Replies'
  <2>1. \A y \in told' : y.nth <= Cardinality(Same(y.of, y.op, y.kind, y.count, y.exist))'
    BY <1>9
  <2> QED BY <1>7, <1>8, <2>1 DEF Replies
<1> QED BY <1>1, <1>3, <1>4, <1>6, <1>7, <1>10 DEF x

LEMMA ToldStep ==
  ASSUME NEW x, told' = told \union {x}, NEW d, NEW o
  PROVE  Told(d, o)' = IF x.of = d /\ x.op = o /\ x.kind \notin {"InvalidRequest", "Busy"}
                       THEN Told(d, o) \union {x} ELSE Told(d, o)
  BY DEF Told

(* A reply and the record of it keep the counters those of the replies. *)
LEMMA RecordKeeps ==
  ASSUME ClientTypeOK, Replies, Sessions, Tallied, NEW c \in ClientIds, NEW op \in uses,
         NEW kind \in ReplyKinds \ {"InvalidRequest", "Busy"}, NEW count \in Nat,
         NEW exist \in Nat, NEW guard, guard.op = op,
         \A k : Says(guard, [of |-> c, op |-> op, kind |-> kind, count |-> count,
                             exist |-> exist, nth |-> k]),
         Cardinality({x \in told : x.of = c}) <= MaxReplies,
         NEW session,
         session = Recorded(sessions[c], guard)
           \/ session = [Recorded(sessions[c], guard) EXCEPT !.loading = FALSE],
         sessions' = [sessions EXCEPT ![c] = session],
         told' = Sent(c, op, kind, count, exist),
         uses' = uses, ClientIds' = ClientIds, Len(servers') = Len(servers)
  PROVE  Replies' /\ Sessions' /\ Tallied'
<1> DEFINE Session == [loading : BOOLEAN, stats : [uses -> Stats]]
           stats == sessions[c].stats[op]
           R == Told(c, op)
           new == Record(stats, Dropped(guard, Durations[stats.total + 1]))
<1>1. /\ Replies'
      /\ \E k \in Nat :
           LET x == [of |-> c, op |-> op, kind |-> kind, count |-> count, exist |-> exist,
                     nth |-> k]
           IN  x \notin told /\ told' = told \union {x}
  <2>1. kind \in ReplyKinds
    OBVIOUS
  <2> QED BY ONLY <2>1, Replies, c \in ClientIds, op \in uses, count \in Nat, exist \in Nat,
             told' = Sent(c, op, kind, count, exist), uses' = uses, ClientIds' = ClientIds,
             SentFacts, Zenon
<1>2. PICK k \in Nat :
        LET x == [of |-> c, op |-> op, kind |-> kind, count |-> count, exist |-> exist,
                  nth |-> k]
        IN  x \notin told /\ told' = told \union {x}
  BY <1>1
<1> DEFINE x == [of |-> c, op |-> op, kind |-> kind, count |-> count, exist |-> exist,
                 nth |-> k]
<1>3. /\ x \notin told /\ told' = told \union {x} /\ Says(guard, x)
      /\ x.of = c /\ x.op = op /\ x.kind = kind /\ x.count = count /\ x.exist = exist
  BY <1>2
<1> HIDE DEF x
<1>4. /\ sessions \in Seq(Session) /\ c \in DOMAIN sessions /\ DOMAIN sessions = ClientIds
      /\ sessions[c] \in Session
  <2>1. sessions \in Seq(Session) /\ Len(sessions) = Len(servers) /\ servers \in Seq(Server)
    BY DEF ClientTypeOK, Sessions
  <2> HIDE DEF Session
  <2>2. DOMAIN sessions = 1 .. Len(sessions) /\ ClientIds = 1 .. Len(servers)
    BY <2>1 DEF ClientIds
  <2> QED BY <2>1, <2>2
<1>5. Tallies(stats, op, R)
  BY DEF Tallied
<1>6. IsFiniteSet(told) /\ R \subseteq told /\ IsFiniteSet(R) /\ x \notin R
  <2>1. IsFiniteSet(told)
    BY DEF Replies
  <2>2. R \subseteq told
    BY DEF Told
  <2> HIDE DEF R
  <2> QED BY <1>3, <2>1, <2>2, FS_Subset
<1>7. Durations[stats.total + 1] \in Nat
  <2> DEFINE mine == {y \in told : y.of = c}
  <2>1. IsFiniteSet(mine)
    <3>1. mine \subseteq told
      OBVIOUS
    <3> QED BY <1>6, <3>1, FS_Subset
  <2>2. R \subseteq mine
    BY DEF Told
  <2>3. Cardinality(mine) <= MaxReplies
    OBVIOUS
  <2> HIDE DEF mine, R
  <2>4. Cardinality(R) \in Nat /\ Cardinality(mine) \in Nat
        /\ Cardinality(R) <= Cardinality(mine)
    BY <1>6, <2>1, <2>2, FS_Subset, FS_CardinalityType
  <2>5. stats.total = Cardinality(R)
    BY <1>5 DEF Tallies
  <2>6. stats.total + 1 \in 1 .. MaxReplies + 1
    BY <2>3, <2>4, <2>5, SessionAssumption
  <2> QED BY <2>6, SessionAssumption
<1> HIDE DEF R
<1>8. Tallies(new, op, R \union {x})
  <2> HIDE DEF stats
  <2> QED BY <1>3, <1>5, <1>6, <1>7, TallyKept
<1>9. new \in Stats
  BY <1>8 DEF Tallies
<1>10. /\ Recorded(sessions[c], guard) \in Session
       /\ Recorded(sessions[c], guard).loading = sessions[c].loading
       /\ Recorded(sessions[c], guard).stats = [sessions[c].stats EXCEPT ![op] = new]
  <2> DEFINE before == sessions[c]
  <2>1. Recorded(before, guard) = [before EXCEPT !.stats = [before.stats EXCEPT ![op] = new]]
    BY DEF Recorded
  <2> HIDE DEF new, before
  <2>2. before \in Session
    BY <1>4 DEF before
  <2>3. [before.stats EXCEPT ![op] = new] \in [uses -> Stats]
    BY <1>9, <2>2
  <2>4. /\ Recorded(before, guard) \in Session
        /\ Recorded(before, guard).loading = before.loading
        /\ Recorded(before, guard).stats = [before.stats EXCEPT ![op] = new]
    BY <2>1, <2>2, <2>3
  <2> QED BY <2>4 DEF before
<1> HIDE DEF new
<1>11. /\ session \in Session
       /\ session.loading => sessions[c].loading
       /\ session.stats = [sessions[c].stats EXCEPT ![op] = new]
  <2> DEFINE recorded == Recorded(sessions[c], guard)
  <2>1. recorded \in Session
    BY <1>10
  <2> HIDE DEF recorded
  <2>2. CASE session = recorded
    BY <1>10, <2>1, <2>2 DEF recorded
  <2>3. CASE session = [recorded EXCEPT !.loading = FALSE]
    <3>1. session \in Session /\ session.loading = FALSE /\ session.stats = recorded.stats
      BY <2>1, <2>3
    <3> QED BY <1>10, <3>1 DEF recorded
  <2> QED BY <2>2, <2>3 DEF recorded
<1>12. /\ sessions' \in Seq(Session) /\ Len(sessions') = Len(sessions)
       /\ sessions'[c] = session
       /\ \A d \in ClientIds : d # c => sessions'[d] = sessions[d]
  <2> HIDE DEF Session
  <2> QED BY <1>4, <1>11
<1>13. Sessions'
  <2>1. ASSUME NEW d \in ClientIds, sessions'[d].loading PROVE "indexBuild" \in uses
    BY <1>11, <1>12, <2>1 DEF Sessions
  <2> QED BY <1>12, <2>1 DEF Sessions
<1>14. ASSUME NEW d \in ClientIds, NEW o \in uses
       PROVE  Tallies(sessions'[d].stats[o], o, Told(d, o)')
  <2>1. Tallies(sessions[d].stats[o], o, Told(d, o))
    BY DEF Tallied
  <2>2. Told(d, o)' = IF x.of = d /\ x.op = o /\ x.kind \notin {"InvalidRequest", "Busy"}
                      THEN Told(d, o) \union {x} ELSE Told(d, o)
    BY <1>3, ToldStep
  <2>3. CASE d = c /\ o = op
    <3>1. sessions'[d].stats[o] = new
      BY <1>4, <1>11, <1>12, <2>3
    <3>2. Told(d, o)' = R \union {x}
      BY <1>3, <2>2, <2>3 DEF R
    <3> QED BY <1>8, <2>3, <3>1, <3>2
  <2>4. CASE d = c /\ o # op
    <3>1. sessions'[d].stats[o] = sessions[d].stats[o]
      BY <1>4, <1>11, <1>12, <2>4
    <3>2. Told(d, o)' = Told(d, o)
      BY <1>3, <2>2, <2>4
    <3> QED BY <2>1, <3>1, <3>2
  <2>5. CASE d # c
    <3>1. sessions'[d] = sessions[d]
      BY <1>12, <2>5
    <3>2. Told(d, o)' = Told(d, o)
      BY <1>3, <2>2, <2>5
    <3> QED BY <2>1, <3>1, <3>2
  <2> QED BY <2>3, <2>4, <2>5
<1>15. Tallied'
  BY <1>14 DEF Tallied
<1> QED BY <1>1, <1>13, <1>15

(* A reply that is no record, or no reply at all. *)
LEMMA RefusalKeeps ==
  ASSUME ClientTypeOK, Replies, Sessions, Tallied, NEW c \in ClientIds, NEW op \in uses,
         NEW kind \in {"InvalidRequest", "Busy"},
         sessions' = [sessions EXCEPT ![c] = sessions[c]],
         told' = Sent(c, op, kind, 0, 0),
         uses' = uses, ClientIds' = ClientIds, Len(servers') = Len(servers)
  PROVE  Replies' /\ Sessions' /\ Tallied'
<1>1. kind \in ReplyKinds
  BY DEF ReplyKinds
<1>2. /\ Replies'
      /\ \E k \in Nat :
           LET x == [of |-> c, op |-> op, kind |-> kind, count |-> 0, exist |-> 0, nth |-> k]
           IN  x \notin told /\ told' = told \union {x}
  BY <1>1, SentFacts
<1>3. PICK k \in Nat :
        told' = told \union {[of |-> c, op |-> op, kind |-> kind, count |-> 0, exist |-> 0,
                              nth |-> k]}
  BY <1>2
<1>4. \A d, o : Told(d, o)' = Told(d, o)
  BY <1>3 DEF Told
<1>5. sessions' = sessions
  BY DEF Sessions
<1>6. Sessions' /\ Tallied'
  BY <1>4, <1>5 DEF Sessions, Tallied
<1> QED BY <1>2, <1>6

(* What a server with room for one record more leaves room for. *)
LEMMA AnswerIsBounded ==
  ASSUME Replies, Cardinality(told) < MaxReplies, UNCHANGED clientVars,
         \/ told' = told
         \/ IsFiniteSet(told') /\ Cardinality(told') = Cardinality(told) + 1
  PROVE  Bounded'
<1>1. IsFiniteSet(told) /\ Cardinality(told) \in Nat
  BY FS_CardinalityType DEF Replies
<1>2. IsFiniteSet(told') /\ Cardinality(told') \in Nat /\ Cardinality(told') <= MaxReplies
  BY <1>1, SessionAssumption
<1>3. ASSUME NEW d PROVE Cardinality({x \in told' : x.of = d}) <= MaxReplies
  <2> DEFINE mine == {x \in told' : x.of = d}
  <2>1. mine \subseteq told'
    OBVIOUS
  <2> HIDE DEF mine
  <2>2. Cardinality(mine) \in Nat /\ Cardinality(mine) <= Cardinality(told')
    BY <1>2, <2>1, FS_Subset, FS_CardinalityType
  <2>3. Cardinality(mine) <= MaxReplies
    BY <1>2, <2>2, SessionAssumption
  <2> QED BY <2>3 DEF mine
<1> QED BY <1>3 DEF Bounded

LEMMA LoadSays ==
  ASSUME NEW c, NEW k
  PROVE  LET reply(kind, count) == [of |-> c, op |-> "indexBuild", kind |-> kind,
                                    count |-> count, exist |-> count, nth |-> k]
             guard(outcome) == Finish(Start("indexBuild"), outcome)
         IN  /\ \A found \in 0 .. 1 : Says(guard(CountOutcome(found)), reply("ok", found))
             /\ \A kind \in {"InvalidParams", "InternalError"} :
                  Says(guard(Failed("Io")), reply(kind, 0))
             /\ \A kind \in {"ContentModified", "RequestCanceled"} :
                  Says(guard(Cancelled), reply(kind, 0))
<1> DEFINE reply(kind, count) == [of |-> c, op |-> "indexBuild", kind |-> kind,
                                  count |-> count, exist |-> count, nth |-> k]
           guard(outcome) == Finish(Start("indexBuild"), outcome)
<1>1. \A outcome : /\ guard(outcome).op = "indexBuild" /\ guard(outcome).stale = FALSE
                   /\ guard(outcome).outcome = outcome
  BY DEF Start, Finish
<1>2. \A kind, count : /\ reply(kind, count).op = "indexBuild" /\ reply(kind, count).kind = kind
                       /\ reply(kind, count).count = count /\ reply(kind, count).exist = count
  OBVIOUS
<1> HIDE DEF reply, guard
<1>3. {"ok", "InvalidParams", "InternalError", "ContentModified", "RequestCanceled"}
        \subseteq ReplyKinds \ {"InvalidRequest", "Busy"}
  BY DEF ReplyKinds
<1>4. ReasonOf("indexBuild") = "NoMatch" /\ ~Limited("indexBuild")
  BY DEF ReasonOf, Limited
<1>5. ASSUME NEW found \in 0 .. 1
      PROVE  Says(guard(CountOutcome(found)), reply("ok", found))
  <2>1. found \in Nat
    OBVIOUS
  <2>2. /\ CountOutcome(found) \in Outcomes
        /\ found > 0 => CountOutcome(found).kind = "Answered" /\ CountOutcome(found).returned = found
                        /\ CountOutcome(found).total = found
        /\ found = 0 => CountOutcome(found) = Empty("NoMatch")
    BY <2>1, OutcomeFacts
  <2>4. found > 0 => ~(CountOutcome(found).returned < CountOutcome(found).total)
    BY <2>1, <2>2
  <2> DEFINE sent == reply("ok", found)
             kept == guard(CountOutcome(found))
  <2>5. sent.op = "indexBuild" /\ sent.kind = "ok" /\ sent.count = found /\ sent.exist = found
    BY <1>2
  <2>6. kept.op = "indexBuild" /\ kept.stale = FALSE /\ kept.outcome = CountOutcome(found)
    BY <1>1
  <2> HIDE DEF sent, kept
  <2>7. Says(kept, sent)
    BY <1>3, <1>4, <2>1, <2>2, <2>4, <2>5, <2>6 DEF Says, IsGivenUp
  <2> QED BY <2>7 DEF sent, kept
<1>6. ASSUME NEW kind \in {"InvalidParams", "InternalError"}
      PROVE  Says(guard(Failed("Io")), reply(kind, 0))
  <2>2. Failed("Io") \in Outcomes /\ Failed("Io").kind = "Failed"
    BY DEF Failed, Outcomes, Failures
  <2> DEFINE sent == reply(kind, 0)
             kept == guard(Failed("Io"))
  <2>5. sent.op = "indexBuild" /\ sent.kind = kind
    BY <1>2
  <2>6. kept.op = "indexBuild" /\ kept.stale = FALSE /\ kept.outcome = Failed("Io")
    BY <1>1
  <2> HIDE DEF sent, kept
  <2>7. Says(kept, sent)
    BY <1>3, <1>4, <1>6, <2>2, <2>5, <2>6 DEF Says, IsGivenUp
  <2> QED BY <2>7 DEF sent, kept
<1>7. ASSUME NEW kind \in {"ContentModified", "RequestCanceled"}
      PROVE  Says(guard(Cancelled), reply(kind, 0))
  <2>2. Cancelled \in Outcomes
    BY DEF Outcomes
  <2> DEFINE sent == reply(kind, 0)
             kept == guard(Cancelled)
  <2>5. sent.op = "indexBuild" /\ sent.kind = kind
    BY <1>2
  <2>6. kept.op = "indexBuild" /\ kept.stale = FALSE /\ kept.outcome = Cancelled
    BY <1>1
  <2> HIDE DEF sent, kept
  <2>7. Says(kept, sent)
    BY <1>3, <1>4, <2>2, <2>5, <2>6 DEF Says, IsGivenUp
  <2> QED BY <2>7 DEF sent, kept
<1> QED BY <1>5, <1>6, <1>7 DEF reply, guard

(* Servers are only ever added, and one that has answered its shutdown never *)
(* comes back.                                                               *)
LEMMA ServersStep ==
  ASSUME ClientInv, StartPending,
         SettingsChange \/ Deactivate \/ Operates
           \/ \E c \in ClientIds : AnswersShutdown(c) \/ Exits(c)
  PROVE  /\ StartPending'
         /\ Len(servers') \in {Len(servers), Len(servers) + 1}
         /\ \A c \in ClientIds : Phase(c) \in {"shutdown", "exited"} =>
              Phase(c)' \in {"shutdown", "exited"}
<1>1. ClientTypeOK
  BY DEF ClientInv
<1>2. ClientIds = 1 .. Len(servers) /\ Len(servers) \in Nat
  BY <1>1 DEF ClientTypeOK, ClientIds
<1>3. ASSUME UNCHANGED <<operation, servers>>
      PROVE  /\ StartPending'
             /\ Len(servers') \in {Len(servers), Len(servers) + 1}
             /\ \A c \in ClientIds : Phase(c) \in {"shutdown", "exited"} =>
                  Phase(c)' \in {"shutdown", "exited"}
  BY <1>3 DEF StartPending, Phase
<1>4. ASSUME Return
      PROVE  /\ StartPending'
             /\ Len(servers') \in {Len(servers), Len(servers) + 1}
             /\ \A c \in ClientIds : Phase(c) \in {"shutdown", "exited"} =>
                  Phase(c)' \in {"shutdown", "exited"}
  BY <1>4 DEF Return, StartPending, Phase, Idle
<1>5. ASSUME NEW kind \in {"start", "restart"}, StartClient(kind)
      PROVE  /\ StartPending'
             /\ Len(servers') \in {Len(servers), Len(servers) + 1}
             /\ \A c \in ClientIds : Phase(c) \in {"shutdown", "exited"} =>
                  Phase(c)' \in {"shutdown", "exited"}
  <2>1. /\ Len(servers') = Len(servers) + 1
        /\ \A c \in 1 .. Len(servers) : servers'[c] = servers[c]
        /\ servers'[Len(servers) + 1].phase = "starting"
        /\ operation' = [kind |-> kind, awaits |-> "start", of |-> Len(servers) + 1]
    BY <1>1, <1>5, StartClientStep
  <2> QED BY <1>2, <2>1 DEF StartPending, Phase
<1>6. ASSUME NEW kind \in Kinds, current # NoClient, StopClient(kind)
      PROVE  /\ StartPending'
             /\ Len(servers') \in {Len(servers), Len(servers) + 1}
             /\ \A c \in ClientIds : Phase(c) \in {"shutdown", "exited"} =>
                  Phase(c)' \in {"shutdown", "exited"}
  <2>1. /\ Len(servers') = Len(servers)
        /\ \A c \in DOMAIN servers : servers'[c].phase = servers[c].phase
        /\ operation' = [kind |-> kind, awaits |-> "stop", of |-> current]
    BY <1>1, <1>6, StopClientStep
  <2> QED BY <2>1 DEF StartPending, Phase, ClientIds
<1>7. ASSUME NEW c \in ClientIds, NEW phase \in {"running", "shutdown", "exited"},
             servers' = [servers EXCEPT ![c].phase = phase],
             phase = "running" => Phase(c) \notin {"shutdown", "exited"},
             operation' # Idle /\ operation'.awaits = "start" =>
               operation' = operation /\ Phase(c) # "starting"
      PROVE  /\ StartPending'
             /\ Len(servers') \in {Len(servers), Len(servers) + 1}
             /\ \A d \in ClientIds : Phase(d) \in {"shutdown", "exited"} =>
                  Phase(d)' \in {"shutdown", "exited"}
  <2>1. /\ Len(servers') = Len(servers)
        /\ servers'[c].phase = phase
        /\ \A d \in DOMAIN servers : d # c => servers'[d].phase = servers[d].phase
    BY <1>1, <1>7, PhaseStep
  <2>2. operation # Idle /\ operation.awaits = "start" => operation.of \in ClientIds
    BY <1>1 DEF ClientTypeOK
  <2>3. StartPending'
    BY <1>7, <2>1, <2>2 DEF StartPending, Phase, ClientIds
  <2> QED BY <1>7, <2>1, <2>3 DEF Phase, ClientIds
<1>8. ASSUME Awaited("start") PROVE operation.of \in ClientIds /\ Phase(operation.of) = "starting"
  BY <1>1, <1>8 DEF Awaited, StartPending, ClientTypeOK
<1>a. CASE SettingsChange \/ Deactivate
  BY <1>3, <1>a DEF SettingsChange, Deactivate
<1>b. CASE BeginStart \/ BeginRestart \/ BeginShutdown
  BY <1>4, <1>5, <1>6, <1>b DEF BeginStart, BeginRestart, BeginShutdown, Kinds
<1>c. CASE StopResolves \/ StopRejects \/ MessageDismissed
  BY <1>4, <1>5, <1>c DEF StopResolves, StopRejects, MessageDismissed
<1>d. CASE StartResolves
  <2>1. /\ servers' = [servers EXCEPT ![operation.of].phase = "running"] /\ operation' = Idle
        /\ Awaited("start")
    BY <1>d DEF StartResolves
  <2> QED BY <1>7, <1>8, <2>1
<1>e. CASE StartRejects
  <2>1. /\ servers' = [servers EXCEPT ![operation.of].phase = "exited"]
        /\ operation' = [operation EXCEPT !.awaits = "answer"] /\ Awaited("start")
    BY <1>e DEF StartRejects
  <2>2. operation'.awaits # "start"
    BY <1>1, <2>1 DEF Awaited, ClientTypeOK
  <2> QED BY <1>7, <1>8, <2>1, <2>2
<1>f. ASSUME NEW c \in ClientIds, AnswersShutdown(c) \/ Exits(c)
      PROVE  /\ StartPending'
             /\ Len(servers') \in {Len(servers), Len(servers) + 1}
             /\ \A d \in ClientIds : Phase(d) \in {"shutdown", "exited"} =>
                  Phase(d)' \in {"shutdown", "exited"}
  <2>1. \E phase \in {"shutdown", "exited"} :
          servers' = [servers EXCEPT ![c].phase = phase]
    BY <1>f DEF AnswersShutdown, Exits
  <2>2. operation' = operation /\ Phase(c) # "starting"
    BY <1>f DEF AnswersShutdown, Exits, Phase
  <2> QED BY <1>7, <2>1, <2>2
<1> QED BY <1>a, <1>b, <1>c, <1>d, <1>e, <1>f DEF Operates

LEMMA SessionInvInit == Init => SessionInv
<1> SUFFICES ASSUME Init PROVE SessionInv
  OBVIOUS
<1>1. ClientInv
  BY ClientInvInit DEF Init
<1>2. /\ operation = Idle /\ servers = <<>> /\ sessions = <<>> /\ told = {} /\ uses \in Used
  BY DEF Init, ClientInit
<1>3. StartPending
  BY <1>2 DEF StartPending
<1>4. Replies
  BY <1>2, FS_EmptySet DEF Replies
<1>5. Sessions /\ Tallied /\ Bounded
  BY <1>2 DEF Sessions, Tallied, Bounded, ClientIds
<1> QED BY <1>1, <1>3, <1>4, <1>5 DEF SessionInv

(* An answer of a server, once its reply and its record are seen to agree. *)
LEMMA AnswerInv ==
  ASSUME SessionInv, Cardinality(told) < MaxReplies, UNCHANGED clientVars,
         Replies', Sessions', Tallied',
         \/ told' = told
         \/ IsFiniteSet(told') /\ Cardinality(told') = Cardinality(told) + 1
  PROVE  SessionInv'
<1>1. ClientInv'
  BY ClientInvNext DEF SessionInv
<1>2. StartPending'
  BY DEF SessionInv, StartPending, clientVars, Phase
<1>3. Bounded'
  BY AnswerIsBounded DEF SessionInv
<1> QED BY <1>1, <1>2, <1>3 DEF SessionInv

(* A server that runs has room for one record more. *)
LEMMA RoomFor ==
  ASSUME SessionInv, NEW c \in ClientIds, servers[c].phase = "running"
  PROVE  Cardinality({x \in told : x.of = c}) <= MaxReplies
  BY DEF SessionInv, Bounded, Phase

LEMMA QueryInv ==
  ASSUME SessionInv, NEW c \in ClientIds, NEW op \in uses \ {"indexBuild"}, Query(c, op)
  PROVE  SessionInv'
<1>1. op \in ClientFacing
  BY SessionAssumption DEF SessionInv, Replies, Ops
<1>2. PICK left \in AllLeft :
        /\ left.guard.op = op
        /\ Answer(c, Recorded(sessions[c], left.guard),
                  Sent(c, op, left.kind, left.count, left.exist))
  BY DEF Query
<1>3. PICK o \in ClientFacing, world \in Worlds : left = OnRequest(o, world)
  BY DEF AllLeft
<1>4. Agrees(o, left)
  BY <1>3, RequestAgrees
<1> DEFINE kind == left.kind
           count == left.count
           exist == left.exist
           guard == left.guard
           session == Recorded(sessions[c], guard)
<1>5. \A k : Says(guard, [of |-> c, op |-> o, kind |-> kind, count |-> count,
                          exist |-> exist, nth |-> k])
  BY <1>4 DEF Agrees, ReplyOf
<1>6. count \in Nat /\ exist \in Nat
  BY <1>4 DEF Agrees
<1>7. guard.op = o /\ kind \in ReplyKinds \ {"InvalidRequest", "Busy"}
  <2> DEFINE x == [of |-> c, op |-> o, kind |-> kind, count |-> count, exist |-> exist,
                   nth |-> 0]
  <2>1. Says(guard, x) /\ x.op = o /\ x.kind = kind
    BY <1>5
  <2> HIDE DEF x, guard, kind
  <2> QED BY <2>1 DEF Says
<1>8. o = op
  BY <1>2, <1>7
<1>9. /\ Cardinality(told) < MaxReplies
      /\ sessions' = [sessions EXCEPT ![c] = session]
      /\ told' = Sent(c, op, kind, count, exist)
      /\ UNCHANGED clientVars /\ uses' = uses
  BY <1>2 DEF Answer
<1>10. ClientIds' = ClientIds /\ Len(servers') = Len(servers)
  BY <1>9 DEF clientVars, ClientIds
<1>11. Cardinality({x \in told : x.of = c}) <= MaxReplies
  BY RoomFor DEF Query
<1> HIDE DEF kind, count, exist, guard
<1>12. Replies' /\ Sessions' /\ Tallied'
  BY <1>5, <1>6, <1>7, <1>8, <1>9, <1>10, <1>11, RecordKeeps DEF SessionInv, ClientInv
<1>13. IsFiniteSet(told') /\ Cardinality(told') = Cardinality(told) + 1
  <2>1. kind \in ReplyKinds
    BY <1>7
  <2>2. Cardinality(told') = Cardinality(told) + 1
    BY <1>6, <1>9, <1>10, <2>1, SentFacts DEF SessionInv
  <2> QED BY <1>12, <2>2 DEF Replies
<1> QED BY <1>9, <1>12, <1>13, AnswerInv

LEMMA RefusedInv ==
  ASSUME SessionInv, NEW c \in ClientIds, NEW op \in uses,
         NEW kind \in {"InvalidRequest", "Busy"},
         Answer(c, sessions[c], Sent(c, op, kind, 0, 0))
  PROVE  SessionInv'
<1>1. /\ Cardinality(told) < MaxReplies
      /\ sessions' = [sessions EXCEPT ![c] = sessions[c]]
      /\ told' = Sent(c, op, kind, 0, 0)
      /\ UNCHANGED clientVars /\ uses' = uses
  BY DEF Answer
<1>2. ClientIds' = ClientIds /\ Len(servers') = Len(servers)
  BY <1>1 DEF clientVars, ClientIds
<1>3. Replies' /\ Sessions' /\ Tallied'
  BY <1>1, <1>2, RefusalKeeps DEF SessionInv, ClientInv
<1>4. IsFiniteSet(told') /\ Cardinality(told') = Cardinality(told) + 1
  <2>1. kind \in ReplyKinds
    BY DEF ReplyKinds
  <2>2. Cardinality(told') = Cardinality(told) + 1
    BY <1>1, <1>2, <2>1, SentFacts DEF SessionInv
  <2> QED BY <1>3, <2>2 DEF Replies
<1> QED BY <1>1, <1>3, <1>4, AnswerInv

LEMMA LoadIndexInv ==
  ASSUME SessionInv, NEW c \in ClientIds, "indexBuild" \in uses, LoadIndex(c)
  PROVE  SessionInv'
<1>1. CASE Answer(c, sessions[c], Sent(c, "indexBuild", "Busy", 0, 0))
  BY <1>1, RefusedInv
<1>2. CASE Answer(c, [sessions[c] EXCEPT !.loading = TRUE], told)
  <2> DEFINE Session == [loading : BOOLEAN, stats : [uses -> Stats]]
             session == [sessions[c] EXCEPT !.loading = TRUE]
  <2>1. /\ Cardinality(told) < MaxReplies /\ told' = told
        /\ sessions' = [sessions EXCEPT ![c] = session]
        /\ UNCHANGED clientVars /\ uses' = uses
    BY <1>2 DEF Answer
  <2>2. ClientIds' = ClientIds /\ Len(servers') = Len(servers) /\ servers \in Seq(Server)
    BY <2>1 DEF clientVars, ClientIds, SessionInv, ClientInv, ClientTypeOK
  <2>3. sessions \in Seq(Session) /\ Len(sessions) = Len(servers)
    BY DEF SessionInv, Sessions
  <2>4. c \in DOMAIN sessions /\ DOMAIN sessions = ClientIds
    <3> HIDE DEF Session
    <3>1. DOMAIN sessions = 1 .. Len(sessions) /\ ClientIds = 1 .. Len(servers)
      BY <2>2, <2>3 DEF ClientIds
    <3> QED BY <2>3, <3>1
  <2>5. session \in Session /\ session.stats = sessions[c].stats
    <3>1. sessions[c] \in Session
      <4> HIDE DEF Session
      <4> QED BY <2>3, <2>4
    <3> QED BY <3>1
  <2> HIDE DEF session
  <2>6. /\ sessions' \in Seq(Session) /\ Len(sessions') = Len(sessions)
        /\ \A d \in ClientIds : sessions'[d].stats = sessions[d].stats
    <3> HIDE DEF Session
    <3> QED BY <2>1, <2>3, <2>4, <2>5
  <2>7. Sessions'
    BY <2>1, <2>2, <2>3, <2>6 DEF Sessions
  <2>8. Replies'
    BY <2>1, <2>2 DEF SessionInv, Replies, Reply, Same
  <2>9. Tallied'
    BY <2>1, <2>2, <2>6 DEF SessionInv, Tallied, Told
  <2> QED BY <2>1, <2>7, <2>8, <2>9, AnswerInv
<1> QED BY <1>1, <1>2 DEF LoadIndex

(* The end of a load is a record of it and a reply. *)
LEMMA EndKeeps ==
  ASSUME SessionInv, NEW c \in ClientIds, "indexBuild" \in uses,
         servers[c].phase = "running",
         NEW kind \in ReplyKinds \ {"InvalidRequest", "Busy"}, NEW count \in Nat, NEW outcome,
         \A k : Says(Finish(Start("indexBuild"), outcome),
                     [of |-> c, op |-> "indexBuild", kind |-> kind, count |-> count,
                      exist |-> count, nth |-> k]),
         sessions' = [sessions EXCEPT ![c] = Ended(sessions[c], outcome)],
         told' = Sent(c, "indexBuild", kind, count, count),
         uses' = uses, ClientIds' = ClientIds, Len(servers') = Len(servers)
  PROVE  /\ Replies' /\ Sessions' /\ Tallied'
         /\ Cardinality(told') = Cardinality(told) + 1
<1> DEFINE guard == Finish(Start("indexBuild"), outcome)
           session == Ended(sessions[c], outcome)
<1>1. guard.op = "indexBuild"
  BY DEF Finish, Start
<1>2. session = [Recorded(sessions[c], guard) EXCEPT !.loading = FALSE]
  BY DEF Ended
<1>3. Cardinality({x \in told : x.of = c}) <= MaxReplies
  BY RoomFor
<1> HIDE DEF guard, session
<1>4. Replies' /\ Sessions' /\ Tallied'
  <2>1. \A k : Says(guard, [of |-> c, op |-> "indexBuild", kind |-> kind, count |-> count,
                            exist |-> count, nth |-> k])
    BY DEF guard
  <2>2. sessions' = [sessions EXCEPT ![c] = session]
    BY DEF session
  <2>3. ClientTypeOK /\ Replies /\ Sessions /\ Tallied
    BY DEF SessionInv, ClientInv
  <2> QED BY ONLY <1>1, <1>2, <1>3, <2>1, <2>2, <2>3, c \in ClientIds, "indexBuild" \in uses,
             kind \in ReplyKinds \ {"InvalidRequest", "Busy"}, count \in Nat,
             told' = Sent(c, "indexBuild", kind, count, count), uses' = uses,
             ClientIds' = ClientIds, Len(servers') = Len(servers), RecordKeeps
<1>5. Cardinality(told') = Cardinality(told) + 1
  BY SentFacts DEF SessionInv
<1> QED BY <1>4, <1>5

LEMMA LoadEndsInv ==
  ASSUME SessionInv, NEW c \in ClientIds, "indexBuild" \in uses, LoadEnds(c)
  PROVE  SessionInv'
<1>1. servers[c].phase = "running"
  BY DEF LoadEnds
<1>2. ASSUME NEW kind \in ReplyKinds \ {"InvalidRequest", "Busy"}, NEW count \in Nat,
             NEW outcome,
             \A k : Says(Finish(Start("indexBuild"), outcome),
                         [of |-> c, op |-> "indexBuild", kind |-> kind, count |-> count,
                          exist |-> count, nth |-> k]),
             Answer(c, Ended(sessions[c], outcome), Sent(c, "indexBuild", kind, count, count))
      PROVE  SessionInv'
  <2>1. /\ Cardinality(told) < MaxReplies
        /\ sessions' = [sessions EXCEPT ![c] = Ended(sessions[c], outcome)]
        /\ told' = Sent(c, "indexBuild", kind, count, count)
        /\ UNCHANGED clientVars /\ uses' = uses
    BY <1>2 DEF Answer
  <2>2. ClientIds' = ClientIds /\ Len(servers') = Len(servers)
    BY <2>1 DEF clientVars, ClientIds
  <2>3. Replies' /\ Sessions' /\ Tallied' /\ Cardinality(told') = Cardinality(told) + 1
    BY <1>1, <1>2, <2>1, <2>2, EndKeeps
  <2>4. IsFiniteSet(told')
    BY <2>3 DEF Replies
  <2> QED BY <2>1, <2>3, <2>4, AnswerInv
<1>3. {"ok", "InvalidParams", "InternalError", "ContentModified", "RequestCanceled"}
        \subseteq ReplyKinds \ {"InvalidRequest", "Busy"}
  BY DEF ReplyKinds
<1>4. ASSUME NEW found \in 0 .. 1,
             Answer(c, Ended(sessions[c], CountOutcome(found)),
                    Sent(c, "indexBuild", "ok", found, found))
      PROVE  SessionInv'
  <2>1. \A k : Says(Finish(Start("indexBuild"), CountOutcome(found)),
                    [of |-> c, op |-> "indexBuild", kind |-> "ok", count |-> found,
                     exist |-> found, nth |-> k])
    BY LoadSays
  <2>2. found \in Nat
    OBVIOUS
  <2> QED BY <1>2, <1>3, <1>4, <2>1, <2>2
<1>5. ASSUME NEW kind \in {"InvalidParams", "InternalError"},
             Answer(c, Ended(sessions[c], Failed("Io")), Sent(c, "indexBuild", kind, 0, 0))
      PROVE  SessionInv'
  <2>1. \A k : Says(Finish(Start("indexBuild"), Failed("Io")),
                    [of |-> c, op |-> "indexBuild", kind |-> kind, count |-> 0,
                     exist |-> 0, nth |-> k])
    BY LoadSays
  <2> QED BY <1>2, <1>3, <1>5, <2>1
<1>6. ASSUME NEW kind \in {"ContentModified", "RequestCanceled"},
             Answer(c, Ended(sessions[c], Cancelled), Sent(c, "indexBuild", kind, 0, 0))
      PROVE  SessionInv'
  <2>1. \A k : Says(Finish(Start("indexBuild"), Cancelled),
                    [of |-> c, op |-> "indexBuild", kind |-> kind, count |-> 0,
                     exist |-> 0, nth |-> k])
    BY LoadSays
  <2> QED BY <1>2, <1>3, <1>6, <2>1
<1> QED BY <1>4, <1>5, <1>6 DEF LoadEnds

(* The record that a shutdown adds is the one there is room for, and the *)
(* server gets no other one.                                             *)
LEMMA ShutdownInv ==
  ASSUME SessionInv, NEW c \in ClientIds, Shutdown(c)
  PROVE  SessionInv'
<1>1. AnswersShutdown(c) /\ uses' = uses /\ servers[c].phase = "running"
  BY DEF Shutdown, AnswersShutdown
<1>2. ClientInv /\ StartPending /\ ClientTypeOK
  BY DEF SessionInv, ClientInv
<1>3. ClientInv'
  BY <1>1, <1>2, ServerStepInv
<1>4. StartPending'
  BY <1>1, <1>2, ServersStep
<1>5. /\ Len(servers') = Len(servers) /\ DOMAIN servers' = DOMAIN servers
      /\ servers'[c].phase = "shutdown"
      /\ \A d \in DOMAIN servers : d # c => servers'[d].phase = servers[d].phase
  BY <1>1, <1>2, PhaseStep DEF AnswersShutdown
<1>6. ClientIds' = ClientIds
  BY <1>5 DEF ClientIds
<1>7. ASSUME \A d \in ClientIds : d # c => {x \in told' : x.of = d} = {x \in told : x.of = d}
      PROVE  Bounded'
  <2> SUFFICES ASSUME NEW d \in ClientIds, Phase(d)' \notin {"shutdown", "exited"}
               PROVE  Cardinality({x \in told' : x.of = d}) <= MaxReplies
    BY <1>6 DEF Bounded
  <2>1. d # c /\ Phase(d) = Phase(d)'
    BY <1>5 DEF Phase, ClientIds
  <2>2. {x \in told' : x.of = d} = {x \in told : x.of = d}
    BY <1>7, <2>1
  <2>3. Cardinality({x \in told : x.of = d}) <= MaxReplies
    BY <2>1 DEF SessionInv, Bounded
  <2> QED BY <2>2, <2>3
<1>8. CASE sessions[c].loading
  <2>1. /\ sessions' = [sessions EXCEPT ![c] = Ended(sessions[c], Cancelled)]
        /\ told' = Sent(c, "indexBuild", "RequestCanceled", 0, 0)
    BY <1>8 DEF Shutdown
  <2>2. "indexBuild" \in uses
    BY <1>8 DEF SessionInv, Sessions
  <2>3. \A k : Says(Finish(Start("indexBuild"), Cancelled),
                    [of |-> c, op |-> "indexBuild", kind |-> "RequestCanceled", count |-> 0,
                     exist |-> 0, nth |-> k])
    BY LoadSays
  <2>4. "RequestCanceled" \in ReplyKinds \ {"InvalidRequest", "Busy"}
    BY DEF ReplyKinds
  <2>5. Replies' /\ Sessions' /\ Tallied'
    BY <1>1, <1>5, <1>6, <2>1, <2>2, <2>3, <2>4, EndKeeps
  <2>6. \A d \in ClientIds : d # c => {x \in told' : x.of = d} = {x \in told : x.of = d}
    BY <2>1 DEF Sent
  <2> QED BY <1>3, <1>4, <1>7, <2>5, <2>6 DEF SessionInv
<1>9. CASE ~sessions[c].loading
  <2>1. sessions' = sessions /\ told' = told
    BY <1>9 DEF Shutdown
  <2>2. Replies' /\ Sessions' /\ Tallied'
    BY <1>1, <1>5, <1>6, <2>1
       DEF SessionInv, Replies, Reply, Same, Sessions, Tallied, Told
  <2> QED BY <1>3, <1>4, <1>7, <2>1, <2>2 DEF SessionInv
<1> QED BY <1>8, <1>9

(* A new server has been told nothing. *)
LEMMA LifecycleInv == SessionInv /\ Lifecycle => SessionInv'
<1> SUFFICES ASSUME SessionInv, Lifecycle PROVE SessionInv'
  OBVIOUS
<1> DEFINE Session == [loading : BOOLEAN, stats : [uses -> Stats]]
<1>1. /\ ClientNext
      /\ SettingsChange \/ Deactivate \/ Operates
           \/ \E c \in ClientIds : AnswersShutdown(c) \/ Exits(c)
      /\ uses' = uses /\ told' = told
      /\ sessions' = IF Len(servers') > Len(servers) THEN Append(sessions, NewSession)
                     ELSE sessions
  BY DEF Lifecycle, ClientNext
<1>2. ClientInv'
  BY <1>1, ClientInvNext DEF SessionInv
<1>3. /\ StartPending'
      /\ Len(servers') \in {Len(servers), Len(servers) + 1}
      /\ \A c \in ClientIds : Phase(c) \in {"shutdown", "exited"} =>
           Phase(c)' \in {"shutdown", "exited"}
  BY <1>1, ServersStep DEF SessionInv
<1>4. /\ Len(servers) \in Nat
      /\ ClientIds = 1 .. Len(servers) /\ ClientIds' = 1 .. Len(servers')
  BY <1>2 DEF SessionInv, ClientInv, ClientTypeOK, ClientIds
<1>5. sessions \in Seq(Session) /\ Len(sessions) = Len(servers)
  BY DEF SessionInv, Sessions
<1>6. NewSession \in Session /\ NewSession.loading = FALSE
      /\ \A op \in uses : NewSession.stats[op] = NoStats
  <2>1. NoStats \in Stats
    BY NothingTallied DEF Tallies
  <2> QED BY <2>1 DEF NewSession
<1>7. /\ sessions' \in Seq(Session) /\ Len(sessions') = Len(servers')
      /\ \A c \in ClientIds : sessions'[c] = sessions[c]
      /\ \A c \in ClientIds' : c \notin ClientIds => sessions'[c] = NewSession
  <2> HIDE DEF Session
  <2>1. CASE Len(servers') = Len(servers)
    <3>1. sessions' = sessions
      BY <1>1, <1>4, <2>1
    <3> QED BY <1>4, <1>5, <2>1, <3>1
  <2>2. CASE Len(servers') = Len(servers) + 1
    <3>1. sessions' = Append(sessions, NewSession)
      BY <1>1, <1>4, <2>2
    <3> QED BY <1>4, <1>5, <1>6, <2>2, <3>1, Appended
  <2> QED BY <1>3, <2>1, <2>2
<1> HIDE DEF Session
<1>8. ClientIds \subseteq ClientIds'
  BY <1>3, <1>4
<1>9. ASSUME NEW c, c \notin ClientIds PROVE {x \in told : x.of = c} = {}
  <2>1. \A x \in told : x.of \in ClientIds
    BY DEF SessionInv, Replies, Reply
  <2> QED BY <1>9, <2>1
<1>10. Replies'
  <2>1. told \subseteq Reply' /\ uses \in Used /\ IsFiniteSet(told)
    BY <1>1, <1>8 DEF SessionInv, Replies, Reply
  <2>2. \A x \in told : x.nth <= Cardinality(Same(x.of, x.op, x.kind, x.count, x.exist)')
    BY <1>1 DEF SessionInv, Replies, Same
  <2> QED BY <1>1, <2>1, <2>2 DEF Replies
<1>11. Sessions'
  <2>1. ASSUME NEW c \in ClientIds', sessions'[c].loading PROVE "indexBuild" \in uses
    BY <1>6, <1>7, <2>1 DEF SessionInv, Sessions
  <2> QED BY <1>1, <1>7, <2>1 DEF Sessions, Session
<1>12. Tallied'
  <2> SUFFICES ASSUME NEW c \in ClientIds', NEW op \in uses
               PROVE  Tallies(sessions'[c].stats[op], op, Told(c, op)')
    BY <1>1 DEF Tallied
  <2>1. Told(c, op)' = Told(c, op)
    BY <1>1 DEF Told
  <2>2. CASE c \in ClientIds
    BY <1>7, <2>1, <2>2 DEF SessionInv, Tallied
  <2>3. CASE c \notin ClientIds
    <3>1. Told(c, op) = {}
      BY <1>9, <2>3 DEF Told
    <3>2. sessions'[c].stats[op] = NoStats
      BY <1>6, <1>7, <2>3
    <3> QED BY <2>1, <3>1, <3>2, NothingTallied
  <2> QED BY <2>2, <2>3
<1>13. Bounded'
  <2> SUFFICES ASSUME NEW c \in ClientIds', Phase(c)' \notin {"shutdown", "exited"}
               PROVE  Cardinality({x \in told : x.of = c}) <= MaxReplies
    BY <1>1 DEF Bounded
  <2>1. CASE c \in ClientIds
    BY <1>3, <2>1 DEF SessionInv, Bounded
  <2>2. CASE c \notin ClientIds
    <3>1. {x \in told : x.of = c} = {}
      BY <1>9, <2>2
    <3>2. 0 <= MaxReplies
      BY SessionAssumption
    <3>3. Cardinality({x \in told : x.of = c}) = 0
      BY ONLY <3>1, FS_EmptySet, Zenon
    <3> QED BY <3>2, <3>3
  <2> QED BY <2>1, <2>2
<1> QED BY <1>2, <1>3, <1>10, <1>11, <1>12, <1>13 DEF SessionInv

LEMMA SessionInvNext == SessionInv /\ [Next]_vars => SessionInv'
<1> SUFFICES ASSUME SessionInv, [Next]_vars PROVE SessionInv'
  OBVIOUS
<1>1. CASE Lifecycle
  BY <1>1, LifecycleInv
<1>2. ASSUME NEW c \in ClientIds, NEW op \in uses \ {"indexBuild"},
             Query(c, op) \/ QueryAfterShutdown(c, op)
      PROVE  SessionInv'
  BY <1>2, QueryInv, RefusedInv DEF QueryAfterShutdown
<1>3. ASSUME NEW c \in ClientIds, "indexBuild" \in uses, LoadIndex(c) \/ LoadEnds(c)
      PROVE  SessionInv'
  BY <1>3, LoadIndexInv, LoadEndsInv
<1>4. ASSUME NEW c \in ClientIds, Shutdown(c) PROVE SessionInv'
  BY <1>4, ShutdownInv
<1>5. CASE UNCHANGED vars
  <2>1. UNCHANGED <<clientVars, uses, sessions, told>>
    BY <1>5 DEF vars
  <2>2. ClientInv'
    BY <2>1, ClientInvNext DEF SessionInv
  <2>3. ClientIds' = ClientIds /\ UNCHANGED <<operation, servers>>
    BY <2>1 DEF clientVars, ClientIds
  <2>4. StartPending' /\ Bounded'
    BY <2>1, <2>3 DEF SessionInv, StartPending, Bounded, Phase
  <2>5. Replies' /\ Sessions' /\ Tallied'
    <3>1. Replies'
      BY <2>1, <2>3 DEF SessionInv, Replies, Reply, Same
    <3>2. Sessions'
      BY <2>1, <2>3 DEF SessionInv, Sessions
    <3>3. Tallied'
      BY <2>1, <2>3 DEF SessionInv, Tallied, Told
    <3> QED BY <3>1, <3>2, <3>3
  <2> QED BY <2>2, <2>4, <2>5 DEF SessionInv
<1> QED BY <1>1, <1>2, <1>3, <1>4, <1>5 DEF Next

-----------------------------------------------------------------------------
(* What the counters say. *)

LEMMA Types == SessionInv => TypeOK
<1> SUFFICES ASSUME SessionInv PROVE TypeOK
  OBVIOUS
<1> DEFINE Session == [loading : BOOLEAN, stats : [uses -> Stats]]
<1>1. ClientTypeOK /\ uses \in Used
  BY DEF SessionInv, ClientInv, Replies
<1>2. told \subseteq [of : ClientIds, op : uses, kind : ReplyKinds,
                      count : Nat, exist : Nat, nth : Nat]
  BY DEF SessionInv, Replies, Reply
<1>3. /\ sessions \in Seq(Session) /\ Len(sessions) = Len(servers) /\ servers \in Seq(Server)
  BY <1>1 DEF SessionInv, Sessions, ClientTypeOK
<1>4. DOMAIN sessions = DOMAIN servers /\ \A c \in ClientIds : sessions[c] \in Session
  <2> HIDE DEF Session
  <2>1. DOMAIN sessions = 1 .. Len(sessions) /\ ClientIds = 1 .. Len(servers)
        /\ DOMAIN servers = ClientIds
    BY <1>3 DEF ClientIds
  <2> QED BY <1>3, <2>1
<1>5. ASSUME NEW c \in ClientIds, NEW op \in uses
      PROVE  LET stats == sessions[c].stats[op]
             IN  /\ stats.samples \in Seq(0 .. MaxMicros)
                 /\ Len(stats.samples) <= SampleWindow
                 /\ stats.next \in 0 .. SampleWindow - 1
  <2> DEFINE stats == sessions[c].stats[op]
  <2>1. stats \in Stats /\ Ring(stats.samples, stats.next, stats.total)
    BY DEF SessionInv, Tallied, Tallies
  <2>2. stats.total \in Nat
    BY <2>1 DEF Stats
  <2> HIDE DEF stats
  <2>3. /\ stats.samples \in Seq(0 .. MaxMicros)
        /\ Len(stats.samples) <= SampleWindow
        /\ stats.next \in 0 .. SampleWindow - 1
    BY <2>1, <2>2, TelemetryAssumption DEF Ring
  <2> QED BY <2>3 DEF stats
<1>6. \A c \in ClientIds : sessions[c].loading \in BOOLEAN
  BY <1>4
<1> QED BY <1>1, <1>2, <1>4, <1>5, <1>6 DEF TypeOK

(* The shares that a concern is about, in tens and in hundreds. *)
LEMMA Shares ==
  ASSUME NEW a \in Nat, NEW b \in Nat
  PROVE  /\ a * 100 > 5 * b <=> a * 20 > b
         /\ a * 100 > 25 * b <=> a * 4 > b
  OBVIOUS

LEMMA CountersTell ==
  ASSUME NEW op \in Ops, NEW stats, NEW replies, IsFiniteSet(replies),
         Tallies(stats, op, replies)
  PROVE  LET health == OpHealth(stats)
             concerns == DetectConcerns(op, health)
             total == Cardinality(replies)
             listed == Cardinality(Listed(replies))
             nothing == Cardinality(Nothing(replies))
             errors == Cardinality(Errors(replies))
             short == Cardinality(Short(replies))
         IN  /\ health.total = total
             /\ health.answered = listed
             /\ health.noMatch + health.misleading = nothing
             /\ health.failed = errors
             /\ health.cancelled = Cardinality(GivenUp(replies))
             /\ op \notin CallOps => health.truncated = short
             /\ \A p \in {50, 95, 99} :
                  total > 0 => IsPercentile(Recent(total), p, health.percentiles[p])
             /\ op # "documentSymbol" => health.noMatch = nothing
             /\ "MisleadingEmpties" \in concerns => op = "documentSymbol" /\ nothing > 0
             /\ "StaleReads" \in concerns => Late(replies) # {}
             /\ "Failing" \in concerns <=> errors * 20 > total
             /\ op \notin CallOps =>
                  ("HeavyTruncation" \in concerns <=> short * 4 > listed)
<1> DEFINE health == OpHealth(stats)
           concerns == DetectConcerns(op, health)
           total == Cardinality(replies)
           listed == Cardinality(Listed(replies))
           nothing == Cardinality(Nothing(replies))
           errors == Cardinality(Errors(replies))
           short == Cardinality(Short(replies))
           late == Cardinality(Late(replies))
<1>1. /\ total \in Nat /\ listed \in Nat /\ nothing \in Nat /\ errors \in Nat /\ short \in Nat
      /\ late \in Nat /\ (late > 0 <=> Late(replies) # {})
  <2>1. /\ Listed(replies) \subseteq replies /\ Nothing(replies) \subseteq replies
        /\ Errors(replies) \subseteq replies /\ Short(replies) \subseteq replies
        /\ Late(replies) \subseteq replies
    BY DEF Listed, Nothing, Errors, Short, Late
  <2>2. \A S : S \subseteq replies => IsFiniteSet(S) /\ Cardinality(S) \in Nat
    BY FS_Subset, FS_CardinalityType
  <2>3. IsFiniteSet(Late(replies)) /\ late \in Nat
    BY <2>1, <2>2
  <2>4. late = 0 <=> Late(replies) = {}
    BY <2>3, FS_EmptySet
  <2>5. late > 0 <=> Late(replies) # {}
    BY <2>3, <2>4
  <2> QED BY <2>1, <2>2, <2>3, <2>5
<1>2. /\ stats \in Stats /\ Ring(stats.samples, stats.next, stats.total)
      /\ stats.total = total /\ stats.answered = listed /\ stats.truncated = short
      /\ stats.cancelled = Cardinality(GivenUp(replies)) /\ stats.stale = late
      /\ FailedSum(stats) = errors
      /\ \A r \in EmptyReasons : stats.empty[r] = IF r = ReasonOf(op) THEN nothing ELSE 0
  BY DEF Tallies
<1> HIDE DEF total, listed, nothing, errors, short, late
<1>3. /\ health.total = total /\ health.answered = listed /\ health.failed = errors
      /\ health.cancelled = Cardinality(GivenUp(replies)) /\ health.truncated = short
      /\ health.stale = late
      /\ health.noMatch = stats.empty["NoMatch"]
      /\ health.misleading = stats.empty["FileNotIndexed"]
      /\ \A p \in {50, 95, 99} : health.percentiles[p] = Percentile(stats.samples, p)
  BY <1>2 DEF OpHealth, FailedSum
<1> HIDE DEF health
<1>4. /\ health.misleading = IF op = "documentSymbol" THEN nothing ELSE 0
      /\ health.noMatch = IF op = "documentSymbol" THEN 0 ELSE nothing
  BY <1>2, <1>3 DEF EmptyReasons, ReasonOf
<1>5. health.noMatch + health.misleading = nothing
  BY <1>1, <1>4
<1>6. ASSUME NEW p \in {50, 95, 99}, total > 0
      PROVE  IsPercentile(Recent(total), p, health.percentiles[p])
  <2>1. IsPercentile(Recent(total), p, Percentile(stats.samples, p))
    <3> DEFINE samples == stats.samples
               next == stats.next
    <3>1. Ring(samples, next, total) /\ total \in Nat \ {0}
      BY <1>1, <1>2, <1>6
    <3> HIDE DEF samples, next
    <3>2. CASE p = 50
      BY <3>1, <3>2, RingPercentile DEF samples
    <3>3. CASE p = 95
      BY <3>1, <3>3, RingPercentile DEF samples
    <3>4. CASE p = 99
      BY <3>1, <3>4, RingPercentile DEF samples
    <3> QED BY <3>2, <3>3, <3>4
  <2> QED BY <1>3, <2>1
<1>7. "MisleadingEmpties" \in concerns <=> op = "documentSymbol" /\ nothing > 0
  <2>1. "MisleadingEmpties" \in concerns
          <=> IF op \in ClientFacing THEN health.misleading > 0
              ELSE health.misleading * 1000 > health.total
    BY DEF DetectConcerns
  <2>2. CASE op \in ClientFacing
    BY <1>1, <1>4, <2>1, <2>2
  <2>3. CASE op \notin ClientFacing
    <3>1. op # "documentSymbol"
      BY <2>3 DEF ClientFacing
    <3>2. health.misleading = 0 /\ health.total \in Nat
      BY <1>1, <1>3, <1>4, <3>1
    <3> QED BY <2>1, <2>3, <3>1, <3>2
  <2> QED BY <2>2, <2>3
<1>8. "StaleReads" \in concerns <=> Late(replies) # {}
  <2>1. "StaleReads" \in concerns <=> health.stale > 0
    BY DEF DetectConcerns
  <2> QED BY <1>1, <1>3, <2>1
<1>9. "Failing" \in concerns <=> errors * 20 > total
  <2>1. "Failing" \in concerns <=> health.failed * 100 > 5 * health.total
    BY DEF DetectConcerns
  <2> QED BY <1>1, <1>3, <2>1, Shares
<1>10. "HeavyTruncation" \in concerns <=> short * 4 > listed
  <2>1. "HeavyTruncation" \in concerns <=> health.truncated * 100 > 25 * health.answered
    BY DEF DetectConcerns
  <2> QED BY <1>1, <1>3, <2>1, Shares
<1>11. /\ health.total = total
       /\ health.answered = listed
       /\ health.noMatch + health.misleading = nothing
       /\ health.failed = errors
       /\ health.cancelled = Cardinality(GivenUp(replies))
       /\ op \notin CallOps => health.truncated = short
       /\ \A p \in {50, 95, 99} :
            total > 0 => IsPercentile(Recent(total), p, health.percentiles[p])
       /\ op # "documentSymbol" => health.noMatch = nothing
       /\ "MisleadingEmpties" \in concerns => op = "documentSymbol" /\ nothing > 0
       /\ "StaleReads" \in concerns => Late(replies) # {}
       /\ "Failing" \in concerns <=> errors * 20 > total
       /\ op \notin CallOps =>
            ("HeavyTruncation" \in concerns <=> short * 4 > listed)
  BY <1>3, <1>4, <1>5, <1>6, <1>7, <1>8, <1>9, <1>10
<1> QED BY <1>11 DEF health, total, listed, nothing, errors, short

LEMMA Tells == SessionInv => HealthMatchesReplies
<1> SUFFICES ASSUME SessionInv, NEW c \in ClientIds, NEW op \in uses
             PROVE  LET health == OpHealth(sessions[c].stats[op])
                        concerns == DetectConcerns(op, health)
                        replies == Told(c, op)
                        total == Cardinality(replies)
                        listed == Cardinality(Listed(replies))
                        nothing == Cardinality(Nothing(replies))
                        errors == Cardinality(Errors(replies))
                        short == Cardinality(Short(replies))
                    IN  /\ health.total = total
                        /\ health.answered = listed
                        /\ health.noMatch + health.misleading = nothing
                        /\ health.failed = errors
                        /\ health.cancelled = Cardinality(GivenUp(replies))
                        /\ op \notin CallOps => health.truncated = short
                        /\ \A p \in {50, 95, 99} :
                             total > 0 => IsPercentile(Recent(total), p, health.percentiles[p])
                        /\ op # "documentSymbol" => health.noMatch = nothing
                        /\ "MisleadingEmpties" \in concerns
                             => op = "documentSymbol" /\ nothing > 0
                        /\ "StaleReads" \in concerns => Late(replies) # {}
                        /\ "Failing" \in concerns <=> errors * 20 > total
                        /\ op \notin CallOps =>
                             ("HeavyTruncation" \in concerns <=> short * 4 > listed)
  BY DEF HealthMatchesReplies, Status
<1>1. op \in Ops
  BY SessionAssumption DEF SessionInv, Replies
<1>2. IsFiniteSet(Told(c, op))
  <2>1. Told(c, op) \subseteq told
    BY DEF Told
  <2> QED BY <2>1, FS_Subset DEF SessionInv, Replies
<1>3. Tallies(sessions[c].stats[op], op, Told(c, op))
  BY DEF SessionInv, Tallied
<1> QED BY ONLY <1>1, <1>2, <1>3, CountersTell, Zenon

(* However servers are started, stopped and asked, a session stays of its      *)
(* type: a reply is one of a server that was started, to an operation in use,  *)
(* and no ring of durations grows beyond its window or points outside.         *)
THEOREM SessionIsTyped == Spec => []TypeOK
<1> QED BY SessionInvInit, SessionInvNext, Types, PTL DEF Spec

(* For every limit, window and sequence of durations, and however many         *)
(* requests a session has: what a server's telemetry says of an operation is   *)
(* what its client was told, counts, percentiles and concerns alike.           *)
THEOREM HealthIsOfReplies == Spec => []HealthMatchesReplies
<1> QED BY SessionInvInit, SessionInvNext, Tells, PTL DEF Spec

=============================================================================
