--------------------------- MODULE PluginSession ----------------------------
(***************************************************************************)
(* A RealtimeSession of the LiveKit plugin (plugin realtime.py): the task  *)
(* that keeps a connection, its sender and receiver, the requests for a    *)
(* generation with their futures and timeouts, the response that is being  *)
(* streamed to LiveKit, and both ways for the session to end. Composed     *)
(* with the transport and with what the service does on it.                *)
(*                                                                         *)
(* A call that is refused at once (the session is busy, disconnected or    *)
(* closed) changes nothing and is left out. PluginContext has the chat     *)
(* context, the configuration and their acknowledgements.                  *)
(***************************************************************************)
EXTENDS Naturals, Sequences

CONSTANTS
  MaxRetries,    \* conn_options.max_retry
  MaxConns,      \* bound: connections that come about
  MaxRequests,   \* bound: calls of generate_reply and say
  MaxResponses,  \* bound: responses the service creates
  MaxOutbound,   \* OUTBOUND_QUEUE_SIZE
  MaxEvents      \* bound: events under way from the service

ASSUME SessionAssumption ==
  /\ MaxRetries \in Nat /\ MaxConns \in Nat /\ MaxOutbound \in Nat \ {0}
  /\ MaxEvents \in Nat \ {0}
  /\ MaxRequests \in Nat /\ MaxResponses \in Nat

Requests == 1..MaxRequests
Responses == 1..MaxResponses
None == 0

VARIABLES
  run,         \* where _main_task is
  cause,       \* what ended the connection that is being left
  retries,
  connected,   \* _connected
  conn,        \* connections so far; _ever_connected is conn > 0
  closing,     \* _closing
  closer,      \* how far aclose has come
  closed,      \* _closed
  outbound,    \* _outbound; a command remembers the connection it was queued on
  future,      \* the future of each request
  pending,     \* _pending_generation; its timeout runs as long as it is there
  collectors,  \* _say_tasks: requests whose text is still being collected
  response,    \* _response
  open,        \* responses whose channels LiveKit still reads
  receiver,    \* where the receiver is
  audio,       \* the connection the frame in the audio loop's worker thread was pushed on
  up,          \* the transport works
  toService,   \* the command that is under way, if any
  fromService,
  active,      \* the response the service is at
  born         \* responses the service has created

pluginVars == <<run, cause, retries, connected, conn, closing, closer, closed, outbound,
                future, pending, collectors, response, open, receiver, audio>>
serviceVars == <<up, toService, fromService, active, born>>
vars == <<pluginVars, serviceVars>>

Commands ==
  [kind : {"request"}, of : Requests, conn : 0..MaxConns]
    \cup [kind : {"cancel", "audio", "stop"}, of : Nat, conn : 0..MaxConns]
Events ==
  [kind : {"created"}, of : Responses, source : 0..MaxRequests]
    \cup [kind : {"delta", "done", "error"}, of : Nat, source : 0..MaxRequests]

TypeOK ==
  /\ run \in {"connecting", "live", "unwinding", "sleeping", "ending", "ended"}
  /\ cause \in {"none", "lost", "fatal"} /\ retries \in 0..MaxRetries
  /\ connected \in BOOLEAN /\ conn \in 0..MaxConns
  /\ closing \in BOOLEAN /\ closed \in BOOLEAN
  /\ closer \in {"none", "late", "socket", "tasks", "over"}
  /\ outbound \in Seq(Commands) /\ Len(outbound) <= MaxOutbound
  /\ future \in [Requests -> {"none", "waiting", "created", "mistaken", "failed"}]
  /\ pending \in {None} \cup Requests /\ collectors \subseteq Requests
  /\ response \in {None} \cup Responses /\ open \subseteq Responses
  /\ receiver \in {"off", "idle", "blocked"}
  /\ audio \in Seq(0..MaxConns) /\ Len(audio) <= 1
  /\ up \in BOOLEAN /\ toService \in Seq(Commands) /\ fromService \in Seq(Events)
  /\ active \in 0..MaxResponses /\ born \in 0..MaxResponses

Init ==
  /\ run = "connecting" /\ cause = "none" /\ retries = 0 /\ connected = FALSE /\ conn = 0
  /\ closing = FALSE /\ closer = "none" /\ closed = FALSE /\ outbound = <<>>
  /\ future = [g \in Requests |-> "none"] /\ pending = None /\ collectors = {}
  /\ response = None /\ open = {} /\ receiver = "off" /\ audio = <<>>
  /\ up = FALSE /\ toService = <<>> /\ fromService = <<>> /\ active = None /\ born = 0

EverConnected == conn > 0

\* The requests are numbered in the order they are made.
IsNext(g) == future[g] = "none" /\ \A h \in 1..(g - 1) : future[h] # "none"

\* Nothing more comes of what was under way.
TransportGone == up' = FALSE /\ toService' = <<>> /\ fromService' = <<>> /\ active' = None

\* Mutant: a request is taken while the session reconnects.
AlwaysReachable == TRUE

Reachable == connected \/ ~EverConnected

Command(kind, of) == [kind |-> kind, of |-> of, conn |-> conn]

\* put_nowait; a full queue ends the session, which close can do at any time.
Queue(command) ==
  /\ Len(outbound) < MaxOutbound
  /\ outbound' = Append(outbound, command)

-----------------------------------------------------------------------------
(* What several handlers do to the request and to the response.            *)

\* Mutant: the request is forgotten, its future is not.
Forgotten == future

Failed == [g \in Requests |-> IF g = pending /\ future[g] = "waiting" THEN "failed" ELSE future[g]]

FailPending == future' = Failed /\ pending' = None

\* Mutant: the response is dropped with its channels open.
StillOpen == open

WithoutResponse == open \ {response}

FinishResponse == open' = WithoutResponse /\ response' = None

-----------------------------------------------------------------------------
(* Calls of LiveKit.                                                       *)

MayRequest == ~closing /\ pending = None /\ response = None /\ Reachable

\* generate_reply, or say with a text.
Request(g) ==
  /\ MayRequest /\ IsNext(g)
  /\ Queue(Command("request", g))
  /\ pending' = g /\ future' = [future EXCEPT ![g] = "waiting"]
  /\ UNCHANGED <<run, cause, retries, connected, conn, closing, closer, closed, collectors,
                 response, open, receiver, audio, serviceVars>>

\* say with a stream, which does not look whether the session is closing or closed.
SayStream(g) ==
  /\ pending = None /\ response = None /\ Reachable /\ IsNext(g)
  /\ pending' = g /\ future' = [future EXCEPT ![g] = "waiting"]
  /\ collectors' = collectors \cup {g}
  /\ UNCHANGED <<run, cause, retries, connected, conn, closing, closer, closed, outbound,
                 response, open, receiver, audio, serviceVars>>

\* The text is complete and the request still the pending one.
TextCollected(g) ==
  /\ g \in collectors /\ pending = g /\ future[g] = "waiting" /\ ~closing
  /\ Queue(Command("request", g))
  /\ collectors' = collectors \ {g}
  /\ UNCHANGED <<run, cause, retries, connected, conn, closing, closer, closed, future, pending,
                 response, open, receiver, audio, serviceVars>>

\* It is not, or the stream raises, or the future has failed and cancels it.
CollectorStops(g) ==
  /\ g \in collectors
  /\ collectors' = collectors \ {g}
  /\ IF pending = g THEN FailPending ELSE UNCHANGED <<future, pending>>
  /\ UNCHANGED <<run, cause, retries, connected, conn, closing, closer, closed, outbound,
                 response, open, receiver, audio, serviceVars>>

\* _expire_generation_request.
RequestExpires ==
  /\ pending # None
  /\ FailPending
  /\ UNCHANGED <<run, cause, retries, connected, conn, closing, closer, closed, outbound,
                 collectors, response, open, receiver, audio, serviceVars>>

Interrupt ==
  /\ ~closing /\ response # None
  /\ Queue(Command("cancel", response))
  /\ FinishResponse
  /\ UNCHANGED <<run, cause, retries, connected, conn, closing, closer, closed, future,
                 pending, collectors, receiver, audio, serviceVars>>

\* push_audio, and the audio loop up to its worker thread.
PushAudio ==
  /\ ~closing /\ Reachable /\ audio = <<>>
  /\ audio' = <<conn>>
  /\ UNCHANGED <<run, cause, retries, connected, conn, closing, closer, closed, outbound, future,
                 pending, collectors, response, open, receiver, serviceVars>>

\* The thread returns, whatever has happened to the connection meanwhile.
AudioConverted ==
  /\ audio # <<>>
  /\ Queue([kind |-> "audio", of |-> 0, conn |-> Head(audio)])
  /\ audio' = <<>>
  /\ UNCHANGED <<run, cause, retries, connected, conn, closing, closer, closed, future, pending,
                 collectors, response, open, receiver, serviceVars>>

-----------------------------------------------------------------------------
(* The main task.                                                          *)

\* An endpoint is open, configured, and has acknowledged the replay.
ConnectionMade ==
  /\ run = "connecting" /\ closer \in {"none", "late"} /\ conn < MaxConns
  /\ conn' = conn + 1 /\ connected' = TRUE
  /\ run' = "live" /\ receiver' = "idle"
  /\ up' = TRUE /\ toService' = <<>> /\ fromService' = <<>> /\ active' = None
  /\ UNCHANGED <<cause, retries, closing, closer, closed, outbound, future, pending,
                 collectors, response, open, audio, born>>

\* _run's finally, unless aclose is at work already.
EndRun ==
  /\ connected' = FALSE
  /\ IF closing
       THEN run' = "ended" /\ UNCHANGED <<closing, future, pending, response, open>>
       ELSE run' = "ending" /\ closing' = TRUE /\ FailPending /\ FinishResponse

\* Mutant: the outbound queue survives the disconnect.
QueueKept == outbound

QueueCleared == <<>>

\* _disconnect_cleanup, and another attempt if there is one left.
LoseConnection(tried) ==
  /\ connected' = FALSE
  /\ outbound' = QueueCleared
  /\ FailPending /\ FinishResponse
  /\ IF tried < MaxRetries
       THEN retries' = tried + 1 /\ run' = "sleeping" /\ UNCHANGED closing
       ELSE /\ retries' = tried
            /\ run' = IF closing THEN "ended" ELSE "ending"
            /\ closing' = TRUE

ConnectFails ==
  /\ run = "connecting"
  /\ LoseConnection(retries)
  /\ UNCHANGED <<cause, conn, closer, closed, collectors, receiver, audio, serviceVars>>

\* Bad token, wrong subprotocol, wrong acknowledgement.
ConnectRefused ==
  /\ run = "connecting"
  /\ EndRun
  /\ UNCHANGED <<cause, retries, conn, closer, closed, outbound, collectors, receiver, audio,
                 serviceVars>>

\* The sender or the receiver has ended; _connected stays set.
Leave(why) == run' = "unwinding" /\ cause' = why /\ receiver' = "off"

\* Both tasks are gathered and the socket is closed. A connection that held
\* for 30 seconds starts counting from zero.
Unwound ==
  /\ run = "unwinding"
  /\ IF cause = "fatal"
       THEN EndRun /\ UNCHANGED <<retries, outbound>>
       ELSE \E tried \in {0, retries} : LoseConnection(tried)
  /\ TransportGone /\ cause' = "none"
  /\ UNCHANGED <<conn, closer, closed, collectors, receiver, audio, born>>

SleepOver ==
  /\ run = "sleeping"
  /\ run' = IF closing THEN "ended" ELSE "connecting"
  /\ UNCHANGED <<cause, retries, connected, conn, closing, closer, closed, outbound, future,
                 pending, collectors, response, open, receiver, audio, serviceVars>>

\* Mutant: the end of the main task is not announced.
Unannounced == closed

Announced == TRUE

\* The audio task is cancelled and gathered.
Ended ==
  /\ run = "ending"
  /\ run' = "ended" /\ audio' = <<>> /\ closed' = Announced
  /\ outbound' = <<>>
  /\ UNCHANGED <<cause, retries, connected, conn, closing, closer, future, pending,
                 collectors, response, open, receiver, serviceVars>>

-----------------------------------------------------------------------------
(* The sender and the receiver of a connection.                            *)

Send ==
  /\ run = "live" /\ outbound # <<>>
  /\ outbound' = Tail(outbound)
  /\ IF up /\ Head(outbound).kind # "stop"
       THEN /\ toService = <<>>
            /\ toService' = Append(toService, Head(outbound))
            /\ UNCHANGED <<run, cause, receiver>>
       ELSE Leave("lost") /\ UNCHANGED toService
  /\ UNCHANGED <<retries, connected, conn, closing, closer, closed, future, pending, collectors,
                 response, open, audio, up, fromService, active, born>>

Hears == run = "live" /\ receiver = "idle" /\ closer \in {"none", "late"}

\* A message that had arrived when aclose began is still handled, the next not.
NoteLate == closer' = IF closer = "late" THEN "socket" ELSE closer

Received(kind) ==
  /\ Hears /\ fromService # <<>> /\ Head(fromService).kind = kind
  /\ fromService' = Tail(fromService)
  /\ NoteLate
  /\ UNCHANGED <<retries, connected, conn, closing, closed, outbound, collectors, audio,
                 up, toService, active, born>>

\* Whatever response is created answers the request that is pending.
ResponseCreated ==
  /\ Received("created")
  /\ LET event == Head(fromService) IN
     IF response # None
       THEN Leave("fatal") /\ UNCHANGED <<response, open, future, pending>>
       ELSE /\ response' = event.of /\ open' = open \cup {event.of}
            /\ pending' = None
            /\ future' = [g \in Requests |->
                 IF g # pending \/ future[g] # "waiting" THEN future[g]
                 ELSE IF event.source = g THEN "created" ELSE "mistaken"]
            /\ UNCHANGED <<run, cause, receiver>>

\* Text or audio goes to a bounded channel, which may be full.
DeltaReceived ==
  /\ Received("delta")
  /\ receiver' \in IF response = Head(fromService).of THEN {"idle", "blocked"} ELSE {"idle"}
  /\ UNCHANGED <<run, cause, response, open, future, pending>>

DoneReceived ==
  /\ Received("done")
  /\ IF response = Head(fromService).of THEN FinishResponse ELSE UNCHANGED <<response, open>>
  /\ UNCHANGED <<run, cause, receiver, future, pending>>

ErrorReceived ==
  /\ Received("error")
  /\ IF pending = Head(fromService).source THEN FailPending ELSE UNCHANGED <<future, pending>>
  /\ UNCHANGED <<run, cause, receiver, response, open>>

\* LiveKit reads on; a channel that was closed meanwhile raises ChanClosed.
ChannelRead ==
  /\ run = "live" /\ receiver = "blocked"
  /\ IF response = None
       THEN Leave("lost")
       ELSE receiver' = "idle" /\ UNCHANGED <<run, cause>>
  /\ UNCHANGED <<retries, connected, conn, closing, closer, closed, outbound, future, pending,
                 collectors, response, open, audio, serviceVars>>

\* The socket is closed, or an event is no event of the protocol.
ReceiverFails ==
  /\ run = "live" /\ receiver = "idle"
  /\ \/ ~up /\ fromService = <<>> /\ Leave("lost")
     \/ up /\ closer = "socket" /\ Leave("lost")
     \/ Hears /\ fromService # <<>> /\ Leave("fatal")
  /\ UNCHANGED <<retries, connected, conn, closing, closer, closed, outbound, future, pending,
                 collectors, response, open, audio, serviceVars>>

-----------------------------------------------------------------------------
(* aclose, by LiveKit or by _schedule_fatal.                               *)

\* The stop takes the place of the oldest command of a full queue.
WithStop ==
  LET room == IF Len(outbound) < MaxOutbound THEN outbound ELSE Tail(outbound)
  IN Append(room, Command("stop", 0))

Close ==
  /\ ~closing
  /\ closing' = TRUE /\ connected' = FALSE
  /\ FailPending /\ FinishResponse
  /\ outbound' = WithStop
  /\ closer' \in IF Hears /\ fromService # <<>> THEN {"late", "socket"} ELSE {"socket"}
  /\ UNCHANGED <<run, cause, retries, conn, closed, collectors, receiver, audio, serviceVars>>

\* ws.close() has returned, the two tasks are cancelled and gathered.
TasksGathered ==
  /\ closer \in {"late", "socket"}
  /\ closer' = "tasks"
  /\ run' = "ended" /\ cause' = "none" /\ receiver' = "off" /\ audio' = <<>>
  /\ connected' = FALSE /\ TransportGone
  /\ outbound' = <<>>
  /\ UNCHANGED <<retries, conn, closing, closed, future, pending, collectors,
                 response, open, born>>

\* The collectors of say are cancelled and gathered. One that has not taken its
\* first step yet does not clear its request: the timeout does.
CloseEnds ==
  /\ closer = "tasks"
  /\ closer' = "over" /\ closed' = TRUE
  /\ collectors' = {}
  /\ \/ pending \in collectors /\ FailPending
     \/ UNCHANGED <<future, pending>>
  /\ UNCHANGED <<run, cause, retries, connected, conn, closing, outbound, response, open,
                 receiver, audio, serviceVars>>

-----------------------------------------------------------------------------
(* The service, as PluginSession needs it: one response at a time, and what *)
(* it says of a response in order.                                         *)

Room == Len(fromService) < MaxEvents

Say(kind, of, source) ==
  fromService' = Append(fromService, [kind |-> kind, of |-> of, source |-> source])

ServiceTakes ==
  /\ up /\ toService # <<>> /\ Room
  /\ toService' = Tail(toService)
  /\ LET command == Head(toService) IN
     CASE command.kind = "request" /\ active = None /\ born < MaxResponses ->
            /\ born' = born + 1 /\ active' = born + 1 /\ Say("created", born + 1, command.of)
       [] command.kind = "request" /\ (active # None \/ born = MaxResponses) ->
            Say("error", 0, command.of) /\ UNCHANGED <<active, born>>
       [] command.kind = "cancel" /\ active = command.of ->
            active' = None /\ Say("done", command.of, 0) /\ UNCHANGED born
       [] OTHER -> UNCHANGED <<fromService, active, born>>
  /\ UNCHANGED <<pluginVars, up>>

\* The caller's turn is answered.
ServiceReplies ==
  /\ up /\ active = None /\ born < MaxResponses /\ Room
  /\ born' = born + 1 /\ active' = born + 1
  /\ Say("created", born + 1, 0)
  /\ UNCHANGED <<pluginVars, up, toService>>

ServiceStreams ==
  /\ up /\ active # None /\ Room
  /\ \/ Say("delta", active, 0) /\ UNCHANGED active
     \/ Say("done", active, 0) /\ active' = None
  /\ UNCHANGED <<pluginVars, up, toService, born>>

\* The service closes it, or the network fails.
TransportFails ==
  /\ up
  /\ up' = FALSE /\ toService' = <<>>
  /\ fromService' \in {fromService, <<>>}
  /\ UNCHANGED <<pluginVars, active, born>>

-----------------------------------------------------------------------------
Calls ==
  \/ \E g \in Requests : Request(g) \/ SayStream(g)
  \/ Interrupt \/ PushAudio \/ Close

Tasks ==
  \/ Unwound \/ SleepOver \/ Ended \/ Send \/ ReceiverFails \/ ChannelRead
  \/ ResponseCreated \/ DeltaReceived \/ DoneReceived \/ ErrorReceived \/ AudioConverted

Collects == \E g \in Requests : TextCollected(g) \/ CollectorStops(g)

Service == ServiceTakes \/ ServiceReplies \/ ServiceStreams \/ TransportFails

Connects == ConnectionMade \/ ConnectFails \/ ConnectRefused

Closes == TasksGathered \/ CloseEnds

Next == Calls \/ Tasks \/ Collects \/ Service \/ Connects \/ Closes \/ RequestExpires

Spec == Init /\ [][Next]_vars

\* The timeout of a request, the steps of a close, and an attempt to connect,
\* which has timeouts of its own. Nobody has to read, to send or to answer.
FairSpec ==
  /\ Spec
  /\ WF_vars(RequestExpires) /\ WF_vars(TasksGathered) /\ WF_vars(CloseEnds) /\ WF_vars(Ended)

-----------------------------------------------------------------------------
(* What LiveKit relies on.                                                 *)

\* The channels LiveKit reads belong to the current response: no generation is
\* left waiting for text or audio that nobody will put or close, through
\* interruptions, disconnects and responses that overtake a cancel
\* (_response_created, _finish_response, interrupt).
OpenIsCurrent == open \subseteq {response}

\* A service with one response at a time never makes the plugin end the
\* session over overlapping responses, although an interrupted response is
\* over for the plugin before the service hears of it (interrupt, _response_created).
NoFalseOverlap ==
  response # None /\ fromService # <<>> /\ Hears => Head(fromService).kind # "created"

Created(i) == fromService[i].kind = "created"
Ends(i, r) == fromService[i].kind = "done" /\ fromService[i].of = r

\* The service says one response after the other: the end of each, and of the
\* plugin's own, comes before the next one, as long as the transport works.
InOrder ==
  /\ \A i, j \in DOMAIN fromService : i < j /\ Created(i) /\ Created(j) =>
       \E k \in DOMAIN fromService : i < k /\ k < j /\ Ends(k, fromService[i].of)
  /\ \A j \in DOMAIN fromService : response # None /\ Created(j) =>
       \E k \in DOMAIN fromService : k < j /\ Ends(k, response)
  /\ \A i \in DOMAIN fromService : up /\ Created(i) =>
       \/ fromService[i].of = active
       \/ \E k \in DOMAIN fromService : i < k /\ Ends(k, fromService[i].of)
  /\ up /\ response # None =>
       response = active \/ \E k \in DOMAIN fromService : Ends(k, response)

\* Between two connections nothing of the old one is left: no response, no
\* open channel and no pending request (_disconnect_cleanup), also when the
\* request or the interruption came while the connection was being left.
DisconnectIsClean ==
  EverConnected /\ run \in {"sleeping", "connecting"}
    => response = None /\ open = {} /\ pending = None

\* A request or a cancellation is only sent on the connection it was made on, or
\* on the first one (README of the plugin: "Reconnect drops in-flight audio and
\* generations").
OnlyOnItsConnection(command) == command.conn = conn \/ (command.conn = 0 /\ conn = 1)

NoStaleRequest ==
  [][\A c \in {toService'[i] : i \in DOMAIN toService'} :
       c.kind # "audio" => c.conn = conn' \/ (c.conn = 0 /\ conn' = 1)]_toService

\* The same of audio. README of the plugin, line 44: "Reconnect drops in-flight
\* audio and generations"; it does not for a frame in the worker thread.
NoStaleAudio ==
  \A i \in DOMAIN toService :
    toService[i].kind = "audio" => OnlyOnItsConnection(toService[i])

\* What is queued is of this connection, and nothing but audio is queued for the
\* next one: whoever could queue it needs a request or a response.
QueuedIsCurrent ==
  /\ \A i \in DOMAIN outbound : outbound[i].kind # "audio" => OnlyOnItsConnection(outbound[i])
  /\ \A i \in DOMAIN toService : toService[i].kind # "audio" => OnlyOnItsConnection(toService[i])
  /\ EverConnected /\ run \in {"sleeping", "connecting"} /\ ~closing =>
       \A i \in DOMAIN outbound : outbound[i].kind = "audio"

\* What the main task may rely on while there is no connection.
Apart ==
  /\ run \in {"sleeping", "connecting"} => ~connected /\ response = None
  /\ closer # "none" => closing
  /\ run = "connecting" /\ closing => closer \notin {"none", "late"}

\* All of it: what the plugin may conclude from a message or a connection, whatever
\* LiveKit calls meanwhile and whenever the connection is lost (_response_created,
\* _finish_response, interrupt, _disconnect_cleanup).
SessionInv ==
  TypeOK /\ OpenIsCurrent /\ NoFalseOverlap /\ InOrder /\ QueuedIsCurrent /\ Apart

\* A future that generate_reply or say has returned is resolved
\* (_fail_pending, _expire_generation_request, _clear_failed_say).
EveryRequestAnswered == \A g \in Requests : future[g] = "waiting" ~> future[g] # "waiting"

\* A session that is closing, by whichever of its two ways, is closed one day,
\* and whoever waits in a second aclose returns (aclose, _run).
CloseEnded == closing ~> closed

\* What CloseEnded does not promise, and what is not so: a response.created that
\* the receiver handles after aclose has finished the response (_response_created,
\* aclose) opens another one, which nobody finishes.
ClosedIsClean == closed => response = None /\ open = {}
=============================================================================
