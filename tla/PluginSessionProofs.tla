------------------------- MODULE PluginSessionProofs -------------------------
(***************************************************************************)
(* Proofs about PluginSession, for any number of retries, connections,     *)
(* requests and responses and queues of any size.                          *)
(***************************************************************************)
EXTENDS PluginSession, SequenceTheorems, TLAPS

-----------------------------------------------------------------------------
(* Types.                                                                  *)

\* What is queued or appended has the type of its queue.
LEMMA CommandTyped ==
  ASSUME TypeOK
  PROVE  /\ \A g \in Requests : Command("request", g) \in Commands
         /\ \A k \in {"cancel", "stop"}, n \in Nat : Command(k, n) \in Commands
BY SessionAssumption DEF TypeOK, Command, Commands

LEMMA QueueTyped ==
  ASSUME TypeOK, NEW c \in Commands, Queue(c)
  PROVE  outbound' \in Seq(Commands) /\ Len(outbound') <= MaxOutbound
BY SessionAssumption DEF TypeOK, Queue

LEMMA FailedTyped ==
  ASSUME TypeOK, FailPending
  PROVE  /\ future' \in [Requests -> {"none", "waiting", "created", "mistaken", "failed"}]
         /\ pending' \in {None} \cup Requests
BY DEF TypeOK, FailPending, Failed

LEMMA FinishTyped ==
  ASSUME TypeOK, FinishResponse
  PROVE  response' \in {None} \cup Responses /\ open' \subseteq Responses
BY DEF TypeOK, FinishResponse, WithoutResponse

LEMMA NumbersTyped == 0 \in 0..MaxConns /\ 0 \in 0..MaxRequests /\ 0 \in 0..MaxResponses /\ None \in Nat
BY SessionAssumption DEF None

LEMMA InitTyped == Init => TypeOK
PROOF
  <1> SUFFICES ASSUME Init PROVE TypeOK
    OBVIOUS
  <1>1. /\ outbound \in Seq(Commands) /\ toService \in Seq(Commands) /\ fromService \in Seq(Events)
        /\ audio \in Seq(0..MaxConns) /\ Len(audio) <= 1 /\ Len(outbound) <= MaxOutbound
    BY SessionAssumption DEF Init
  <1>2. future \in [Requests -> {"none", "waiting", "created", "mistaken", "failed"}]
    BY DEF Init
  <1>3. retries \in 0..MaxRetries
    BY SessionAssumption DEF Init
  <1>4. QED
    BY <1>1, <1>2, <1>3, NumbersTyped DEF Init, TypeOK, None

LEMMA CallsTyped ==
  ASSUME TypeOK, Calls
  PROVE  TypeOK'
PROOF
  <1>1. ASSUME NEW g \in Requests, Request(g)
        PROVE  TypeOK'
    <2>1. outbound' \in Seq(Commands) /\ Len(outbound') <= MaxOutbound
      BY <1>1, CommandTyped, QueueTyped DEF Request
    <2>2. QED
      BY <1>1, <2>1 DEF Request, TypeOK, serviceVars
  <1>2. ASSUME NEW g \in Requests, SayStream(g)
        PROVE  TypeOK'
    BY <1>2 DEF SayStream, TypeOK, serviceVars
  <1>3. CASE Interrupt
    <2>1. response \in Nat
      BY SessionAssumption DEF TypeOK, Responses, None
    <2>2. outbound' \in Seq(Commands) /\ Len(outbound') <= MaxOutbound
      BY <1>3, <2>1, CommandTyped, QueueTyped DEF Interrupt
    <2>3. QED
      BY <1>3, <2>2, FinishTyped DEF Interrupt, TypeOK, serviceVars
  <1>4. CASE PushAudio
    <2>1. audio' \in Seq(0..MaxConns) /\ Len(audio') <= 1
      BY <1>4 DEF PushAudio, TypeOK
    <2>2. QED
      BY <1>4, <2>1 DEF PushAudio, TypeOK, serviceVars
  <1>5. CASE Close
    <2>1. Command("stop", 0) \in Commands
      BY CommandTyped
    <2>2. outbound' \in Seq(Commands) /\ Len(outbound') <= MaxOutbound
      <3>1. outbound \in Seq(Commands) /\ Len(outbound) \in Nat /\ Len(outbound) <= MaxOutbound
        BY DEF TypeOK
      <3>2. CASE Len(outbound) < MaxOutbound
        BY <1>5, <2>1, <3>1, <3>2, SessionAssumption DEF Close, WithStop
      <3>3. CASE ~(Len(outbound) < MaxOutbound)
        <4>1. Len(outbound) = MaxOutbound /\ outbound # <<>>
          BY <3>1, <3>3, SessionAssumption
        <4>2. Tail(outbound) \in Seq(Commands) /\ Len(Tail(outbound)) = MaxOutbound - 1
          BY <4>1, <3>1
        <4>3. outbound' = Append(Tail(outbound), Command("stop", 0))
          BY <1>5, <3>3 DEF Close, WithStop
        <4>4. QED
          BY <4>2, <4>3, <2>1, SessionAssumption
      <3>4. QED
        BY <3>2, <3>3
    <2>3. closer' \in {"late", "socket"}
      BY <1>5 DEF Close
    <2>4. QED
      BY <1>5, <2>2, <2>3, FailedTyped, FinishTyped DEF Close, TypeOK, serviceVars
  <1>6. QED
    BY <1>1, <1>2, <1>3, <1>4, <1>5 DEF Calls

LEMMA CollectsTyped ==
  ASSUME TypeOK, Collects \/ RequestExpires
  PROVE  TypeOK'
PROOF
  <1>1. ASSUME NEW g \in Requests, TextCollected(g)
        PROVE  TypeOK'
    <2>1. outbound' \in Seq(Commands) /\ Len(outbound') <= MaxOutbound
      BY <1>1, CommandTyped, QueueTyped DEF TextCollected
    <2>2. QED
      BY <1>1, <2>1 DEF TextCollected, TypeOK, serviceVars
  <1>2. ASSUME NEW g \in Requests, CollectorStops(g)
        PROVE  TypeOK'
    BY <1>2, FailedTyped DEF CollectorStops, TypeOK, serviceVars
  <1>3. CASE RequestExpires
    BY <1>3, FailedTyped DEF RequestExpires, TypeOK, serviceVars
  <1>4. QED
    BY <1>1, <1>2, <1>3 DEF Collects

\* What both ends of a connection have in common.
LEMMA EndRunTyped ==
  ASSUME TypeOK, EndRun
  PROVE  /\ run' \in {"ended", "ending"} /\ connected' \in BOOLEAN /\ closing' \in BOOLEAN
         /\ future' \in [Requests -> {"none", "waiting", "created", "mistaken", "failed"}]
         /\ pending' \in {None} \cup Requests
         /\ response' \in {None} \cup Responses /\ open' \subseteq Responses
BY FailedTyped, FinishTyped DEF EndRun, TypeOK

LEMMA LoseConnectionTyped ==
  ASSUME TypeOK, NEW tried \in {0, retries}, LoseConnection(tried)
  PROVE  /\ run' \in {"sleeping", "ended", "ending"} /\ connected' \in BOOLEAN /\ closing' \in BOOLEAN
         /\ future' \in [Requests -> {"none", "waiting", "created", "mistaken", "failed"}]
         /\ pending' \in {None} \cup Requests
         /\ response' \in {None} \cup Responses /\ open' \subseteq Responses
         /\ outbound' \in Seq(Commands) /\ Len(outbound') <= MaxOutbound
         /\ retries' \in 0..MaxRetries
PROOF
  <1>1. outbound' \in Seq(Commands) /\ Len(outbound') <= MaxOutbound
    BY SessionAssumption DEF LoseConnection, QueueCleared
  <1>2. tried \in 0..MaxRetries
    BY SessionAssumption DEF TypeOK
  <1>3. retries' \in 0..MaxRetries
    BY <1>2, SessionAssumption DEF LoseConnection
  <1>4. QED
    BY <1>1, <1>3, FailedTyped, FinishTyped DEF LoseConnection, TypeOK

LEMMA GoneTyped ==
  ASSUME TypeOK, TransportGone
  PROVE  /\ up' \in BOOLEAN /\ active' \in 0..MaxResponses
         /\ toService' \in Seq(Commands) /\ fromService' \in Seq(Events)
PROOF
  <1>1. <<>> \in Seq(Commands) /\ <<>> \in Seq(Events)
    OBVIOUS
  <1>2. QED
    BY <1>1, NumbersTyped DEF TransportGone, None

LEMMA ConnectsTyped ==
  ASSUME TypeOK, Connects \/ Unwound
  PROVE  TypeOK'
PROOF
  <1>1. CASE ConnectionMade
    <2>1. conn' \in 0..MaxConns
      BY <1>1, SessionAssumption DEF ConnectionMade, TypeOK
    <2>2. toService' \in Seq(Commands) /\ fromService' \in Seq(Events) /\ active' \in 0..MaxResponses
      BY <1>1, NumbersTyped DEF ConnectionMade, None
    <2>3. QED
      BY <1>1, <2>1, <2>2 DEF ConnectionMade, TypeOK
  <1>2. CASE ConnectFails
    BY <1>2, LoseConnectionTyped DEF ConnectFails, TypeOK, serviceVars
  <1>3. CASE ConnectRefused
    BY <1>3, EndRunTyped DEF ConnectRefused, TypeOK, serviceVars
  <1>4. CASE Unwound
    <2>1. CASE cause = "fatal"
      BY <1>4, <2>1, EndRunTyped, GoneTyped DEF Unwound, TypeOK
    <2>2. CASE cause # "fatal"
      <3>1. PICK tried \in {0, retries} : LoseConnection(tried)
        BY <1>4, <2>2 DEF Unwound
      <3>2. QED
        BY <1>4, <3>1, LoseConnectionTyped, GoneTyped DEF Unwound, TypeOK
    <2>3. QED
      BY <2>1, <2>2
  <1>5. QED
    BY <1>1, <1>2, <1>3, <1>4 DEF Connects

\* A message taken off the stream.
LEMMA ReceivedTyped ==
  ASSUME TypeOK, NEW k, Received(k)
  PROVE  /\ fromService' \in Seq(Events) /\ Head(fromService) \in Events
         /\ Head(fromService).kind = k
         /\ closer' \in {"none", "late", "socket", "tasks", "over"}
         /\ UNCHANGED <<retries, connected, conn, closing, closed, outbound, collectors, audio,
                        up, toService, active, born>>
BY DEF TypeOK, Received, NoteLate

LEMMA TasksTyped ==
  ASSUME TypeOK, Tasks, ~Unwound
  PROVE  TypeOK'
PROOF
  <1>1. CASE SleepOver
    BY <1>1 DEF SleepOver, TypeOK, serviceVars
  <1>2. CASE Ended
    <2>1. audio' \in Seq(0..MaxConns) /\ Len(audio') <= 1 /\ outbound' \in Seq(Commands)
          /\ Len(outbound') <= MaxOutbound
      BY <1>2, SessionAssumption DEF Ended
    <2>2. QED
      BY <1>2, <2>1 DEF Ended, Announced, TypeOK, serviceVars
  <1>3. CASE Send
    <2>1. outbound \in Seq(Commands) /\ outbound # <<>> /\ Len(outbound) <= MaxOutbound
      BY <1>3 DEF Send, TypeOK
    <2>2. Tail(outbound) \in Seq(Commands) /\ Head(outbound) \in Commands
          /\ Len(Tail(outbound)) <= MaxOutbound
      BY <2>1, SessionAssumption
    <2>3. outbound' \in Seq(Commands) /\ Len(outbound') <= MaxOutbound
      BY <1>3, <2>2 DEF Send
    <2>4. toService' \in Seq(Commands)
      BY <1>3, <2>2 DEF Send, TypeOK
    <2>5. QED
      BY <1>3, <2>3, <2>4 DEF Send, Leave, TypeOK
  <1>4. CASE ReceiverFails
    BY <1>4 DEF ReceiverFails, Leave, TypeOK, serviceVars
  <1>5. CASE ChannelRead
    BY <1>5 DEF ChannelRead, Leave, TypeOK, serviceVars
  <1>6. CASE ResponseCreated
    <2>1. Head(fromService).of \in Responses
      BY <1>6, ReceivedTyped DEF ResponseCreated, Events
    <2>2. CASE response # None
      BY <1>6, <2>2, ReceivedTyped DEF ResponseCreated, Leave, TypeOK
    <2>3. CASE response = None
      BY <1>6, <2>1, <2>3, ReceivedTyped DEF ResponseCreated, TypeOK
    <2>4. QED
      BY <2>2, <2>3
  <1>7. CASE DeltaReceived
    BY <1>7, ReceivedTyped DEF DeltaReceived, TypeOK
  <1>8. CASE DoneReceived
    BY <1>8, ReceivedTyped, FinishTyped DEF DoneReceived, TypeOK
  <1>9. CASE ErrorReceived
    BY <1>9, ReceivedTyped, FailedTyped DEF ErrorReceived, TypeOK
  <1>10. CASE AudioConverted
    <2>1. Head(audio) \in 0..MaxConns
      <3>1. audio \in Seq(0..MaxConns) /\ audio # <<>>
        BY <1>10 DEF AudioConverted, TypeOK
      <3>2. QED
        BY <3>1, HeadTailProperties
    <2>2. [kind |-> "audio", of |-> 0, conn |-> Head(audio)] \in Commands
      BY <2>1 DEF Commands
    <2>3. outbound' \in Seq(Commands) /\ Len(outbound') <= MaxOutbound
      BY <1>10, <2>2, QueueTyped DEF AudioConverted
    <2>4. audio' \in Seq(0..MaxConns) /\ Len(audio') <= 1
      BY <1>10 DEF AudioConverted
    <2>5. QED
      BY <1>10, <2>3, <2>4 DEF AudioConverted, TypeOK, serviceVars
  <1>11. QED
    BY <1>1, <1>2, <1>3, <1>4, <1>5, <1>6, <1>7, <1>8, <1>9, <1>10 DEF Tasks

LEMMA ClosesTyped ==
  ASSUME TypeOK, Closes
  PROVE  TypeOK'
PROOF
  <1>1. CASE TasksGathered
    <2>1. audio' \in Seq(0..MaxConns) /\ Len(audio') <= 1 /\ outbound' \in Seq(Commands)
          /\ Len(outbound') <= MaxOutbound
      BY <1>1, SessionAssumption DEF TasksGathered
    <2>2. QED
      BY <1>1, <2>1, GoneTyped DEF TasksGathered, TypeOK
  <1>2. CASE CloseEnds
    BY <1>2, FailedTyped DEF CloseEnds, TypeOK, serviceVars
  <1>3. QED
    BY <1>1, <1>2 DEF Closes

LEMMA SayTyped ==
  ASSUME TypeOK, NEW k, NEW n, NEW m \in 0..MaxRequests, Say(k, n, m),
         \/ k = "created" /\ n \in Responses
         \/ k \in {"delta", "done", "error"} /\ n \in Nat
  PROVE  fromService' \in Seq(Events)
PROOF
  <1>1. [kind |-> k, of |-> n, source |-> m] \in Events
    BY DEF Events
  <1>2. QED
    BY <1>1 DEF Say, TypeOK

LEMMA ServiceTyped ==
  ASSUME TypeOK, Service
  PROVE  TypeOK'
PROOF
  <1>1. /\ active \in Nat /\ born \in Nat
        /\ born < MaxResponses => born + 1 \in Responses /\ born + 1 \in 0..MaxResponses
    BY SessionAssumption DEF TypeOK, Responses
  <1>2. CASE ServiceTakes
    <2> DEFINE command == Head(toService)
    <2>1. Tail(toService) \in Seq(Commands) /\ command \in Commands
      BY <1>2 DEF ServiceTakes, TypeOK
    <2>2. /\ command.kind = "request" => command.of \in 0..MaxRequests
          /\ command.of \in Nat
      BY <2>1, SessionAssumption DEF Commands, Requests
    <2>3. CASE command.kind = "request" /\ active = None /\ born < MaxResponses
      <3>1. born' = born + 1 /\ active' = born + 1 /\ Say("created", born + 1, command.of)
        BY <1>2, <2>3, <1>1, SessionAssumption DEF ServiceTakes
      <3>2. fromService' \in Seq(Events)
        BY <3>1, <2>2, <2>3, <1>1, SayTyped
      <3>3. QED
        BY <1>2, <2>1, <2>3, <3>1, <3>2, <1>1 DEF ServiceTakes, TypeOK, pluginVars
    <2>4. CASE command.kind = "request" /\ (active # None \/ born = MaxResponses)
      <3>1. Say("error", 0, command.of) /\ UNCHANGED <<active, born>>
        BY <1>2, <2>4, <1>1 DEF ServiceTakes
      <3>2. fromService' \in Seq(Events)
        BY <3>1, <2>2, <2>4, <1>1, SayTyped
      <3>3. QED
        BY <1>2, <2>1, <3>1, <3>2 DEF ServiceTakes, TypeOK, pluginVars
    <2>5. CASE command.kind = "cancel" /\ active = command.of
      <3>1. active' = None /\ Say("done", command.of, 0) /\ UNCHANGED born
        BY <1>2, <2>5 DEF ServiceTakes
      <3>2. fromService' \in Seq(Events)
        BY <3>1, <2>2, NumbersTyped, SayTyped
      <3>3. QED
        BY <1>2, <2>1, <3>1, <3>2, NumbersTyped DEF ServiceTakes, TypeOK, pluginVars, None
    <2>6. CASE ~(command.kind = "request" /\ (active # None \/ born = MaxResponses))
               /\ ~(command.kind = "request" /\ active = None /\ born < MaxResponses)
               /\ ~(command.kind = "cancel" /\ active = command.of)
      BY <1>2, <2>1, <2>6 DEF ServiceTakes, TypeOK, pluginVars
    <2>7. QED
      BY <2>3, <2>4, <2>5, <2>6
  <1>3. CASE ServiceReplies
    <2>1. fromService' \in Seq(Events)
      BY <1>3, <1>1, NumbersTyped, SayTyped DEF ServiceReplies
    <2>2. QED
      BY <1>3, <2>1, <1>1 DEF ServiceReplies, TypeOK, pluginVars
  <1>4. CASE ServiceStreams
    <2>1. fromService' \in Seq(Events)
      BY <1>4, <1>1, NumbersTyped, SayTyped DEF ServiceStreams
    <2>2. QED
      BY <1>4, <2>1, <1>1, NumbersTyped DEF ServiceStreams, TypeOK, pluginVars, None
  <1>5. CASE TransportFails
    <2>1. <<>> \in Seq(Commands) /\ <<>> \in Seq(Events)
      OBVIOUS
    <2>2. /\ up' \in BOOLEAN /\ toService' \in Seq(Commands) /\ fromService' \in Seq(Events)
          /\ active' \in 0..MaxResponses /\ born' \in 0..MaxResponses
      BY <1>5, <2>1 DEF TransportFails, TypeOK
    <2>3. QED
      BY <1>5, <2>2 DEF TransportFails, TypeOK, pluginVars
  <1>6. QED
    BY <1>2, <1>3, <1>4, <1>5 DEF Service

LEMMA StepTyped ==
  ASSUME TypeOK, [Next]_vars
  PROVE  TypeOK'
PROOF
  <1>1. CASE UNCHANGED vars
    BY <1>1 DEF vars, pluginVars, serviceVars, TypeOK
  <1>2. QED
    BY <1>1, CallsTyped, CollectsTyped, ConnectsTyped, TasksTyped, ClosesTyped, ServiceTyped
       DEF Next

-----------------------------------------------------------------------------
(* The current response.                                                   *)

\* Everything but a message from the service, the end of a connection and the
\* service itself leaves the stream alone and can only end the response.
LEMMA StreamLeftAlone ==
  ASSUME \/ Calls \/ Collects \/ RequestExpires \/ ConnectFails \/ ConnectRefused \/ SleepOver
         \/ Ended \/ Send \/ ReceiverFails \/ ChannelRead \/ AudioConverted \/ CloseEnds
  PROVE  /\ UNCHANGED <<fromService, active, up>>
         /\ UNCHANGED <<response, open>> \/ (response' = None /\ open' = open \ {response})
PROOF
  <1>1. CASE Calls
    <2>1. ASSUME NEW g \in Requests, Request(g) \/ SayStream(g)
          PROVE  UNCHANGED <<fromService, active, up, response, open>>
      BY <2>1 DEF Request, SayStream, serviceVars
    <2>2. QED
      BY <1>1, <2>1 DEF Calls, Interrupt, PushAudio, Close, serviceVars, FinishResponse, WithoutResponse
  <1>2. CASE Collects \/ RequestExpires
    <2>1. ASSUME NEW g \in Requests, TextCollected(g) \/ CollectorStops(g)
          PROVE  UNCHANGED <<fromService, active, up, response, open>>
      BY <2>1 DEF TextCollected, CollectorStops, serviceVars
    <2>2. QED
      BY <1>2, <2>1 DEF Collects, RequestExpires, serviceVars
  <1>3. CASE ConnectFails \/ ConnectRefused
    BY <1>3 DEF ConnectFails, ConnectRefused, LoseConnection, EndRun, serviceVars, FinishResponse,
                WithoutResponse
  <1>4. CASE SleepOver \/ Ended \/ ReceiverFails \/ ChannelRead \/ AudioConverted \/ CloseEnds
    BY <1>4 DEF SleepOver, Ended, ReceiverFails, ChannelRead, AudioConverted, CloseEnds, serviceVars
  <1>5. CASE Send
    BY <1>5 DEF Send
  <1>6. QED
    BY <1>1, <1>2, <1>3, <1>4, <1>5

LEMMA ConnectionLeft ==
  ASSUME Unwound \/ TasksGathered
  PROVE  /\ fromService' = <<>> /\ up' = FALSE
         /\ UNCHANGED <<response, open>> \/ (response' = None /\ open' = open \ {response})
BY DEF Unwound, TasksGathered, TransportGone, EndRun, LoseConnection, FinishResponse, WithoutResponse

LEMMA ServiceLeaves ==
  ASSUME Service
  PROVE  UNCHANGED pluginVars
BY DEF Service, ServiceTakes, ServiceReplies, ServiceStreams, TransportFails

\* A response becomes the current one only when there is none.
LEMMA OpenStays ==
  ASSUME TypeOK, OpenIsCurrent, [Next]_vars
  PROVE  OpenIsCurrent'
PROOF
  <1>1. CASE UNCHANGED <<response, open>> \/ (response' = None /\ open' = open \ {response})
    BY <1>1 DEF OpenIsCurrent
  <1>2. CASE UNCHANGED vars \/ Service \/ ConnectionMade
    BY <1>2, <1>1, ServiceLeaves DEF vars, pluginVars, ConnectionMade
  <1>3. CASE ResponseCreated
    <2>1. CASE response = None
      <3>1. open = {}
        BY <2>1, SessionAssumption DEF OpenIsCurrent, TypeOK, None, Responses
      <3>2. QED
        BY <1>3, <2>1, <3>1 DEF ResponseCreated, OpenIsCurrent
    <2>2. CASE response # None
      BY <1>1, <1>3, <2>2 DEF ResponseCreated
    <2>3. QED
      BY <2>1, <2>2
  <1>4. CASE DeltaReceived \/ DoneReceived \/ ErrorReceived
    BY <1>1, <1>4 DEF DeltaReceived, DoneReceived, ErrorReceived, FinishResponse, WithoutResponse
  <1>5. QED
    BY <1>1, <1>2, <1>3, <1>4, StreamLeftAlone, ConnectionLeft DEF Next, Tasks, Connects, Closes

-----------------------------------------------------------------------------
(* The stream of the service's messages.                                   *)

LEMMA StreamShape ==
  ASSUME TypeOK
  PROVE  /\ Len(fromService) \in Nat /\ DOMAIN fromService = 1..Len(fromService)
         /\ \A i \in DOMAIN fromService : i \in Nat /\ fromService[i] \in Events
         /\ \A i \in DOMAIN fromService : Created(i) => fromService[i].of # None
PROOF
  <1>1. /\ Len(fromService) \in Nat /\ DOMAIN fromService = 1..Len(fromService)
        /\ \A i \in DOMAIN fromService : i \in Nat /\ fromService[i] \in Events
    BY DEF TypeOK
  <1>2. \A e \in Events : e.kind = "created" => e.of # None
    BY SessionAssumption DEF Events, Responses, None
  <1>3. QED
    BY <1>1, <1>2 DEF Created

LEMMA InOrderEmpty ==
  ASSUME fromService' = <<>>, ~up' \/ response' = None
  PROVE  InOrder'
BY DEF InOrder

LEMMA InOrderKept ==
  ASSUME InOrder, UNCHANGED <<fromService, active>>, up' => up, response' \in {None, response}
  PROVE  InOrder'
BY DEF InOrder, Created, Ends

LEMMA StreamAppended ==
  ASSUME TypeOK, NEW e, fromService' = Append(fromService, e)
  PROVE  /\ DOMAIN fromService' = 1..Len(fromService) + 1
         /\ \A i \in DOMAIN fromService :
              i \in DOMAIN fromService' /\ fromService'[i] = fromService[i]
         /\ fromService'[Len(fromService) + 1] = e
PROOF
  <1>1. fromService \in Seq(Events)
    BY DEF TypeOK
  <1>2. QED
    BY <1>1

\* A response that begins: whatever was said before has come to its end.
LEMMA InOrderCreated ==
  ASSUME TypeOK, InOrder, up, active = None, UNCHANGED <<response, up>>,
         NEW n, NEW m, Say("created", n, m), active' = n
  PROVE  InOrder'
PROOF
  <1> DEFINE last == Len(fromService) + 1
             e == [kind |-> "created", of |-> n, source |-> m]
  <1>1. /\ DOMAIN fromService' = 1..last /\ last \in Nat
        /\ \A i \in DOMAIN fromService :
             i \in DOMAIN fromService' /\ fromService'[i] = fromService[i]
        /\ fromService'[last] = e
        /\ DOMAIN fromService = 1..last - 1
        /\ e.kind = "created" /\ e.of = n
    BY StreamAppended, StreamShape DEF Say
  <1> HIDE DEF last, e
  <1>2. \A i \in DOMAIN fromService' : i \in DOMAIN fromService \/ i = last
    BY <1>1
  <1>3. \A i \in DOMAIN fromService : i < last
    BY <1>1
  <1>4. /\ \A i \in DOMAIN fromService : Created(i)' = Created(i)
        /\ \A i \in DOMAIN fromService : \A r : Ends(i, r) => fromService'[i].kind = "done" /\ fromService'[i].of = r
    BY <1>1 DEF Created, Ends
  <1>5. \A i \in DOMAIN fromService : Created(i) =>
          \E k \in DOMAIN fromService : i < k /\ Ends(k, fromService[i].of)
    BY StreamShape DEF InOrder
  <1>6. response # None => \E k \in DOMAIN fromService : Ends(k, response)
    BY DEF InOrder
  <1>7. ASSUME NEW i \in DOMAIN fromService', NEW j \in DOMAIN fromService',
               i < j, Created(i)', Created(j)'
        PROVE  \E k \in DOMAIN fromService' : i < k /\ k < j /\ Ends(k, fromService[i].of)'
    <2>1. i \in DOMAIN fromService
      BY <1>1, <1>2, <1>3, <1>7
    <2>2. CASE j \in DOMAIN fromService
      <3>1. PICK k \in DOMAIN fromService : i < k /\ k < j /\ Ends(k, fromService[i].of)
        BY <1>4, <1>7, <2>1, <2>2 DEF InOrder
      <3>2. QED
        BY <3>1, <2>1, <1>1, <1>4 DEF Ends
    <2>3. CASE j = last
      <3>1. PICK k \in DOMAIN fromService : i < k /\ Ends(k, fromService[i].of)
        BY <1>4, <1>5, <1>7, <2>1
      <3>2. QED
        BY <3>1, <2>1, <2>3, <1>1, <1>3, <1>4 DEF Ends
    <2>4. QED
      BY <2>2, <2>3, <1>2
  <1>8. ASSUME NEW j \in DOMAIN fromService', response' # None, Created(j)'
        PROVE  \E k \in DOMAIN fromService' : k < j /\ Ends(k, response)'
    <2>1. CASE j \in DOMAIN fromService
      <3>1. PICK k \in DOMAIN fromService : k < j /\ Ends(k, response)
        BY <1>4, <1>8, <2>1 DEF InOrder
      <3>2. QED
        BY <3>1, <1>1, <1>4 DEF Ends
    <2>2. CASE j = last
      <3>1. PICK k \in DOMAIN fromService : Ends(k, response)
        BY <1>6, <1>8
      <3>2. QED
        BY <3>1, <2>2, <1>1, <1>3, <1>4 DEF Ends
    <2>3. QED
      BY <2>1, <2>2, <1>2
  <1>9. ASSUME NEW i \in DOMAIN fromService', Created(i)'
        PROVE  \/ fromService'[i].of = active'
               \/ \E k \in DOMAIN fromService' : i < k /\ Ends(k, fromService[i].of)'
    <2>1. CASE i \in DOMAIN fromService
      <3>1. PICK k \in DOMAIN fromService : i < k /\ Ends(k, fromService[i].of)
        BY <1>4, <1>5, <1>9, <2>1
      <3>2. QED
        BY <3>1, <2>1, <1>1, <1>4 DEF Ends
    <2>2. CASE i = last
      BY <2>2, <1>1
    <2>3. QED
      BY <2>1, <2>2, <1>2
  <1>10. response' # None => \E k \in DOMAIN fromService' : Ends(k, response)'
    BY <1>1, <1>4, <1>6 DEF Ends
  <1>11. QED
    BY <1>7, <1>8, <1>9, <1>10 DEF InOrder

\* Anything else the service says: text and audio, an error, or the end of the
\* response it is at.
LEMMA InOrderSaid ==
  ASSUME TypeOK, InOrder, up, UNCHANGED <<response, up>>,
         NEW k \in {"delta", "done", "error"}, NEW n, NEW m, Say(k, n, m),
         active' = active \/ (k = "done" /\ n = active)
  PROVE  InOrder'
PROOF
  <1> DEFINE last == Len(fromService) + 1
             e == [kind |-> k, of |-> n, source |-> m]
  <1>1. /\ DOMAIN fromService' = 1..last /\ last \in Nat \ {0}
        /\ \A i \in DOMAIN fromService :
             i \in DOMAIN fromService' /\ fromService'[i] = fromService[i]
        /\ fromService'[last] = e
        /\ DOMAIN fromService = 1..last - 1
        /\ e.kind = k /\ e.of = n
    BY StreamAppended, StreamShape DEF Say
  <1> HIDE DEF last, e
  <1>2. \A i \in DOMAIN fromService' : Created(i)' => i \in DOMAIN fromService /\ Created(i)
    BY <1>1 DEF Created
  <1>3. \A i \in DOMAIN fromService : i < last /\ last \in DOMAIN fromService'
    BY <1>1
  <1>4. \A i \in DOMAIN fromService : \A r : Ends(i, r) => fromService'[i].kind = "done" /\ fromService'[i].of = r
    BY <1>1 DEF Ends
  <1>5. active' # active => fromService'[last].kind = "done" /\ fromService'[last].of = active
    BY <1>1
  <1>6. ASSUME NEW i \in DOMAIN fromService', NEW j \in DOMAIN fromService',
               i < j, Created(i)', Created(j)'
        PROVE  \E h \in DOMAIN fromService' : i < h /\ h < j /\ Ends(h, fromService[i].of)'
    <2>1. i \in DOMAIN fromService /\ j \in DOMAIN fromService /\ Created(i) /\ Created(j)
      BY <1>2, <1>6
    <2>2. PICK h \in DOMAIN fromService : i < h /\ h < j /\ Ends(h, fromService[i].of)
      BY <1>6, <2>1 DEF InOrder
    <2>3. QED
      BY <2>1, <2>2, <1>1, <1>4 DEF Ends
  <1>7. ASSUME NEW j \in DOMAIN fromService', response' # None, Created(j)'
        PROVE  \E h \in DOMAIN fromService' : h < j /\ Ends(h, response)'
    <2>1. j \in DOMAIN fromService /\ Created(j)
      BY <1>2, <1>7
    <2>2. PICK h \in DOMAIN fromService : h < j /\ Ends(h, response)
      BY <1>7, <2>1 DEF InOrder
    <2>3. QED
      BY <2>2, <1>1, <1>4 DEF Ends
  <1>8. ASSUME NEW i \in DOMAIN fromService', Created(i)'
        PROVE  \/ fromService'[i].of = active'
               \/ \E h \in DOMAIN fromService' : i < h /\ Ends(h, fromService[i].of)'
    <2>1. i \in DOMAIN fromService /\ Created(i)
      BY <1>2, <1>8
    <2>2. \/ fromService[i].of = active
          \/ \E h \in DOMAIN fromService : i < h /\ Ends(h, fromService[i].of)
      BY <2>1 DEF InOrder
    <2>3. CASE fromService[i].of = active
      BY <2>1, <2>3, <1>1, <1>3, <1>5 DEF Ends
    <2>4. CASE \E h \in DOMAIN fromService : i < h /\ Ends(h, fromService[i].of)
      BY <2>1, <2>4, <1>1, <1>4 DEF Ends
    <2>5. QED
      BY <2>2, <2>3, <2>4
  <1>9. ASSUME response' # None
        PROVE  response' = active' \/ \E h \in DOMAIN fromService' : Ends(h, response)'
    <2>1. response = active \/ \E h \in DOMAIN fromService : Ends(h, response)
      BY <1>9 DEF InOrder
    <2>2. last \in DOMAIN fromService'
      BY <1>1
    <2>3. CASE response = active
      <3>1. CASE active' = active
        BY <2>3, <3>1
      <3>2. CASE active' # active
        BY <2>2, <2>3, <3>2, <1>5 DEF Ends
      <3>3. QED
        BY <3>1, <3>2
    <2>4. CASE \E h \in DOMAIN fromService : Ends(h, response)
      BY <2>4, <1>1, <1>4 DEF Ends
    <2>5. QED
      BY <2>1, <2>3, <2>4
  <1>10. QED
    BY <1>6, <1>7, <1>8, <1>9 DEF InOrder

LEMMA StreamTail ==
  ASSUME TypeOK, fromService # <<>>, fromService' = Tail(fromService)
  PROVE  /\ 1 \in DOMAIN fromService /\ Head(fromService) = fromService[1]
         /\ \A i \in DOMAIN fromService' :
              i \in Nat /\ i + 1 \in DOMAIN fromService /\ fromService'[i] = fromService[i + 1]
         /\ \A i \in DOMAIN fromService :
              i \in Nat /\ (i > 1 => i - 1 \in DOMAIN fromService' /\ fromService'[i - 1] = fromService[i])
PROOF
  <1>1. fromService \in Seq(Events) /\ fromService # <<>>
    BY DEF TypeOK
  <1>2. /\ Len(fromService) \in Nat \ {0} /\ DOMAIN fromService = 1..Len(fromService)
        /\ Head(fromService) = fromService[1]
    BY <1>1, EmptySeq
  <1>3. DOMAIN fromService' = 1..Len(fromService) - 1
    BY <1>1, <1>2
  <1>4. \A i \in 1..Len(fromService) - 1 : fromService'[i] = fromService[i + 1]
    BY <1>1, <1>2
  <1>5. QED
    BY <1>2, <1>3, <1>4

\* What holds of two messages of the stream holds of them when the first is gone.
LEMMA InOrderTaken ==
  ASSUME TypeOK, InOrder, fromService # <<>>, fromService' = Tail(fromService),
         UNCHANGED <<active, up>>
  PROVE  /\ \A i, j \in DOMAIN fromService' : i < j /\ Created(i)' /\ Created(j)' =>
              \E k \in DOMAIN fromService' : i < k /\ k < j /\ Ends(k, fromService[i].of)'
         /\ \A i \in DOMAIN fromService' : up' /\ Created(i)' =>
              \/ fromService'[i].of = active'
              \/ \E k \in DOMAIN fromService' : i < k /\ Ends(k, fromService[i].of)'
PROOF
  <1>1. /\ \A i \in DOMAIN fromService' :
             i \in Nat /\ i + 1 \in DOMAIN fromService /\ fromService'[i] = fromService[i + 1]
        /\ \A i \in DOMAIN fromService :
             i \in Nat /\ (i > 1 => i - 1 \in DOMAIN fromService' /\ fromService'[i - 1] = fromService[i])
    BY StreamTail
  <1>2. ASSUME NEW i \in DOMAIN fromService', NEW j \in DOMAIN fromService',
               i < j, Created(i)', Created(j)'
        PROVE  \E k \in DOMAIN fromService' : i < k /\ k < j /\ Ends(k, fromService[i].of)'
    <2>1. /\ i + 1 \in DOMAIN fromService /\ j + 1 \in DOMAIN fromService
          /\ Created(i + 1) /\ Created(j + 1) /\ i \in Nat /\ j \in Nat
          /\ fromService'[i] = fromService[i + 1]
      BY <1>1, <1>2 DEF Created
    <2>2. PICK k \in DOMAIN fromService :
            i + 1 < k /\ k < j + 1 /\ Ends(k, fromService[i + 1].of)
      BY <1>2, <2>1 DEF InOrder
    <2>3. k \in Nat /\ k > 1 /\ i < k - 1 /\ k - 1 < j
      BY <2>1, <2>2, <1>1
    <2>4. k - 1 \in DOMAIN fromService' /\ fromService'[k - 1] = fromService[k]
      BY <2>3, <1>1
    <2>5. QED
      BY <2>1, <2>2, <2>3, <2>4 DEF Ends
  <1>3. ASSUME NEW i \in DOMAIN fromService', up', Created(i)'
        PROVE  \/ fromService'[i].of = active'
               \/ \E k \in DOMAIN fromService' : i < k /\ Ends(k, fromService[i].of)'
    <2>1. /\ i + 1 \in DOMAIN fromService /\ Created(i + 1) /\ i \in Nat
          /\ fromService'[i] = fromService[i + 1] /\ up
      BY <1>1, <1>3 DEF Created
    <2>2. CASE fromService[i + 1].of = active
      BY <2>1, <2>2
    <2>3. CASE fromService[i + 1].of # active
      <3>1. PICK k \in DOMAIN fromService : i + 1 < k /\ Ends(k, fromService[i + 1].of)
        BY <2>1, <2>3 DEF InOrder
      <3>2. k \in Nat /\ k > 1 /\ i < k - 1
        BY <2>1, <3>1, <1>1
      <3>3. k - 1 \in DOMAIN fromService' /\ fromService'[k - 1] = fromService[k]
        BY <3>2, <1>1
      <3>4. QED
        BY <2>1, <3>1, <3>2, <3>3 DEF Ends
    <2>4. QED
      BY <2>2, <2>3
  <1>4. QED
    BY <1>2, <1>3

\* A message that ends the plugin's response, or has nothing to do with it.
LEMMA InOrderHeard ==
  ASSUME TypeOK, InOrder, fromService # <<>>, fromService' = Tail(fromService),
         UNCHANGED <<active, up>>,
         response' = None \/ (response' = response /\ ~Ends(1, response))
  PROVE  InOrder'
PROOF
  <1>1. /\ \A i \in DOMAIN fromService' :
             i \in Nat /\ i + 1 \in DOMAIN fromService /\ fromService'[i] = fromService[i + 1]
        /\ \A i \in DOMAIN fromService :
             i \in Nat /\ (i > 1 => i - 1 \in DOMAIN fromService' /\ fromService'[i - 1] = fromService[i])
        /\ \A i \in DOMAIN fromService : i = 1 \/ i > 1
    BY StreamTail, StreamShape
  <1>2. ASSUME NEW j \in DOMAIN fromService', response' # None, Created(j)'
        PROVE  \E k \in DOMAIN fromService' : k < j /\ Ends(k, response)'
    <2>1. /\ j + 1 \in DOMAIN fromService /\ Created(j + 1) /\ j \in Nat
          /\ response' = response /\ ~Ends(1, response)
      BY <1>1, <1>2 DEF Created
    <2>2. PICK k \in DOMAIN fromService : k < j + 1 /\ Ends(k, response)
      BY <1>2, <2>1 DEF InOrder
    <2>3. k \in Nat /\ k > 1 /\ k - 1 < j
      BY <2>1, <2>2, <1>1
    <2>4. k - 1 \in DOMAIN fromService' /\ fromService'[k - 1] = fromService[k]
      BY <2>3, <1>1
    <2>5. QED
      BY <2>1, <2>2, <2>3, <2>4 DEF Ends
  <1>3. ASSUME up', response' # None
        PROVE  response' = active' \/ \E k \in DOMAIN fromService' : Ends(k, response)'
    <2>1. response' = response /\ ~Ends(1, response) /\ up
      BY <1>3
    <2>2. CASE response # active
      <3>1. PICK k \in DOMAIN fromService : Ends(k, response)
        BY <1>3, <2>1, <2>2 DEF InOrder
      <3>2. k > 1 /\ k - 1 \in DOMAIN fromService' /\ fromService'[k - 1] = fromService[k]
        BY <2>1, <3>1, <1>1
      <3>3. QED
        BY <2>1, <3>1, <3>2 DEF Ends
    <2>3. QED
      BY <2>1, <2>2
  <1>4. QED
    BY <1>2, <1>3, InOrderTaken DEF InOrder

\* The next response: its end comes before another one.
LEMMA InOrderAdopted ==
  ASSUME TypeOK, InOrder, fromService # <<>>, fromService' = Tail(fromService),
         UNCHANGED <<active, up>>, Created(1), response' = fromService[1].of
  PROVE  InOrder'
PROOF
  <1>1. /\ \A i \in DOMAIN fromService' :
             i \in Nat /\ i + 1 \in DOMAIN fromService /\ fromService'[i] = fromService[i + 1]
        /\ \A i \in DOMAIN fromService :
             i \in Nat /\ (i > 1 => i - 1 \in DOMAIN fromService' /\ fromService'[i - 1] = fromService[i])
        /\ 1 \in DOMAIN fromService
        /\ \A i \in DOMAIN fromService' : i >= 1
    BY StreamTail, StreamShape
  <1>2. ASSUME NEW j \in DOMAIN fromService', Created(j)'
        PROVE  \E k \in DOMAIN fromService' : k < j /\ Ends(k, response)'
    <2>1. j + 1 \in DOMAIN fromService /\ Created(j + 1) /\ j \in Nat /\ 1 < j + 1
      BY <1>1, <1>2 DEF Created
    <2>2. PICK k \in DOMAIN fromService : 1 < k /\ k < j + 1 /\ Ends(k, fromService[1].of)
      BY <2>1, <1>1 DEF InOrder
    <2>3. k \in Nat /\ k > 1 /\ k - 1 < j
      BY <2>1, <2>2, <1>1
    <2>4. k - 1 \in DOMAIN fromService' /\ fromService'[k - 1] = fromService[k]
      BY <2>3, <1>1
    <2>5. QED
      BY <2>2, <2>3, <2>4 DEF Ends
  <1>3. ASSUME up'
        PROVE  response' = active' \/ \E k \in DOMAIN fromService' : Ends(k, response)'
    <2>1. CASE fromService[1].of # active
      <3>1. PICK k \in DOMAIN fromService : 1 < k /\ Ends(k, fromService[1].of)
        BY <1>1, <1>3, <2>1 DEF InOrder
      <3>2. k > 1 /\ k - 1 \in DOMAIN fromService' /\ fromService'[k - 1] = fromService[k]
        BY <3>1, <1>1
      <3>3. QED
        BY <3>1, <3>2 DEF Ends
    <2>2. QED
      BY <2>1
  <1>4. QED
    BY <1>2, <1>3, InOrderTaken DEF InOrder

LEMMA ServiceInOrder ==
  ASSUME TypeOK, InOrder, Service
  PROVE  InOrder'
PROOF
  <1>1. UNCHANGED response
    BY ServiceLeaves DEF pluginVars
  <1>2. CASE ServiceTakes
    <2> DEFINE command == Head(toService)
    <2>1. up /\ UNCHANGED up
      BY <1>2 DEF ServiceTakes
    <2>2. CASE command.kind = "request" /\ active = None /\ born < MaxResponses
      <3>1. active' = born + 1 /\ Say("created", born + 1, command.of)
        BY <1>2, <2>2, SessionAssumption DEF ServiceTakes, TypeOK
      <3>2. QED
        BY <3>1, <2>1, <2>2, <1>1, InOrderCreated
    <2>3. CASE command.kind = "request" /\ (active # None \/ born = MaxResponses)
      <3>1. Say("error", 0, command.of) /\ UNCHANGED active
        BY <1>2, <2>3, SessionAssumption DEF ServiceTakes, TypeOK
      <3>2. QED
        BY <3>1, <2>1, <1>1, InOrderSaid
    <2>4. CASE command.kind = "cancel" /\ active = command.of
      <3>1. active' = None /\ Say("done", command.of, 0)
        BY <1>2, <2>4 DEF ServiceTakes
      <3>2. QED
        BY <3>1, <2>1, <2>4, <1>1, InOrderSaid
    <2>5. CASE /\ ~(command.kind = "request" /\ (active # None \/ born = MaxResponses))
               /\ ~(command.kind = "request" /\ active = None /\ born < MaxResponses)
               /\ ~(command.kind = "cancel" /\ active = command.of)
      <3>1. UNCHANGED <<fromService, active>>
        BY <1>2, <2>5 DEF ServiceTakes
      <3>2. QED
        BY <3>1, <2>1, <1>1, InOrderKept
    <2>6. QED
      BY <2>2, <2>3, <2>4, <2>5
  <1>3. CASE ServiceReplies
    BY <1>1, <1>3, InOrderCreated DEF ServiceReplies
  <1>4. CASE ServiceStreams
    BY <1>1, <1>4, InOrderSaid DEF ServiceStreams
  <1>5. CASE TransportFails
    <2>1. CASE fromService' = fromService
      BY <1>1, <1>5, <2>1, InOrderKept DEF TransportFails
    <2>2. CASE fromService' = <<>>
      BY <1>5, <2>2, InOrderEmpty DEF TransportFails
    <2>3. QED
      BY <1>5, <2>1, <2>2 DEF TransportFails
  <1>6. QED
    BY <1>2, <1>3, <1>4, <1>5 DEF Service

LEMMA InOrderStays ==
  ASSUME TypeOK, InOrder, Apart, [Next]_vars
  PROVE  InOrder'
PROOF
  <1>1. CASE UNCHANGED vars
    BY <1>1, InOrderKept DEF vars, pluginVars, serviceVars
  <1>2. CASE ConnectionMade
    BY <1>2, InOrderEmpty DEF ConnectionMade, Apart
  <1>3. CASE ResponseCreated
    <2>1. /\ fromService # <<>> /\ fromService' = Tail(fromService) /\ UNCHANGED <<active, up>>
          /\ Head(fromService).kind = "created"
      BY <1>3 DEF ResponseCreated, Received
    <2>2. Created(1) /\ Head(fromService) = fromService[1]
      BY <2>1, StreamTail DEF Created
    <2>3. CASE response = None
      BY <1>3, <2>1, <2>2, <2>3, InOrderAdopted DEF ResponseCreated
    <2>4. CASE response # None
      <3>1. response' = response /\ ~Ends(1, response)
        BY <1>3, <2>2, <2>4 DEF ResponseCreated, Created, Ends
      <3>2. QED
        BY <2>1, <3>1, InOrderHeard
    <2>5. QED
      BY <2>3, <2>4
  <1>4. CASE DeltaReceived \/ DoneReceived \/ ErrorReceived
    <2>1. /\ fromService # <<>> /\ fromService' = Tail(fromService) /\ UNCHANGED <<active, up>>
          /\ Head(fromService).kind \in {"delta", "done", "error"}
      BY <1>4 DEF DeltaReceived, DoneReceived, ErrorReceived, Received
    <2>2. Head(fromService) = fromService[1]
      BY <2>1, StreamTail
    <2>3. response' = None \/ (response' = response /\ ~Ends(1, response))
      BY <1>4, <2>2 DEF DeltaReceived, DoneReceived, ErrorReceived, Received, FinishResponse, Ends
    <2>4. QED
      BY <2>1, <2>3, InOrderHeard
  <1>5. CASE Unwound \/ TasksGathered
    BY <1>5, ConnectionLeft, InOrderEmpty
  <1>6. QED
    BY <1>1, <1>2, <1>3, <1>4, <1>5, StreamLeftAlone, InOrderKept, ServiceInOrder
       DEF Next, Tasks, Connects, Closes

LEMMA NoFalseOverlapHolds ==
  ASSUME TypeOK, InOrder
  PROVE  NoFalseOverlap
PROOF
  <1> SUFFICES ASSUME response # None, fromService # <<>>, Head(fromService).kind = "created"
               PROVE  FALSE
    BY DEF NoFalseOverlap
  <1>1. fromService \in Seq(Events) /\ fromService # <<>>
    BY DEF TypeOK
  <1>2. 1 \in DOMAIN fromService /\ Head(fromService) = fromService[1]
    BY <1>1
  <1>3. PICK k \in DOMAIN fromService : k < 1
    BY <1>2 DEF InOrder, Created
  <1>4. QED
    BY <1>3, StreamShape

-----------------------------------------------------------------------------
(* What is queued.                                                         *)

LEMMA Appended ==
  ASSUME NEW S, NEW q \in Seq(S), NEW c \in S, NEW r, r = Append(q, c)
  PROVE  \A i \in DOMAIN r : r[i] = c \/ \E j \in DOMAIN q : r[i] = q[j]
PROOF
  <1>1. /\ DOMAIN r = 1..Len(q) + 1 /\ Len(q) \in Nat /\ DOMAIN q = 1..Len(q)
        /\ r[Len(q) + 1] = c /\ \A i \in DOMAIN q : r[i] = q[i]
    OBVIOUS
  <1>2. \A i \in DOMAIN r : i = Len(q) + 1 \/ i \in DOMAIN q
    BY <1>1
  <1>3. QED
    BY <1>1, <1>2

LEMMA Shortened ==
  ASSUME NEW S, NEW q \in Seq(S), q # <<>>, NEW r, r = Tail(q)
  PROVE  /\ \A i \in DOMAIN r : \E j \in DOMAIN q : r[i] = q[j]
         /\ \E j \in DOMAIN q : Head(q) = q[j]
PROOF
  <1>1. /\ Len(q) \in Nat \ {0} /\ DOMAIN q = 1..Len(q) /\ Head(q) = q[1]
    BY EmptySeq
  <1>2. DOMAIN r = 1..Len(q) - 1
    BY <1>1
  <1>3. \A i \in 1..Len(q) - 1 : r[i] = q[i + 1] /\ i + 1 \in DOMAIN q
    BY <1>1
  <1>4. QED
    BY <1>1, <1>2, <1>3

\* Nothing but commands of this connection is added to either queue.
LEMMA QueuedKept ==
  ASSUME QueuedIsCurrent, conn' = conn,
         \A i \in DOMAIN outbound' :
           \/ outbound'[i].kind = "audio" \/ outbound'[i].conn = conn
           \/ \E j \in DOMAIN outbound : outbound'[i] = outbound[j],
         \A i \in DOMAIN toService' :
           \/ \E j \in DOMAIN toService : toService'[i] = toService[j]
           \/ \E j \in DOMAIN outbound : toService'[i] = outbound[j],
         conn > 0 /\ run' \in {"sleeping", "connecting"} /\ ~closing' =>
           \A i \in DOMAIN outbound' : outbound'[i].kind = "audio"
  PROVE  QueuedIsCurrent'
BY DEF QueuedIsCurrent, OnlyOnItsConnection, EverConnected

\* A command is only made while there is a connection, or has never been one.
LEMMA CommandQueued ==
  ASSUME TypeOK, QueuedIsCurrent, NEW c \in Commands, Queue(c),
         UNCHANGED <<conn, toService, run, closing>>,
         \/ c.kind = "audio"
         \/ c.conn = conn /\ ~(conn > 0 /\ run \in {"sleeping", "connecting"} /\ ~closing)
  PROVE  QueuedIsCurrent'
PROOF
  <1>1. \A i \in DOMAIN outbound' : outbound'[i] = c \/ \E j \in DOMAIN outbound : outbound'[i] = outbound[j]
    BY Appended DEF Queue, TypeOK
  <1>2. conn > 0 /\ run \in {"sleeping", "connecting"} /\ ~closing =>
          \A i \in DOMAIN outbound' : outbound'[i].kind = "audio"
    BY <1>1 DEF QueuedIsCurrent, EverConnected
  <1>3. QED
    BY <1>1, <1>2, QueuedKept

LEMMA NothingQueued ==
  ASSUME QueuedIsCurrent, conn' = conn, outbound' \in {<<>>, outbound}, toService' \in {<<>>, toService},
         \/ outbound' = <<>>
         \/ run' \in {"sleeping", "connecting"} /\ ~closing' => run \in {"sleeping", "connecting"} /\ ~closing
  PROVE  QueuedIsCurrent'
PROOF
  <1>1. \A i \in DOMAIN outbound' : i \in DOMAIN outbound /\ outbound'[i] = outbound[i]
    OBVIOUS
  <1>2. \A i \in DOMAIN toService' : i \in DOMAIN toService /\ toService'[i] = toService[i]
    OBVIOUS
  <1>3. conn > 0 /\ run' \in {"sleeping", "connecting"} /\ ~closing' =>
          \A i \in DOMAIN outbound' : outbound'[i].kind = "audio"
    BY <1>1 DEF QueuedIsCurrent, EverConnected
  <1>4. QED
    BY <1>1, <1>2, <1>3, QueuedKept

LEMMA CallsQueue ==
  ASSUME TypeOK, QueuedIsCurrent, Apart, Calls
  PROVE  QueuedIsCurrent'
PROOF
  <1>1. ASSUME NEW g \in Requests, Request(g)
        PROVE  QueuedIsCurrent'
    <2>1. /\ Command("request", g) \in Commands /\ Queue(Command("request", g))
          /\ Command("request", g).conn = conn
      BY <1>1, CommandTyped DEF Request, Command
    <2>2. ~(conn > 0 /\ run \in {"sleeping", "connecting"})
      BY <1>1 DEF Request, MayRequest, Reachable, EverConnected, Apart
    <2>3. UNCHANGED <<conn, toService, run, closing>>
      BY <1>1 DEF Request, serviceVars
    <2>4. QED
      BY <2>1, <2>2, <2>3, CommandQueued
  <1>2. ASSUME NEW g \in Requests, SayStream(g)
        PROVE  QueuedIsCurrent'
    BY <1>2, NothingQueued DEF SayStream, serviceVars
  <1>3. CASE Interrupt
    <2>1. response \in Nat
      BY SessionAssumption DEF TypeOK, Responses, None
    <2>2. /\ Command("cancel", response) \in Commands /\ Queue(Command("cancel", response))
          /\ Command("cancel", response).conn = conn
      BY <1>3, <2>1, CommandTyped DEF Interrupt, Command
    <2>3. run \notin {"sleeping", "connecting"}
      BY <1>3 DEF Interrupt, Apart
    <2>4. UNCHANGED <<conn, toService, run, closing>>
      BY <1>3 DEF Interrupt, serviceVars
    <2>5. QED
      BY <2>2, <2>3, <2>4, CommandQueued
  <1>4. CASE PushAudio
    BY <1>4, NothingQueued DEF PushAudio, serviceVars
  <1>5. CASE Close
    <2> DEFINE room == IF Len(outbound) < MaxOutbound THEN outbound ELSE Tail(outbound)
    <2>1. outbound \in Seq(Commands) /\ Command("stop", 0) \in Commands
      BY CommandTyped DEF TypeOK
    <2>2. Len(outbound) < MaxOutbound \/ outbound # <<>>
      BY SessionAssumption DEF TypeOK
    <2>3. \A i \in DOMAIN room : \E j \in DOMAIN outbound : room[i] = outbound[j]
      BY <2>1, <2>2, Shortened
    <2>4. room \in Seq(Commands)
      BY <2>1, <2>2
    <2>5. outbound' = Append(room, Command("stop", 0)) /\ Command("stop", 0).conn = conn
      BY <1>5 DEF Close, WithStop, Command
    <2> HIDE DEF room
    <2>6. \A i \in DOMAIN outbound' :
            outbound'[i] = Command("stop", 0) \/ \E j \in DOMAIN room : outbound'[i] = room[j]
      BY <2>1, <2>4, <2>5, Appended
    <2>7. \A i \in DOMAIN outbound' :
            outbound'[i].conn = conn \/ \E j \in DOMAIN outbound : outbound'[i] = outbound[j]
      BY <2>3, <2>5, <2>6
    <2>8. closing' /\ UNCHANGED <<conn, toService>>
      BY <1>5 DEF Close, serviceVars
    <2>9. QED
      BY <2>7, <2>8, QueuedKept
  <1>6. QED
    BY <1>1, <1>2, <1>3, <1>4, <1>5 DEF Calls

LEMMA CollectsQueue ==
  ASSUME TypeOK, QueuedIsCurrent, DisconnectIsClean, Collects \/ RequestExpires
  PROVE  QueuedIsCurrent'
PROOF
  <1>1. ASSUME NEW g \in Requests, TextCollected(g)
        PROVE  QueuedIsCurrent'
    <2>1. /\ Command("request", g) \in Commands /\ Queue(Command("request", g))
          /\ Command("request", g).conn = conn
      BY <1>1, CommandTyped DEF TextCollected, Command
    <2>2. pending # None
      BY <1>1, SessionAssumption DEF TextCollected, Requests, None
    <2>3. ~(conn > 0 /\ run \in {"sleeping", "connecting"})
      BY <2>2 DEF DisconnectIsClean, EverConnected
    <2>4. UNCHANGED <<conn, toService, run, closing>>
      BY <1>1 DEF TextCollected, serviceVars
    <2>5. QED
      BY <2>1, <2>3, <2>4, CommandQueued
  <1>2. ASSUME NEW g \in Requests, CollectorStops(g)
        PROVE  QueuedIsCurrent'
    BY <1>2, NothingQueued DEF CollectorStops, serviceVars
  <1>3. CASE RequestExpires
    BY <1>3, NothingQueued DEF RequestExpires, serviceVars
  <1>4. QED
    BY <1>1, <1>2, <1>3 DEF Collects

LEMMA ConnectsQueue ==
  ASSUME TypeOK, QueuedIsCurrent, Apart, Connects \/ Unwound
  PROVE  QueuedIsCurrent'
PROOF
  <1>1. CASE ConnectionMade
    <2>1. /\ conn' = conn + 1 /\ run' = "live" /\ toService' = <<>> /\ outbound' = outbound
          /\ run = "connecting" /\ ~closing
      BY <1>1 DEF ConnectionMade, Apart, TypeOK
    <2>2. conn \in Nat
      BY SessionAssumption DEF TypeOK
    <2>3. CASE conn = 0
      <3>1. \A i \in DOMAIN outbound : outbound[i].kind # "audio" => outbound[i].conn = 0
        BY <2>3 DEF QueuedIsCurrent, OnlyOnItsConnection
      <3>2. QED
        BY <3>1, <2>1, <2>3 DEF QueuedIsCurrent, OnlyOnItsConnection
    <2>4. CASE conn # 0
      <3>1. \A i \in DOMAIN outbound : outbound[i].kind = "audio"
        BY <2>1, <2>2, <2>4 DEF QueuedIsCurrent, EverConnected
      <3>2. QED
        BY <3>1, <2>1 DEF QueuedIsCurrent
    <2>5. QED
      BY <2>3, <2>4
  <1>2. CASE ConnectFails
    BY <1>2, NothingQueued DEF ConnectFails, LoseConnection, QueueCleared, serviceVars
  <1>3. CASE ConnectRefused
    BY <1>3, NothingQueued DEF ConnectRefused, EndRun, serviceVars
  <1>4. CASE Unwound
    <2>1. toService' = <<>> /\ conn' = conn
      BY <1>4 DEF Unwound, TransportGone
    <2>2. outbound' = <<>> \/ (outbound' = outbound /\ run' \in {"ended", "ending"})
      BY <1>4 DEF Unwound, EndRun, LoseConnection, QueueCleared
    <2>3. QED
      BY <2>1, <2>2, NothingQueued
  <1>5. QED
    BY <1>1, <1>2, <1>3, <1>4 DEF Connects

LEMMA TasksQueue ==
  ASSUME TypeOK, QueuedIsCurrent, Tasks \/ Closes, ~Unwound
  PROVE  QueuedIsCurrent'
PROOF
  <1>1. CASE SleepOver
    BY <1>1, NothingQueued DEF SleepOver, serviceVars
  <1>2. CASE Ended \/ TasksGathered
    BY <1>2, NothingQueued DEF Ended, TasksGathered, TransportGone, serviceVars
  <1>3. CASE Send
    <2>1. outbound \in Seq(Commands) /\ outbound # <<>>
      BY <1>3 DEF Send, TypeOK
    <2>2. outbound' = Tail(outbound) /\ conn' = conn /\ closing' = closing
          /\ run' \in {"live", "unwinding"}
      BY <1>3 DEF Send, Leave
    <2>3. /\ \A i \in DOMAIN outbound' : \E j \in DOMAIN outbound : outbound'[i] = outbound[j]
          /\ \E j \in DOMAIN outbound : Head(outbound) = outbound[j]
      BY <2>1, <2>2, Shortened
    <2>4. \A i \in DOMAIN toService' :
            (i \in DOMAIN toService /\ toService'[i] = toService[i]) \/ toService'[i] = Head(outbound)
      <3> DEFINE first == Head(outbound)
      <3>1. UNCHANGED toService \/ toService' = Append(<<>>, first)
        BY <1>3 DEF Send
      <3> HIDE DEF first
      <3>2. DOMAIN Append(<<>>, first) = 1..1 /\ Append(<<>>, first)[1] = first
        <4>1. <<>> \in Seq({first}) /\ Len(<<>>) = 0
          OBVIOUS
        <4>2. QED
          BY <4>1, AppendProperties
      <3>3. QED
        BY <3>1, <3>2 DEF first
    <2>5. \A i \in DOMAIN toService' :
            \/ \E j \in DOMAIN toService : toService'[i] = toService[j]
            \/ \E j \in DOMAIN outbound : toService'[i] = outbound[j]
      BY <2>3, <2>4
    <2>6. QED
      BY <2>2, <2>3, <2>5, QueuedKept
  <1>4. CASE ReceiverFails \/ ChannelRead
    BY <1>4, NothingQueued DEF ReceiverFails, ChannelRead, Leave, serviceVars
  <1>5. CASE ResponseCreated \/ DeltaReceived \/ DoneReceived \/ ErrorReceived
    <2>1. UNCHANGED <<conn, closing, outbound, toService>> /\ run = "live" /\ run' \in {"live", "unwinding"}
      BY <1>5 DEF ResponseCreated, DeltaReceived, DoneReceived, ErrorReceived, Received, Hears, Leave
    <2>2. QED
      BY <2>1, NothingQueued
  <1>6. CASE AudioConverted
    <2> DEFINE c == [kind |-> "audio", of |-> 0, conn |-> Head(audio)]
    <2>1. audio \in Seq(0..MaxConns) /\ audio # <<>>
      BY <1>6 DEF AudioConverted, TypeOK
    <2>2. Head(audio) \in 0..MaxConns
      BY <2>1, HeadTailProperties
    <2>3. c \in Commands /\ c.kind = "audio" /\ Queue(c)
      BY <1>6, <2>2 DEF AudioConverted, Commands
    <2> HIDE DEF c
    <2>4. UNCHANGED <<conn, toService, run, closing>>
      BY <1>6 DEF AudioConverted, serviceVars
    <2>5. QED
      BY <2>3, <2>4, CommandQueued
  <1>7. CASE CloseEnds
    BY <1>7, NothingQueued DEF CloseEnds, serviceVars
  <1>8. QED
    BY <1>1, <1>2, <1>3, <1>4, <1>5, <1>6, <1>7 DEF Tasks, Closes

LEMMA ServiceQueue ==
  ASSUME TypeOK, QueuedIsCurrent, Service
  PROVE  QueuedIsCurrent'
PROOF
  <1>1. UNCHANGED <<conn, run, closing, outbound>>
    BY ServiceLeaves DEF pluginVars
  <1>2. CASE ServiceTakes
    <2>1. toService \in Seq(Commands) /\ toService # <<>> /\ toService' = Tail(toService)
      BY <1>2 DEF ServiceTakes, TypeOK
    <2>2. \A i \in DOMAIN toService' : \E j \in DOMAIN toService : toService'[i] = toService[j]
      BY <2>1, Shortened
    <2>3. QED
      BY <1>1, <2>2, QueuedKept DEF QueuedIsCurrent, EverConnected
  <1>3. CASE ServiceReplies \/ ServiceStreams \/ TransportFails
    BY <1>1, <1>3, NothingQueued DEF ServiceReplies, ServiceStreams, TransportFails
  <1>4. QED
    BY <1>2, <1>3 DEF Service

-----------------------------------------------------------------------------
(* The main task and the close.                                            *)

LEMMA ApartStays ==
  ASSUME TypeOK, Apart, [Next]_vars
  PROVE  Apart'
PROOF
  <1>1. CASE Calls
    <2>1. ASSUME NEW g \in Requests, Request(g) \/ SayStream(g)
          PROVE  UNCHANGED <<run, connected, response, closer, closing>>
      BY <2>1 DEF Request, SayStream
    <2>2. CASE Interrupt \/ PushAudio
      BY <2>2 DEF Interrupt, PushAudio, FinishResponse, Apart
    <2>3. CASE Close
      <3>1. run' = run /\ closing' /\ ~connected' /\ response' = None
        BY <2>3 DEF Close, FinishResponse
      <3>2. run = "connecting" => closer' = "socket"
        BY <2>3 DEF Close, Hears
      <3>3. QED
        BY <3>1, <3>2 DEF Apart
    <2>4. QED
      BY <1>1, <2>1, <2>2, <2>3 DEF Calls, Apart
  <1>2. CASE Collects \/ RequestExpires
    <2>1. ASSUME NEW g \in Requests, TextCollected(g) \/ CollectorStops(g)
          PROVE  UNCHANGED <<run, connected, response, closer, closing>>
      BY <2>1 DEF TextCollected, CollectorStops
    <2>2. QED
      BY <1>2, <2>1 DEF Collects, RequestExpires, Apart
  <1>3. CASE ConnectionMade
    BY <1>3 DEF ConnectionMade, Apart
  <1>4. CASE ConnectFails \/ ConnectRefused
    BY <1>4 DEF ConnectFails, ConnectRefused, LoseConnection, EndRun, FinishResponse, Apart
  <1>5. CASE Unwound
    BY <1>5 DEF Unwound, LoseConnection, EndRun, FinishResponse, Apart
  <1>6. CASE SleepOver
    BY <1>6 DEF SleepOver, Apart
  <1>7. CASE Ended \/ AudioConverted \/ CloseEnds
    BY <1>7 DEF Ended, AudioConverted, CloseEnds, Apart
  <1>8. CASE Send \/ ReceiverFails \/ ChannelRead
    BY <1>8 DEF Send, ReceiverFails, ChannelRead, Leave, Apart
  <1>9. CASE ResponseCreated \/ DeltaReceived \/ DoneReceived \/ ErrorReceived
    <2>1. run' \in {"live", "unwinding"} /\ UNCHANGED closing /\ (closer' # "none" => closer # "none")
      BY <1>9 DEF ResponseCreated, DeltaReceived, DoneReceived, ErrorReceived, Received, Hears,
                  Leave, NoteLate
    <2>2. QED
      BY <2>1 DEF Apart
  <1>10. CASE TasksGathered
    BY <1>10 DEF TasksGathered, Apart
  <1>11. CASE Service \/ UNCHANGED vars
    BY <1>11, ServiceLeaves DEF vars, pluginVars, Apart
  <1>12. QED
    BY <1>1, <1>2, <1>3, <1>4, <1>5, <1>6, <1>7, <1>8, <1>9, <1>10, <1>11
       DEF Next, Tasks, Connects, Closes

\* What a disconnect leaves empty stays empty: without a connection nothing can be
\* asked for, and no response comes.
LEMMA CleanStays ==
  ASSUME TypeOK, OpenIsCurrent, Apart, DisconnectIsClean, [Next]_vars
  PROVE  DisconnectIsClean'
PROOF
  <1>1. CASE Calls
    <2>1. ASSUME NEW g \in Requests, Request(g) \/ SayStream(g)
          PROVE  DisconnectIsClean'
      BY <2>1 DEF Request, SayStream, MayRequest, Reachable, EverConnected, Apart, DisconnectIsClean
    <2>2. CASE Interrupt \/ PushAudio
      BY <2>2 DEF Interrupt, PushAudio, FinishResponse, WithoutResponse, Apart, DisconnectIsClean, EverConnected
    <2>3. CASE Close
      BY <2>3 DEF Close, FinishResponse, WithoutResponse, FailPending, DisconnectIsClean, EverConnected
    <2>4. QED
      BY <1>1, <2>1, <2>2, <2>3 DEF Calls
  <1>2. CASE Collects \/ RequestExpires
    <2>1. ASSUME NEW g \in Requests, TextCollected(g) \/ CollectorStops(g)
          PROVE  DisconnectIsClean'
      BY <2>1 DEF TextCollected, CollectorStops, FailPending, DisconnectIsClean, EverConnected
    <2>2. QED
      BY <1>2, <2>1 DEF Collects, RequestExpires, FailPending, DisconnectIsClean, EverConnected
  <1>3. CASE ConnectionMade
    BY <1>3 DEF ConnectionMade, DisconnectIsClean
  <1>4. CASE ConnectFails
    BY <1>4 DEF ConnectFails, LoseConnection, FinishResponse, WithoutResponse, FailPending,
                OpenIsCurrent, DisconnectIsClean
  <1>5. CASE ConnectRefused
    BY <1>5 DEF ConnectRefused, EndRun, DisconnectIsClean
  <1>6. CASE Unwound
    BY <1>6 DEF Unwound, LoseConnection, EndRun, FinishResponse, WithoutResponse, FailPending,
                OpenIsCurrent, DisconnectIsClean
  <1>7. CASE SleepOver
    BY <1>7 DEF SleepOver, DisconnectIsClean, EverConnected
  <1>8. CASE Ended \/ TasksGathered
    BY <1>8 DEF Ended, TasksGathered, DisconnectIsClean
  <1>9. CASE AudioConverted \/ CloseEnds
    BY <1>9 DEF AudioConverted, CloseEnds, FailPending, DisconnectIsClean, EverConnected
  <1>10. CASE Send \/ ReceiverFails \/ ChannelRead
    BY <1>10 DEF Send, ReceiverFails, ChannelRead, Leave, DisconnectIsClean
  <1>11. CASE ResponseCreated \/ DeltaReceived \/ DoneReceived \/ ErrorReceived
    <2>1. run' \in {"live", "unwinding"}
      BY <1>11 DEF ResponseCreated, DeltaReceived, DoneReceived, ErrorReceived, Received, Hears, Leave
    <2>2. QED
      BY <2>1 DEF DisconnectIsClean
  <1>12. CASE Service \/ UNCHANGED vars
    BY <1>12, ServiceLeaves DEF vars, pluginVars, DisconnectIsClean, EverConnected
  <1>13. QED
    BY <1>1, <1>2, <1>3, <1>4, <1>5, <1>6, <1>7, <1>8, <1>9, <1>10, <1>11, <1>12
       DEF Next, Tasks, Connects, Closes

-----------------------------------------------------------------------------
(* The invariants.                                                         *)

\* The inductive invariant. NoFalseOverlap is what InOrder says of the next message.
IInv ==
  TypeOK /\ OpenIsCurrent /\ InOrder /\ QueuedIsCurrent /\ Apart /\ DisconnectIsClean

LEMMA InitIsInv == Init => IInv
PROOF
  <1> SUFFICES ASSUME Init PROVE IInv
    OBVIOUS
  <1>1. TypeOK
    BY InitTyped
  <1>2. InOrder
    BY DEF Init, InOrder
  <1>3. QueuedIsCurrent
    BY DEF Init, QueuedIsCurrent, EverConnected
  <1>4. OpenIsCurrent /\ Apart /\ DisconnectIsClean
    BY DEF Init, OpenIsCurrent, Apart, DisconnectIsClean, EverConnected
  <1>5. QED
    BY <1>1, <1>2, <1>3, <1>4 DEF IInv

LEMMA StepKeepsInv ==
  ASSUME IInv, [Next]_vars
  PROVE  IInv'
PROOF
  <1>1. TypeOK /\ OpenIsCurrent /\ InOrder /\ QueuedIsCurrent /\ Apart /\ DisconnectIsClean
    BY DEF IInv
  <1>2. TypeOK' /\ OpenIsCurrent' /\ InOrder' /\ Apart' /\ DisconnectIsClean'
    BY <1>1, StepTyped, OpenStays, InOrderStays, ApartStays, CleanStays
  <1>3. QueuedIsCurrent'
    <2>1. CASE UNCHANGED vars
      BY <1>1, <2>1, NothingQueued DEF vars, pluginVars, serviceVars
    <2>2. QED
      BY <1>1, <2>1, CallsQueue, CollectsQueue, ConnectsQueue, TasksQueue, ServiceQueue DEF Next
  <1>4. QED
    BY <1>2, <1>3 DEF IInv

\* The inductive invariant holds of every session (_main_task, _send_loop, _receive_loop,
\* aclose and the calls of LiveKit).
THEOREM InductiveInvariant == Spec => []IInv
PROOF
  <1>1. IInv /\ [Next]_vars => IInv'
    BY StepKeepsInv
  <1>2. QED
    BY InitIsInv, <1>1, PTL DEF Spec

\* The channels LiveKit reads belong to the current response, and the service never
\* makes the plugin take two responses for overlapping ones, however often a
\* response is interrupted before the service hears of it and however connections
\* come and go (_response_created, _finish_response, interrupt).
THEOREM SessionInvAlways == Spec => []SessionInv
PROOF
  <1>1. IInv => SessionInv
    BY NoFalseOverlapHolds DEF IInv, SessionInv
  <1>2. QED
    BY InductiveInvariant, <1>1, PTL

\* Between two connections there is no response, no open channel and no pending
\* request of the old one (_disconnect_cleanup).
THEOREM DisconnectIsCleanAlways == Spec => []DisconnectIsClean
PROOF
  <1>1. IInv => DisconnectIsClean
    BY DEF IInv
  <1>2. QED
    BY InductiveInvariant, <1>1, PTL

\* Of what the sender takes from the queue, a request or a cancellation goes to the
\* connection it was made on, or to the first one (_send_loop, _disconnect_cleanup).
THEOREM NoStaleRequestAlways == Spec => NoStaleRequest
PROOF
  <1> DEFINE Ours == \A c \in {toService'[i] : i \in DOMAIN toService'} :
                       c.kind # "audio" => c.conn = conn' \/ (c.conn = 0 /\ conn' = 1)
  <1>1. IInv' => Ours
    BY DEF IInv, QueuedIsCurrent, OnlyOnItsConnection
  <1>2. IInv' => [Ours]_toService
    BY <1>1
  <1>3. QED
    BY <1>2, InductiveInvariant, PTL DEF NoStaleRequest
=============================================================================
