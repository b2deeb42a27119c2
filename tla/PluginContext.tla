---------------------------- MODULE PluginContext ----------------------------
(***************************************************************************)
(* The chat context of the plugin (realtime.py of the plugin) and the      *)
(* conversation of the service (conversation.py, pipeline.py): updates by  *)
(* LiveKit with their acknowledgements, what the service adds on its own,  *)
(* tool calls and their invalidation by speech, the loss of a connection   *)
(* and the replay on the next one. PluginSession has the connection.       *)
(*                                                                         *)
(* One update is under way at a time. Nothing is interrupted between a     *)
(* tool call and its response.done, and a coroutine that has been woken    *)
(* runs before a reconnect or a generation of the service can complete.    *)
(***************************************************************************)
EXTENDS Naturals, Sequences, FiniteSets, SequencesExt

CONSTANTS
  MaxItems,     \* bound: items that come about
  MaxConns,     \* bound: connections
  MaxEvents,    \* bound: events under way from the service
  MaxMessages,  \* max_messages of Conversation, in items
  BootUpdates,  \* LiveKit updates the context while a replay is running
  ManualTurns   \* turns are committed by the client instead of the VAD

ASSUME ContextAssumption ==
  /\ MaxItems \in Nat /\ MaxConns \in Nat /\ MaxEvents \in Nat \ {0}
  /\ MaxMessages \in Nat \ {0, 1}
  /\ BootUpdates \in BOOLEAN /\ ManualTurns \in BOOLEAN

None == 0
Items == 1..MaxItems
Kinds == {"said", "message", "call", "output"}

VARIABLES
  made,      \* the items there are: kind, and the call an output belongs to
  ctx,       \* _chat_ctx
  invalid,   \* _invalidated_call_ids
  unplayed,  \* _non_model_replay_item_ids
  link,      \* no connection, its bootstrap, connected, or the session is over
  conns,
  replay,    \* what the bootstrap has still to send
  todo,      \* the additions of the running update_chat_ctx, the awaited one first
  waiter,    \* its future in _ack_waiters
  outbound,  \* its command in _outbound
  sent,      \* its command on the way
  events,    \* events on the way to the plugin
  history,   \* groups of the service's conversation; an exchange is its output
  pendingCall

pluginVars == <<ctx, invalid, unplayed, link, conns, replay, todo, waiter, outbound>>
serviceVars == <<history, pendingCall>>
vars == <<made, pluginVars, sent, events, serviceVars>>

Known == 1..Len(made)
Has(kind, i) == made[i].kind = kind
Made(kind, call) == Append(made, [kind |-> kind, of |-> call])
Newest == Len(made) + 1
Events == [kind : {"ack", "refused", "item", "filler", "call", "speech"}, of : 0..MaxItems]

TypeOK ==
  /\ made \in Seq([kind : Kinds, of : 0..MaxItems]) /\ Len(made) <= MaxItems
  /\ ctx \in Seq(Known) /\ IsInjective(ctx)
  /\ invalid \subseteq Known /\ unplayed \subseteq Known
  /\ link \in {"down", "boot", "live", "over"} /\ conns \in 0..MaxConns
  /\ replay \in Seq(Known) /\ todo \in Seq(Known)
  /\ waiter \in {"none", "waiting", "acked", "failed"}
  /\ outbound \in {None} \cup Known /\ sent \in {None} \cup Known
  /\ events \in Seq(Events) /\ Len(events) <= MaxEvents
  /\ history \in Seq(Known) /\ pendingCall \in {None} \cup Known

Init ==
  /\ made = <<>> /\ ctx = <<>> /\ invalid = {} /\ unplayed = {}
  /\ link = "down" /\ conns = 0 /\ replay = <<>>
  /\ todo = <<>> /\ waiter = "none" /\ outbound = None /\ sent = None /\ events = <<>>
  /\ history = <<>> /\ pendingCall = None

-----------------------------------------------------------------------------
(* The conversation.                                                       *)

\* An exchange counts twice, for its call and its output.
Exchanges(groups) == {n \in DOMAIN groups : groups[n] \in Known /\ Has("output", groups[n])}
Size(groups) == Len(groups) + Cardinality(Exchanges(groups))

\* The oldest groups go until the rest fits.
Trimmed(groups) ==
  LET Rest(k) == SubSeq(groups, k, Len(groups))
      fit == {k \in 1..Len(groups) : Size(Rest(k)) <= MaxMessages}
  IN Rest(CHOOSE k \in fit : \A j \in fit : k <= j)

Appended(item) == Trimmed(Append(history, item))

\* A function call is only taken while a context is replayed, which is over
\* with the first other event of the client.
Accepts(i) ==
  CASE Has("call", i)   -> link = "boot" /\ pendingCall = None
    [] Has("output", i) -> pendingCall # None /\ made[i].of = pendingCall
    [] OTHER            -> TRUE

Take(i) ==
  IF Has("call", i)
    THEN pendingCall' = i /\ UNCHANGED history
    ELSE /\ history' = Appended(i)
         /\ pendingCall' = IF Has("output", i) THEN None ELSE pendingCall

-----------------------------------------------------------------------------
(* What the plugin makes of its context.                                   *)

Answered(c) == \E i \in ToSet(ctx) : Has("output", i) /\ made[i].of = c
Dangling == {c \in ToSet(ctx) : Has("call", c) /\ ~Answered(c)}
CallOf(i) == IF Has("output", i) THEN made[i].of ELSE i

\* Mutant: the output of an invalidated call is replayed.
SkippedCalls(i) == i \in unplayed \/ (Has("call", i) /\ i \in invalid)

\* _skip_invalidated_replay.
Skipped(i) == i \in unplayed \/ CallOf(i) \in invalid

Replayed == {i \in ToSet(ctx) : ~Skipped(i)}

\* Mutant: an addition that was refused is kept.
KeptAnyway(confirmed) == Append(ctx, Head(todo))

Grown(confirmed) == IF confirmed THEN Append(ctx, Head(todo)) ELSE ctx

-----------------------------------------------------------------------------
(* update_chat_ctx.                                                        *)

\* New items for the context: a message, the output of a call, or both in a
\* batch. An output of an invalidated call is refused while connected.
Additions ==
  {<<[kind |-> "message", of |-> None]>>}
  \cup UNION {LET output == [kind |-> "output", of |-> c]
              IN {<<output>>, <<output, [kind |-> "message", of |-> None]>>}
              : c \in IF link = "live" THEN Dangling \ invalid ELSE Dangling}

Update ==
  /\ link # "over" /\ todo = <<>>
  /\ link = "boot" => BootUpdates
  /\ \E batch \in Additions :
       LET new == [n \in DOMAIN batch |-> Len(made) + n] IN
       /\ Len(made) + Len(batch) <= MaxItems
       /\ made' = made \o batch
       /\ IF link = "live"
            THEN /\ todo' = new /\ waiter' = "waiting" /\ outbound' = Head(new)
                 /\ UNCHANGED ctx
            ELSE ctx' = ctx \o new /\ UNCHANGED <<todo, waiter, outbound>>
  /\ UNCHANGED <<invalid, unplayed, link, conns, replay, sent, events, serviceVars>>

\* The coroutine wakes up: the item is confirmed and the next one queued,
\* whatever has become of the connection, or the update is over.
Resume ==
  /\ waiter \in {"acked", "failed"}
  /\ ctx' = Grown(waiter = "acked")
  /\ IF waiter = "acked" /\ Len(todo) > 1
       THEN todo' = Tail(todo) /\ waiter' = "waiting" /\ outbound' = todo[2]
       ELSE todo' = <<>> /\ waiter' = "none" /\ UNCHANGED outbound
  /\ UNCHANGED <<made, invalid, unplayed, link, conns, replay, sent, events, serviceVars>>

\* The timeout of an acknowledgement ends the session.
AckTimeout ==
  /\ waiter = "waiting" /\ link # "over"
  /\ link' = "over" /\ waiter' = "failed"
  /\ outbound' = None /\ sent' = None /\ events' = <<>> /\ replay' = <<>>
  /\ UNCHANGED <<made, ctx, invalid, unplayed, conns, todo, serviceVars>>

-----------------------------------------------------------------------------
(* Connections.                                                            *)

\* A new session of the service, configured; the replay starts from the
\* context as it is now.
BootBegins ==
  /\ link = "down" /\ conns < MaxConns /\ waiter \notin {"acked", "failed"}
  /\ link' = "boot" /\ conns' = conns + 1
  /\ replay' = ctx
  /\ history' = <<>> /\ pendingCall' = None
  /\ UNCHANGED <<made, ctx, invalid, unplayed, todo, waiter, outbound, sent, events>>

\* One item is left out, or sent with _send_direct_with_ack.
ReplayItem ==
  /\ link = "boot" /\ replay # <<>>
  /\ IF Skipped(Head(replay))
       THEN UNCHANGED serviceVars
       ELSE Accepts(Head(replay)) /\ Take(Head(replay))
  /\ replay' = Tail(replay)
  /\ UNCHANGED <<made, ctx, invalid, unplayed, link, conns, todo, waiter, outbound, sent, events>>

BootEnds ==
  /\ link = "boot" /\ replay = <<>>
  /\ link' = "live"
  /\ UNCHANGED <<made, ctx, invalid, unplayed, conns, replay, todo, waiter, outbound, sent,
                 events, serviceVars>>

\* _disconnect_cleanup.
Disconnected ==
  /\ link' = "down" /\ replay' = <<>>
  /\ outbound' = None /\ sent' = None /\ events' = <<>>
  /\ waiter' = IF waiter = "waiting" THEN "failed" ELSE waiter
  /\ UNCHANGED <<made, ctx, invalid, unplayed, conns, todo, serviceVars>>

Lose == link \in {"boot", "live"} /\ Disconnected

\* The sender builds the event when it takes the command; that speech has
\* invalidated the call meanwhile ends the connection.
Send ==
  /\ link = "live" /\ outbound # None /\ sent = None
  /\ IF Has("output", outbound) /\ made[outbound].of \in invalid
       THEN Disconnected
       ELSE /\ sent' = outbound /\ outbound' = None
            /\ UNCHANGED <<made, ctx, invalid, unplayed, link, conns, replay, todo, waiter,
                           events, serviceVars>>

-----------------------------------------------------------------------------
(* The service while the connection is up.                                 *)

Tell(kind, of) ==
  /\ Len(events) < MaxEvents
  /\ events' = Append(events, [kind |-> kind, of |-> of])

\* Refused too while a response is active.
ServiceTakes ==
  /\ link = "live" /\ sent # None
  /\ \/ Accepts(sent) /\ Take(sent) /\ Tell("ack", sent)
     \/ Tell("refused", sent) /\ UNCHANGED serviceVars
  /\ sent' = None
  /\ UNCHANGED <<made, pluginVars>>

\* The transcript of a turn, left out of the conversation when the next turn
\* has begun; or a reply, which a pending call keeps away.
ServiceAdds ==
  /\ link = "live" /\ Len(made) < MaxItems
  /\ \/ made' = Made("said", None) /\ history' \in {history, Appended(Newest)}
     \/ pendingCall = None /\ made' = Made("message", None) /\ history' = Appended(Newest)
  /\ Tell("item", Newest)
  /\ UNCHANGED <<pluginVars, sent, pendingCall>>

\* The end of a response.speak, which is no part of an exchange.
ServiceFills ==
  /\ link = "live" /\ Len(made) < MaxItems
  /\ made' = Made("message", None)
  /\ history' = IF pendingCall = None THEN Appended(Newest) ELSE history
  /\ Tell("filler", Newest)
  /\ UNCHANGED <<pluginVars, sent, pendingCall>>

\* _emit_tool_call: no reply is generated while a call is pending.
ServiceCalls ==
  /\ link = "live" /\ Len(made) < MaxItems /\ pendingCall = None
  /\ waiter # "acked" /\ \A n \in DOMAIN events : events[n].kind # "ack"
  /\ made' = Made("call", None) /\ pendingCall' = Newest
  /\ Tell("call", Newest)
  /\ UNCHANGED <<pluginVars, sent, history>>

\* Mutant: the service still waits for the output.
CallKept == pendingCall

CallDropped == None

\* A turn that the client commits does not drop the call.
SpeechStarts ==
  /\ link = "live"
  /\ pendingCall' = IF ManualTurns THEN pendingCall ELSE CallDropped
  /\ Tell("speech", None)
  /\ UNCHANGED <<made, pluginVars, sent, history>>

-----------------------------------------------------------------------------
(* What the plugin hears.                                                  *)

Hears(kind) ==
  /\ link = "live" /\ events # <<>> /\ Head(events).kind = kind
  /\ events' = Tail(events)
  /\ UNCHANGED <<made, link, conns, replay, todo, outbound, sent, serviceVars>>

HearsAnswer(kind, outcome) ==
  /\ Hears(kind)
  /\ waiter' = IF waiter = "waiting" /\ Head(todo) = Head(events).of THEN outcome ELSE waiter
  /\ UNCHANGED <<ctx, invalid, unplayed>>

HearsItem ==
  /\ Hears("item") \/ Hears("call")
  /\ ctx' = Append(ctx, Head(events).of)
  /\ UNCHANGED <<invalid, unplayed, waiter>>

HearsFiller ==
  /\ Hears("filler")
  /\ ctx' = Append(ctx, Head(events).of)
  /\ unplayed' = IF Dangling = {} THEN unplayed ELSE unplayed \cup {Head(events).of}
  /\ UNCHANGED <<invalid, waiter>>

\* _invalidate_dangling_calls.
HearsSpeech ==
  /\ Hears("speech")
  /\ invalid' = invalid \cup Dangling
  /\ UNCHANGED <<ctx, unplayed, waiter>>

-----------------------------------------------------------------------------
Plugin ==
  \/ Update \/ Resume \/ AckTimeout \/ Send
  \/ BootBegins \/ ReplayItem \/ BootEnds \/ Lose

Receives ==
  \/ HearsAnswer("ack", "acked") \/ HearsAnswer("refused", "failed")
  \/ HearsItem \/ HearsFiller \/ HearsSpeech

Service == ServiceTakes \/ ServiceAdds \/ ServiceFills \/ ServiceCalls \/ SpeechStarts

Next == Plugin \/ Receives \/ Service

Spec == Init /\ [][Next]_vars

-----------------------------------------------------------------------------
(* The two contexts.                                                       *)

\* A replay the service refuses fails the connection, and every later one.
\* No interleaving of calls, speech, updates and losses leaves the plugin with
\* a context that is refused (_skip_invalidated_replay, _create_conversation_item).
ReplayAccepted ==
  link = "boot" /\ replay # <<>> => Skipped(Head(replay)) \/ Accepts(Head(replay))

ContextInv == TypeOK /\ ReplayAccepted

\* Connected, and nothing on its way.
Quiet == link = "live" /\ todo = <<>> /\ events = <<>>

Missing == {i \in Replayed : made[i].kind \in {"message", "output"}} \ ToSet(history)

\* Whatever the plugin has confirmed or replayed, the service answers from:
\* none of it is missing there unless the conversation was full (update_chat_ctx,
\* Conversation._trim). Transcripts of turns that were overtaken are not counted.
\* It holds of an agent that sends no update before the connection is there (~BootUpdates).
ContextAgrees == Quiet /\ Missing # {} => Size(history) >= MaxMessages - 1

\* The other way round: what the service answers from would be replayed. README
\* of the plugin, lines 44-45: it "replays only confirmed append-only text
\* context"; two confirmed things are left out (_finish_response,
\* _invalidate_dangling_calls).
ConfirmedIsReplayed == Quiet => ToSet(history) \subseteq Replayed

\* The plugin and the service agree on the call whose output is to come, with
\* batches, refusals, speech and reconnects between them; a call pending at the
\* service alone keeps every reply away for good (docs/tool-calling.md:7-9: "The
\* plugin appends its `FunctionCallOutput`, waits for `conversation.item.created`,
\* and only then permits the final spoken response").
\* It holds of an agent that sends no update before the connection is there and does
\* not commit turns by hand (~BootUpdates, ~ManualTurns).
PendingAgrees ==
  Quiet => Dangling \ invalid = IF pendingCall = None THEN {} ELSE {pendingCall}
=============================================================================
