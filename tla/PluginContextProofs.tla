------------------------ MODULE PluginContextProofs ------------------------
(***************************************************************************)
(* What TLAPS proves about PluginContext, for any number of items and      *)
(* connections, and any bound of the conversation.                         *)
(***************************************************************************)
EXTENDS PluginContext, Integers, SequenceTheorems, FiniteSetTheorems,
        WellFoundedInduction, TLAPS

-----------------------------------------------------------------------------
(* Numbers and sequences.                                                   *)

\* Among numbers there is a least one.
LEMMA Least ==
  ASSUME NEW T, T \subseteq Nat, T # {}
  PROVE  \E x \in T : \A y \in T : x <= y
<1>1. IsWellFoundedOn(OpToRel(<, Nat), Nat)
  BY NatLessThanWellFounded
<1>2. PICK x \in T : \A y \in T : ~ (<<y, x>> \in OpToRel(<, Nat))
  BY <1>1, WFMin
<1>3. \A y \in T : ~ (y < x)
  BY <1>2 DEF OpToRel
<1> QED BY <1>3

\* An element is appended.
LEMMA Longer ==
  ASSUME NEW S, NEW s \in Seq(S), NEW x \in S
  PROVE  /\ Append(s, x) \in Seq(S) /\ Len(Append(s, x)) = Len(s) + 1
         /\ DOMAIN Append(s, x) = 1..(Len(s) + 1) /\ DOMAIN s = 1..Len(s) /\ Len(s) \in Nat
         /\ \A n \in 1..Len(s) : Append(s, x)[n] = s[n]
         /\ Append(s, x)[Len(s) + 1] = x
         /\ ToSet(Append(s, x)) = ToSet(s) \cup {x}
<1>1. /\ Append(s, x) \in Seq(S) /\ Len(Append(s, x)) = Len(s) + 1
      /\ \A n \in 1..Len(s) : Append(s, x)[n] = s[n]
      /\ Append(s, x)[Len(s) + 1] = x
  BY AppendProperties
<1>2. DOMAIN Append(s, x) = 1..(Len(s) + 1) /\ DOMAIN s = 1..Len(s) /\ Len(s) \in Nat
  BY <1>1, LenProperties
<1> DEFINE t == Append(s, x)
<1> HIDE DEF t
<1>3. ToSet(t) = ToSet(s) \cup {x}
  <2>1. /\ DOMAIN t = 1..(Len(s) + 1) /\ DOMAIN s = 1..Len(s) /\ Len(s) \in Nat
        /\ \A n \in 1..Len(s) : t[n] = s[n]
        /\ t[Len(s) + 1] = x
    BY <1>1, <1>2 DEF t
  <2>2. ASSUME NEW y PROVE y \in ToSet(t) <=> y \in ToSet(s) \cup {x}
    <3>1. y \in ToSet(t) <=> \E n \in 1..(Len(s) + 1) : t[n] = y
      BY <2>1 DEF ToSet
    <3>2. y \in ToSet(s) <=> \E n \in 1..Len(s) : s[n] = y
      BY <2>1 DEF ToSet
    <3>3. \A n \in 1..(Len(s) + 1) : n \in 1..Len(s) \/ n = Len(s) + 1
      BY <2>1
    <3>4. \A n \in 1..Len(s) : n \in 1..(Len(s) + 1)
      BY <2>1
    <3>5. Len(s) + 1 \in 1..(Len(s) + 1)
      BY <2>1
    <3> QED BY <2>1, <3>1, <3>2, <3>3, <3>4, <3>5, Zenon
  <2> QED BY <2>2
<1> QED BY <1>1, <1>2, <1>3 DEF t

\* The head is taken off.
LEMMA Shorter ==
  ASSUME NEW S, NEW s \in Seq(S), s # <<>>
  PROVE  /\ Tail(s) \in Seq(S) /\ Len(Tail(s)) = Len(s) - 1
         /\ DOMAIN Tail(s) = 1..(Len(s) - 1) /\ DOMAIN s = 1..Len(s)
         /\ Len(s) \in Nat /\ 1 <= Len(s)
         /\ \A n \in 1..(Len(s) - 1) : Tail(s)[n] = s[n + 1]
         /\ Head(s) = s[1] /\ Head(s) \in S
         /\ ToSet(s) = {s[1]} \cup ToSet(Tail(s))
<1>1. /\ Tail(s) \in Seq(S) /\ Len(Tail(s)) = Len(s) - 1 /\ Head(s) \in S /\ Head(s) = s[1]
      /\ \A n \in 1..Len(Tail(s)) : Tail(s)[n] = s[n + 1]
  BY HeadTailProperties
<1>2. DOMAIN Tail(s) = 1..(Len(s) - 1) /\ DOMAIN s = 1..Len(s) /\ Len(s) \in Nat /\ 1 <= Len(s)
  BY <1>1, LenProperties, EmptySeq
<1> DEFINE t == Tail(s)
<1> HIDE DEF t
<1>3. ToSet(s) = {s[1]} \cup ToSet(t)
  <2>1. /\ DOMAIN t = 1..(Len(s) - 1) /\ DOMAIN s = 1..Len(s) /\ Len(s) \in Nat /\ 1 <= Len(s)
        /\ \A n \in 1..(Len(s) - 1) : t[n] = s[n + 1]
    BY <1>1, <1>2 DEF t
  <2>2. ASSUME NEW y PROVE y \in ToSet(s) <=> y \in {s[1]} \cup ToSet(t)
    <3>1. y \in ToSet(t) <=> \E n \in 1..(Len(s) - 1) : s[n + 1] = y
      BY <2>1 DEF ToSet
    <3>2. y \in ToSet(s) <=> \E n \in 1..Len(s) : s[n] = y
      BY <2>1 DEF ToSet
    <3>3. \A n \in 1..Len(s) : n = 1 \/ (n - 1 \in 1..(Len(s) - 1) /\ (n - 1) + 1 = n)
      BY <2>1
    <3>4. \A n \in 1..(Len(s) - 1) : n + 1 \in 1..Len(s)
      BY <2>1
    <3>5. 1 \in 1..Len(s)
      BY <2>1
    <3> QED BY <3>1, <3>2, <3>3, <3>4, <3>5
  <2> QED BY <2>2
<1> QED BY <1>1, <1>2, <1>3 DEF t
-----------------------------------------------------------------------------
(* The inductive invariant.                                                 *)

OutputOf(i, c) == Has("output", i) /\ made[i].of = c
Speech(n) == events[n].kind = "speech"
Answers == {n \in DOMAIN events : events[n].kind \in {"ack", "refused"}}
Adds == {n \in DOMAIN events : events[n].kind \in {"item", "filler", "call"}}
Calls == {n \in DOMAIN events : events[n].kind = "call"}

\* What the plugin has marked is in its context, and an output has its call.
Marks ==
  /\ \A i \in Known : Has("output", i) => made[i].of \in Known /\ Has("call", made[i].of)
  /\ \A i \in Known : ~Has("output", i) => made[i].of = None
  /\ \A c \in invalid : c \in ToSet(ctx) /\ Has("call", c)
  /\ \A i \in unplayed : i \in ToSet(ctx) /\ Has("message", i)

\* Nothing comes to the context that is there already.
Fresh ==
  /\ \A n \in DOMAIN todo : todo[n] \notin ToSet(ctx)
  /\ \A m, n \in DOMAIN todo : todo[m] = todo[n] => m = n
  /\ \A n \in Adds : /\ events[n].of \in Known
                     /\ events[n].of \notin ToSet(ctx)
                     /\ events[n].of \notin ToSet(todo)
  /\ \A m, n \in Adds : events[m].of = events[n].of => m = n
  /\ \A n \in Adds : IF events[n].kind = "call" THEN Has("call", events[n].of)
                     ELSE ~Has("call", events[n].of) /\ ~Has("output", events[n].of)
  /\ \A n \in Adds : events[n].kind = "filler" => Has("message", events[n].of)

\* The first addition of an update is in one place at a time, and only it may be
\* an output.
Underway ==
  /\ todo = <<>> <=> waiter = "none"
  /\ \A n \in DOMAIN todo : \/ Has("message", todo[n])
                            \/ n = 1 /\ Has("output", todo[n]) /\ made[todo[n]].of \in Dangling
  /\ outbound # None =>
       waiter = "waiting" /\ outbound = todo[1] /\ sent = None /\ Answers = {}
  /\ sent # None =>
       link = "live" /\ waiter = "waiting" /\ sent = todo[1] /\ Answers = {}
  /\ \A n \in Answers : waiter = "waiting" /\ events[n].of = todo[1]
  /\ \A m, n \in Answers : m = n
  /\ events # <<>> => link = "live"

\* A call that is not skipped is answered before the next, its output follows it,
\* and there is only one.
Exchanged ==
  /\ \A m, n \in DOMAIN ctx : m < n /\ Has("call", ctx[m]) /\ Has("call", ctx[n])
       => \/ ctx[m] \in invalid \/ ctx[n] \in invalid
          \/ \E k \in DOMAIN ctx : m < k /\ k < n /\ OutputOf(ctx[k], ctx[m])
  /\ \A k \in DOMAIN ctx : Has("output", ctx[k]) =>
       \E m \in DOMAIN ctx : m < k /\ ctx[m] = made[ctx[k]].of
  /\ \A m, n \in DOMAIN ctx :
       /\ Has("output", ctx[m]) /\ Has("output", ctx[n]) /\ made[ctx[m]].of = made[ctx[n]].of
       => m = n

\* The output is confirmed, and the coroutine has not run yet.
Acked(c) ==
  /\ todo # <<>> /\ OutputOf(todo[1], c)
  /\ waiter = "acked" \/ \E n \in DOMAIN events : events[n].kind = "ack"

\* Connected: of a call that is open for the plugin only, it is about to hear the
\* output's acknowledgement or speech, and speech separates it from the next call.
Interrupted ==
  /\ \A c \in Dangling \ invalid :
       c = pendingCall \/ Acked(c) \/ \E n \in DOMAIN events : Speech(n)
  /\ \A n \in Calls : Dangling \subseteq invalid \/ \E m \in DOMAIN events : m < n /\ Speech(m)
  /\ \A n \in Calls : events[n].of = pendingCall \/ \E m \in DOMAIN events : n < m /\ Speech(m)
  /\ \A m, n \in Calls : m < n => \E k \in DOMAIN events : m < k /\ k < n /\ Speech(k)

\* During the bootstrap: what is still to be sent continues what has been.
Continued ==
  /\ ToSet(replay) \subseteq ToSet(ctx) /\ waiter # "acked"
  /\ pendingCall # None => Has("call", pendingCall) /\ pendingCall \notin invalid
  /\ \A m, n \in DOMAIN replay : m < n /\ Has("call", replay[m]) /\ Has("call", replay[n])
       => \/ replay[m] \in invalid \/ replay[n] \in invalid
          \/ \E k \in DOMAIN replay : m < k /\ k < n /\ OutputOf(replay[k], replay[m])
  /\ pendingCall # None => \A n \in DOMAIN replay : Has("call", replay[n]) =>
       \/ replay[n] \in invalid
       \/ \E k \in DOMAIN replay : k < n /\ OutputOf(replay[k], pendingCall)
  /\ \A k \in DOMAIN replay : Has("output", replay[k]) =>
       \/ made[replay[k]].of \in invalid \cup {pendingCall}
       \/ \E m \in DOMAIN replay : m < k /\ replay[m] = made[replay[k]].of
  /\ \A m, n \in DOMAIN replay :
       /\ Has("output", replay[m]) /\ Has("output", replay[n])
       /\ made[replay[m]].of = made[replay[n]].of
       => m = n
  /\ \A c \in Dangling \ invalid : c = pendingCall \/ c \in ToSet(replay)

LiveInv == link = "live" => Interrupted
BootInv == link = "boot" => Continued

IInv == TypeOK /\ Marks /\ Fresh /\ Underway /\ Exchanged /\ LiveInv /\ BootInv
-----------------------------------------------------------------------------
(* The conversation is trimmed to a suffix, and no more than needed.        *)

\* The size of a conversation is a number, no less than its groups.
LEMMA SizeBounds ==
  ASSUME NEW S, NEW g \in Seq(S)
  PROVE  /\ IsFiniteSet(Exchanges(g)) /\ Cardinality(Exchanges(g)) \in Nat
         /\ Size(g) \in Nat /\ Len(g) <= Size(g) /\ Size(g) <= 2 * Len(g)
<1>1. DOMAIN g = 1..Len(g) /\ Len(g) \in Nat
  BY LenProperties
<1>2. IsFiniteSet(1..Len(g)) /\ Cardinality(1..Len(g)) = Len(g)
  <2>1. /\ IsFiniteSet(1..Len(g))
        /\ Cardinality(1..Len(g)) = IF 1 > Len(g) THEN 0 ELSE Len(g) - 1 + 1
    BY <1>1, FS_Interval
  <2> QED BY <2>1, <1>1
<1>3. Exchanges(g) \subseteq 1..Len(g)
  BY <1>1 DEF Exchanges
<1>4. /\ IsFiniteSet(Exchanges(g)) /\ Cardinality(Exchanges(g)) \in Nat
      /\ Cardinality(Exchanges(g)) <= Len(g)
  BY <1>2, <1>3, FS_Subset, FS_CardinalityType
<1> QED BY <1>1, <1>4 DEF Size

\* The suffix that is kept is the longest that fits.
LEMMA TrimmedIs ==
  ASSUME NEW S, NEW g \in Seq(S), g # <<>>
  PROVE  \E k \in 1..Len(g) :
           /\ Trimmed(g) = SubSeq(g, k, Len(g))
           /\ Size(SubSeq(g, k, Len(g))) <= MaxMessages
           /\ \A j \in 1..Len(g) : Size(SubSeq(g, j, Len(g))) <= MaxMessages => k <= j
<1> DEFINE Rest(k) == SubSeq(g, k, Len(g))
           fit == {k \in 1..Len(g) : Size(Rest(k)) <= MaxMessages}
<1>1. Len(g) \in Nat /\ Len(g) >= 1 /\ \A n \in 1..Len(g) : g[n] \in S
  BY LenProperties, EmptySeq, ElementOfSeq
<1>2. Trimmed(g) = Rest(CHOOSE k \in fit : \A j \in fit : k <= j)
  BY DEF Trimmed
<1>3. Len(g) \in fit
  <2>1. Rest(Len(g)) \in Seq(S) /\ Len(Rest(Len(g))) = 1
    <3>1. \A n \in Len(g)..Len(g) : g[n] \in S
      BY <1>1
    <3>2. /\ SubSeq(g, Len(g), Len(g)) \in Seq(S)
          /\ Len(SubSeq(g, Len(g), Len(g))) = IF Len(g) <= Len(g) THEN Len(g) - Len(g) + 1 ELSE 0
      BY <1>1, <3>1, SubSeqProperties
    <3> QED BY <1>1, <3>2
  <2> DEFINE last == Rest(Len(g))
  <2>2. last \in Seq(S) /\ Len(last) = 1
    BY <2>1
  <2> HIDE DEF last
  <2>3. Size(last) \in Nat /\ Size(last) <= 2 * Len(last)
    BY <2>2, SizeBounds
  <2>4. Size(Rest(Len(g))) <= MaxMessages
    <3>1. Size(last) <= MaxMessages
      BY <2>2, <2>3, ContextAssumption DEF ContextAssumption
    <3> QED BY <3>1 DEF last
  <2> QED BY <2>4, <1>1
<1> HIDE DEF Rest
<1>4. \E k \in fit : \A j \in fit : k <= j
  <2>1. fit \subseteq Nat /\ fit # {}
    BY <1>1, <1>3
  <2> HIDE DEF fit
  <2> QED BY <2>1, Least
<1> DEFINE k == CHOOSE k \in fit : \A j \in fit : k <= j
<1>5. k \in fit /\ \A j \in fit : k <= j
  <2> HIDE DEF fit
  <2> QED BY <1>4
<1>6. Trimmed(g) = Rest(k)
  BY <1>2
<1> HIDE DEF k
<1>7. /\ k \in 1..Len(g)
      /\ Size(Rest(k)) <= MaxMessages
      /\ \A j \in 1..Len(g) : Size(Rest(j)) <= MaxMessages => k <= j
  BY <1>5
<1> QED BY <1>6, <1>7 DEF Rest

\* What is left is a part of what there was.
LEMMA TrimmedType ==
  ASSUME NEW S, NEW g \in Seq(S), g # <<>>
  PROVE  Trimmed(g) \in Seq(S)
<1>1. PICK k \in 1..Len(g) : Trimmed(g) = SubSeq(g, k, Len(g))
  BY TrimmedIs
<1>2. Len(g) \in Nat /\ \A n \in 1..Len(g) : g[n] \in S
  BY LenProperties, ElementOfSeq
<1>3. \A n \in k..Len(g) : g[n] \in S
  BY <1>2
<1>4. SubSeq(g, k, Len(g)) \in Seq(S)
  BY <1>2, <1>3, SubSeqProperties
<1> QED BY <1>1, <1>4
-----------------------------------------------------------------------------
(* What does not change.                                                    *)

\* No item goes, and none becomes another.
Lasting == \A i \in Known : i \in Known' /\ made'[i] = made[i]

\* The sequences and their elements, for the steps that need no more.
LEMMA Shapes ==
  ASSUME TypeOK
  PROVE  /\ DOMAIN ctx = 1..Len(ctx) /\ Len(ctx) \in Nat /\ \A n \in DOMAIN ctx : ctx[n] \in Known
         /\ DOMAIN todo = 1..Len(todo) /\ Len(todo) \in Nat /\ \A n \in DOMAIN todo : todo[n] \in Known
         /\ DOMAIN replay = 1..Len(replay) /\ Len(replay) \in Nat
         /\ \A n \in DOMAIN replay : replay[n] \in Known
         /\ DOMAIN events = 1..Len(events) /\ Len(events) \in Nat
         /\ \A n \in DOMAIN events : events[n] \in Events
         /\ DOMAIN made = 1..Len(made) /\ Len(made) \in Nat /\ Known \subseteq Nat \ {0}
         /\ \A i \in Known : made[i] \in [kind : Kinds, of : 0..MaxItems]
         /\ ToSet(ctx) \subseteq Known /\ ToSet(todo) \subseteq Known /\ ToSet(replay) \subseteq Known
<1>1. /\ DOMAIN made = 1..Len(made) /\ Len(made) \in Nat
      /\ \A i \in Known : made[i] \in [kind : Kinds, of : 0..MaxItems]
  BY LenProperties, ElementOfSeq DEF TypeOK, Known
<1>2. /\ DOMAIN ctx = 1..Len(ctx) /\ Len(ctx) \in Nat /\ \A n \in DOMAIN ctx : ctx[n] \in Known
  BY LenProperties, ElementOfSeq DEF TypeOK
<1>3. DOMAIN todo = 1..Len(todo) /\ Len(todo) \in Nat /\ \A n \in DOMAIN todo : todo[n] \in Known
  BY LenProperties, ElementOfSeq DEF TypeOK
<1>4. /\ DOMAIN replay = 1..Len(replay) /\ Len(replay) \in Nat
      /\ \A n \in DOMAIN replay : replay[n] \in Known
  BY LenProperties, ElementOfSeq DEF TypeOK
<1>5. /\ DOMAIN events = 1..Len(events) /\ Len(events) \in Nat
      /\ \A n \in DOMAIN events : events[n] \in Events
  <2>1. events \in Seq(Events)
    BY DEF TypeOK
  <2> HIDE DEF Events
  <2> QED BY <2>1, LenProperties, ElementOfSeq
<1>6. ToSet(ctx) \subseteq Known /\ ToSet(todo) \subseteq Known /\ ToSet(replay) \subseteq Known
  BY <1>2, <1>3, <1>4 DEF ToSet
<1>7. Known \subseteq Nat \ {0}
  BY <1>1 DEF Known
<1> QED BY <1>1, <1>2, <1>3, <1>4, <1>5, <1>6, <1>7

\* A step that makes no item.
LEMMA NothingMade ==
  ASSUME UNCHANGED made
  PROVE  Lasting /\ Known' = Known
BY DEF Lasting, Known

\* A step that makes one.
LEMMA OneMade ==
  ASSUME TypeOK, NEW k \in Kinds, Len(made) < MaxItems, made' = Made(k, None)
  PROVE  /\ Lasting /\ Known' = Known \cup {Newest} /\ Newest \notin Known
         /\ Newest \in Nat \ {0} /\ Newest <= MaxItems
         /\ made'[Newest].kind = k /\ made'[Newest].of = None
         /\ made' \in Seq([kind : Kinds, of : 0..MaxItems]) /\ Len(made') <= MaxItems
<1> DEFINE T == [kind : Kinds, of : 0..MaxItems]
           r == [kind |-> k, of |-> None]
<1>1. r \in T /\ r.kind = k /\ r.of = None
  BY ContextAssumption DEF ContextAssumption, None
<1>2. made \in Seq(T) /\ Len(made) \in Nat
  BY LenProperties DEF TypeOK
<1>3. made' = Append(made, r)
  BY DEF Made
<1> HIDE DEF T, r
<1>4. /\ made' \in Seq(T) /\ Len(made') = Len(made) + 1
      /\ \A n \in 1..Len(made) : made'[n] = made[n]
      /\ made'[Len(made) + 1] = r
  BY <1>1, <1>2, <1>3, AppendProperties
<1>5. Known' = Known \cup {Newest} /\ Newest \notin Known /\ Newest \in Nat \ {0} /\ Newest <= MaxItems
  BY <1>2, <1>4, ContextAssumption DEF Known, Newest, ContextAssumption
<1>6. Lasting
  BY <1>4, <1>5 DEF Lasting, Known
<1>7. made'[Newest].kind = k /\ made'[Newest].of = None
  BY <1>1, <1>4 DEF Newest
<1>8. Len(made') <= MaxItems
  BY <1>2, <1>4, ContextAssumption DEF ContextAssumption
<1> QED BY <1>4, <1>5, <1>6, <1>7, <1>8 DEF T

\* The open calls depend on the context and its items alone.
LEMMA DanglingStays ==
  ASSUME TypeOK, Lasting, UNCHANGED ctx
  PROVE  Dangling' = Dangling
<1>1. \A i \in ToSet(ctx) : i \in Known /\ made'[i] = made[i]
  BY Shapes DEF Lasting
<1> QED BY <1>1 DEF Dangling, Answered, Has

\* So does the order of calls and outputs.
LEMMA ExchangedStays ==
  ASSUME TypeOK, Lasting, UNCHANGED ctx, Exchanged, invalid \subseteq invalid'
  PROVE  Exchanged'
<1>1. \A n \in DOMAIN ctx : ctx[n] \in Known /\ made'[ctx[n]] = made[ctx[n]]
  BY Shapes DEF Lasting
<1> QED BY <1>1 DEF Exchanged, Has, OutputOf

\* The marks stay, and new items that are no outputs need none.
LEMMA MarksStay ==
  ASSUME TypeOK, Lasting, Marks, UNCHANGED <<ctx, invalid, unplayed>>,
         \A i \in Known' \ Known : made'[i].kind # "output" /\ made'[i].of = None
  PROVE  Marks'
<1>1. \A i \in Known : i \in Known' /\ made'[i] = made[i]
  BY DEF Lasting
<1>2. invalid \subseteq Known /\ unplayed \subseteq Known
  BY DEF TypeOK
<1> QED BY <1>1, <1>2 DEF Marks, Has
-----------------------------------------------------------------------------
(* An event is sent, and an event is heard.                                 *)

EventKinds == {"ack", "refused", "item", "filler", "call", "speech"}

\* The service tells the plugin something.
LEMMA Told ==
  ASSUME TypeOK, NEW k \in EventKinds, NEW o \in 0..MaxItems, Tell(k, o)
  PROVE  /\ events' \in Seq(Events) /\ Len(events') <= MaxEvents /\ events' # <<>>
         /\ DOMAIN events = 1..Len(events) /\ DOMAIN events' = 1..(Len(events) + 1)
         /\ Len(events) \in Nat
         /\ \A n \in DOMAIN events : events'[n] = events[n]
         /\ events'[Len(events) + 1].kind = k /\ events'[Len(events) + 1].of = o
<1> DEFINE e == [kind |-> k, of |-> o]
           T == Events
<1>1. e \in T /\ e.kind = k /\ e.of = o
  BY DEF EventKinds, Events
<1>2. events \in Seq(T) /\ Len(events) \in Nat
  BY LenProperties DEF TypeOK
<1>3. events' = Append(events, e) /\ Len(events) < MaxEvents
  BY DEF Tell
<1> HIDE DEF e, T
<1>4. /\ events' \in Seq(T) /\ Len(events') = Len(events) + 1
      /\ DOMAIN events' = 1..(Len(events) + 1) /\ DOMAIN events = 1..Len(events)
      /\ \A n \in 1..Len(events) : events'[n] = events[n]
      /\ events'[Len(events) + 1] = e
  BY <1>1, <1>2, <1>3, Longer
<1>5. Len(events') <= MaxEvents /\ events' # <<>>
  BY <1>2, <1>3, <1>4, EmptySeq, ContextAssumption DEF ContextAssumption
<1> QED BY <1>1, <1>2, <1>4, <1>5 DEF T

\* The plugin hears the first event.
LEMMA Heard ==
  ASSUME TypeOK, NEW k, Hears(k)
  PROVE  /\ events' \in Seq(Events) /\ Len(events') <= MaxEvents /\ link = "live"
         /\ DOMAIN events = 1..Len(events) /\ DOMAIN events' = 1..(Len(events) - 1)
         /\ Len(events) \in Nat /\ 1 <= Len(events)
         /\ \A n \in DOMAIN events' : n + 1 \in DOMAIN events /\ events'[n] = events[n + 1]
         /\ Head(events) = events[1] /\ events[1].kind = k /\ events[1] \in Events
<1> DEFINE T == Events
<1>1. /\ events \in Seq(T) /\ events # <<>> /\ events' = Tail(events) /\ link = "live"
      /\ Head(events).kind = k /\ Len(events) <= MaxEvents
  BY DEF TypeOK, Hears
<1> HIDE DEF T
<1>2. /\ Tail(events) \in Seq(T) /\ Len(Tail(events)) = Len(events) - 1
      /\ DOMAIN Tail(events) = 1..(Len(events) - 1) /\ DOMAIN events = 1..Len(events)
      /\ Len(events) \in Nat /\ 1 <= Len(events)
      /\ \A n \in 1..(Len(events) - 1) : Tail(events)[n] = events[n + 1]
      /\ Head(events) = events[1] /\ Head(events) \in T
  BY <1>1, Shorter
<1>3. \A n \in 1..(Len(events) - 1) : n + 1 \in 1..Len(events)
  BY <1>2
<1>4. Len(events) - 1 <= MaxEvents
  BY <1>1, <1>2, ContextAssumption DEF ContextAssumption
<1> QED BY <1>1, <1>2, <1>3, <1>4 DEF T

\* What the service adds is new, the rest is told of what there is.
LEMMA FreshTold ==
  ASSUME TypeOK, Fresh, Lasting, UNCHANGED <<ctx, todo>>,
         NEW k \in EventKinds, NEW o \in 0..MaxItems, Tell(k, o),
         k \in {"item", "filler", "call"} =>
           /\ o \in Known' /\ o \notin Known
           /\ (k = "call") <=> Has("call", o)'
           /\ ~Has("output", o)'
           /\ k = "filler" => Has("message", o)'
  PROVE  Fresh'
<1> DEFINE last == Len(events) + 1
<1>1. /\ DOMAIN events = 1..Len(events) /\ DOMAIN events' = 1..last
      /\ Len(events) \in Nat
      /\ \A n \in DOMAIN events : events'[n] = events[n]
      /\ events'[last].kind = k /\ events'[last].of = o
  BY Told
<1>2. /\ ToSet(ctx) \subseteq Known /\ ToSet(todo) \subseteq Known
  BY Shapes
<1>3. Adds' = IF k \in {"item", "filler", "call"} THEN Adds \cup {last} ELSE Adds
  BY <1>1 DEF Adds
<1>4. \A n \in Adds : n \in DOMAIN events /\ n # last /\ events'[n] = events[n]
  BY <1>1 DEF Adds
<1>5. last \in DOMAIN events' /\ last \notin Adds
  BY <1>1 DEF Adds
<1> HIDE DEF last
<1>6. \A n \in Adds : events[n].of \in Known
  BY DEF Fresh
<1>7. \A n \in Adds : made'[events[n].of] = made[events[n].of]
  BY <1>6 DEF Lasting
<1>8. \A n \in Adds' : n \in Adds \/ (n = last /\ k \in {"item", "filler", "call"})
  BY <1>3
<1>9. \A n \in Adds' : /\ events'[n].of \in Known'
                       /\ events'[n].of \notin ToSet(ctx')
                       /\ events'[n].of \notin ToSet(todo')
  BY <1>1, <1>2, <1>4, <1>8 DEF Fresh, Lasting
<1>10. \A m, n \in Adds' : events'[m].of = events'[n].of => m = n
  BY <1>1, <1>4, <1>6, <1>8 DEF Fresh
<1>11. ASSUME NEW n \in Adds'
       PROVE  /\ IF events'[n].kind = "call" THEN made'[events'[n].of].kind = "call"
                 ELSE made'[events'[n].of].kind \notin {"call", "output"}
              /\ events'[n].kind = "filler" => made'[events'[n].of].kind = "message"
  <2>1. CASE n \in Adds
    BY <2>1, <1>4, <1>7 DEF Fresh, Has
  <2>2. CASE n = last /\ k \in {"item", "filler", "call"}
    BY <2>2, <1>1 DEF Has
  <2> QED BY <2>1, <2>2, <1>8
<1>12. /\ \A n \in DOMAIN todo' : todo'[n] \notin ToSet(ctx')
       /\ \A m, n \in DOMAIN todo' : todo'[m] = todo'[n] => m = n
  BY DEF Fresh
<1> QED BY <1>9, <1>10, <1>11, <1>12 DEF Fresh, Has

\* The only answer is the one to what has been sent.
LEMMA UnderwayTold ==
  ASSUME TypeOK, Underway, Lasting, UNCHANGED <<ctx, todo, waiter, outbound, link>>, link = "live",
         NEW k \in EventKinds, NEW o \in 0..MaxItems, Tell(k, o),
         \/ k \notin {"ack", "refused"} /\ UNCHANGED sent
         \/ sent # None /\ o = sent /\ sent' = None
  PROVE  Underway'
<1> DEFINE last == Len(events) + 1
<1>1. /\ DOMAIN events = 1..Len(events) /\ DOMAIN events' = 1..last
      /\ Len(events) \in Nat
      /\ \A n \in DOMAIN events : events'[n] = events[n]
      /\ events'[last].kind = k /\ events'[last].of = o
  BY Told
<1>2. \A n \in DOMAIN todo : todo[n] \in Known
  BY Shapes
<1>3. Answers' = IF k \in {"ack", "refused"} THEN Answers \cup {last} ELSE Answers
  BY <1>1 DEF Answers
<1>4. \A n \in Answers : n \in DOMAIN events /\ events'[n] = events[n]
  BY <1>1 DEF Answers
<1> HIDE DEF last
<1>5. Dangling' = Dangling
  BY DanglingStays
<1>6. \A n \in DOMAIN todo : \/ Has("message", todo[n])'
                             \/ n = 1 /\ Has("output", todo[n])' /\ made'[todo[n]].of \in Dangling'
  BY <1>2, <1>5 DEF Underway, Lasting, Has
<1>7. CASE k \notin {"ack", "refused"} /\ UNCHANGED sent
  <2>1. Answers' = Answers
    BY <1>3, <1>7
  <2> QED BY <1>4, <1>6, <1>7, <2>1 DEF Underway
<1>8. CASE sent # None /\ o = sent /\ sent' = None
  <2>1. Answers = {} /\ waiter = "waiting" /\ outbound = None /\ o = todo[1]
    BY <1>8 DEF Underway
  <2>2. Answers' \subseteq {last}
    BY <1>3, <2>1
  <2> QED BY <1>1, <1>6, <1>8, <2>1, <2>2 DEF Underway
<1> QED BY <1>7, <1>8

\* What is heard next is as fresh as before.
LEMMA FreshHeard ==
  ASSUME TypeOK, Fresh, NEW k, Hears(k),
         \/ UNCHANGED ctx
         \/ ctx' = Append(ctx, Head(events).of) /\ k \in {"item", "filler", "call"}
  PROVE  Fresh'
<1>1. /\ DOMAIN events = 1..Len(events) /\ DOMAIN events' = 1..(Len(events) - 1)
      /\ Len(events) \in Nat /\ 1 <= Len(events)
      /\ \A n \in DOMAIN events' : n + 1 \in DOMAIN events /\ events'[n] = events[n + 1]
      /\ Head(events) = events[1] /\ events[1].kind = k
  BY Heard
<1>2. UNCHANGED <<made, todo>>
  BY DEF Hears
<1>3. \A n \in Adds' : n + 1 \in Adds /\ events'[n] = events[n + 1] /\ n \in Nat /\ n + 1 # 1
  BY <1>1 DEF Adds
<1>4. Known' = Known
  BY <1>2 DEF Known
<1>5. /\ \A n \in DOMAIN todo : todo[n] \in ToSet(todo)
  BY DEF ToSet
<1>6. /\ \A n \in Adds' : events'[n].of \notin ToSet(ctx')
      /\ \A n \in DOMAIN todo : todo[n] \notin ToSet(ctx')
  <2>1. CASE UNCHANGED ctx
    BY <2>1, <1>3 DEF Fresh
  <2>2. CASE ctx' = Append(ctx, Head(events).of) /\ k \in {"item", "filler", "call"}
    <3>1. 1 \in Adds /\ ctx' = Append(ctx, events[1].of)
      BY <1>1, <2>2 DEF Adds
    <3>2. events[1].of \in Known /\ ctx \in Seq(Known)
      BY <3>1 DEF Fresh, TypeOK
    <3>3. ToSet(ctx') = ToSet(ctx) \cup {events[1].of}
      BY <3>1, <3>2, Longer
    <3>4. \A n \in Adds' : events'[n].of # events[1].of /\ events'[n].of \notin ToSet(ctx)
      BY <1>3, <3>1 DEF Fresh
    <3>5. events[1].of \notin ToSet(todo)
      BY <3>1 DEF Fresh
    <3> QED BY <1>5, <3>3, <3>4, <3>5 DEF Fresh
  <2> QED BY <2>1, <2>2
<1>7. \A n \in Adds' : events'[n].of \in Known' /\ events'[n].of \notin ToSet(todo')
  BY <1>2, <1>3, <1>4 DEF Fresh
<1>8. \A m, n \in Adds' : events'[m].of = events'[n].of => m = n
  BY <1>3 DEF Fresh
<1>9. \A n \in Adds' :
        /\ IF events'[n].kind = "call" THEN made'[events'[n].of].kind = "call"
           ELSE made'[events'[n].of].kind \notin {"call", "output"}
        /\ events'[n].kind = "filler" => made'[events'[n].of].kind = "message"
  BY <1>2, <1>3 DEF Fresh, Has
<1>10. /\ \A n \in DOMAIN todo' : todo'[n] \notin ToSet(ctx')
       /\ \A m, n \in DOMAIN todo' : todo'[m] = todo'[n] => m = n
  BY <1>2, <1>6 DEF Fresh
<1> QED BY <1>6, <1>7, <1>8, <1>9, <1>10 DEF Fresh, Has

\* An item that is no output comes to the context.
LEMMA DanglingAppended ==
  ASSUME TypeOK, UNCHANGED made, NEW i \in Known, ctx' = Append(ctx, i), ~Has("output", i)
  PROVE  /\ Dangling \subseteq Dangling'
         /\ \A c \in Dangling' : c \in Dangling \/ (Has("call", i) /\ c = i)
<1>1. ToSet(ctx') = ToSet(ctx) \cup {i}
  BY Longer DEF TypeOK
<1>2. \A c : Answered(c)' <=> Answered(c)
  BY <1>1 DEF Answered, Has
<1> QED BY <1>1, <1>2 DEF Dangling, Has

\* An output comes to the context, and its call is dangling no more.
LEMMA DanglingOutput ==
  ASSUME TypeOK, UNCHANGED made, NEW i \in Known, ctx' = Append(ctx, i), Has("output", i)
  PROVE  Dangling' = Dangling \ {made[i].of}
<1>1. ToSet(ctx') = ToSet(ctx) \cup {i}
  BY Longer DEF TypeOK
<1>2. \A c : Answered(c)' <=> Answered(c) \/ c = made[i].of
  BY <1>1 DEF Answered, Has
<1> QED BY <1>1, <1>2 DEF Dangling, Has

\* What is on its way stays in one place when another event is heard.
LEMMA UnderwayHeard ==
  ASSUME TypeOK, Underway, NEW k, Hears(k), k \notin {"ack", "refused"},
         UNCHANGED waiter, Dangling \subseteq Dangling'
  PROVE  Underway'
<1>1. /\ DOMAIN events = 1..Len(events) /\ DOMAIN events' = 1..(Len(events) - 1)
      /\ Len(events) \in Nat /\ 1 <= Len(events) /\ link = "live"
      /\ \A n \in DOMAIN events' : n + 1 \in DOMAIN events /\ events'[n] = events[n + 1]
      /\ Head(events) = events[1] /\ events[1].kind = k
  BY Heard
<1>2. UNCHANGED <<made, link, todo, outbound, sent>>
  BY DEF Hears
<1>3. \A n \in Answers' : n + 1 \in Answers /\ events'[n] = events[n + 1] /\ n \in Nat
  BY <1>1 DEF Answers
<1>4. Answers = {} => Answers' = {}
  BY <1>3
<1>5. \A n \in DOMAIN todo : \/ Has("message", todo[n])'
                             \/ n = 1 /\ Has("output", todo[n])' /\ made'[todo[n]].of \in Dangling'
  BY <1>2 DEF Underway, Has
<1>6. /\ \A n \in Answers' : waiter = "waiting" /\ events'[n].of = todo[1]
      /\ \A m, n \in Answers' : m = n
  BY <1>3 DEF Underway
<1> QED BY <1>1, <1>2, <1>4, <1>5, <1>6 DEF Underway

\* What is heard, the speech excepted, leaves the rest in order.
LEMMA InterruptedHeard ==
  ASSUME TypeOK, Interrupted, NEW k, Hears(k), k # "speech", UNCHANGED <<invalid, pendingCall>>,
         \A c \in Dangling' : c \in Dangling \/ (k = "call" /\ c = events[1].of),
         \A c \in Dangling : Acked(c) => Acked(c)'
  PROVE  Interrupted'
<1>1. /\ DOMAIN events = 1..Len(events) /\ DOMAIN events' = 1..(Len(events) - 1)
      /\ Len(events) \in Nat /\ 1 <= Len(events)
      /\ \A n \in DOMAIN events' : n + 1 \in DOMAIN events /\ events'[n] = events[n + 1]
      /\ events[1].kind = k
  BY Heard
<1>2. \A n \in Calls' : n + 1 \in Calls /\ events'[n] = events[n + 1] /\ n \in Nat /\ n >= 1
  BY <1>1 DEF Calls
<1>3. \A m \in DOMAIN events : Speech(m) => /\ m - 1 \in DOMAIN events' /\ Speech(m - 1)'
                                            /\ m \in Nat /\ m >= 2
  BY <1>1 DEF Speech
<1>4. k = "call" => 1 \in Calls
  BY <1>1 DEF Calls
<1>5. \A c \in Dangling' \ invalid' :
        c = pendingCall' \/ Acked(c)' \/ \E n \in DOMAIN events' : Speech(n)'
  <2>1. SUFFICES ASSUME NEW c \in Dangling' \ invalid'
                 PROVE  c = pendingCall' \/ Acked(c)' \/ \E n \in DOMAIN events' : Speech(n)'
    OBVIOUS
  <2>2. CASE c \in Dangling
    BY <2>2, <1>3 DEF Interrupted
  <2>3. CASE k = "call" /\ c = events[1].of
    BY <2>3, <1>3, <1>4 DEF Interrupted
  <2> QED BY <2>2, <2>3
<1>6. \A n \in Calls' : Dangling' \subseteq invalid' \/ \E m \in DOMAIN events' : m < n /\ Speech(m)'
  <2>1. SUFFICES ASSUME NEW n \in Calls', ~(Dangling' \subseteq invalid')
                 PROVE  \E m \in DOMAIN events' : m < n /\ Speech(m)'
    OBVIOUS
  <2>2. \E m \in DOMAIN events : m < n + 1 /\ Speech(m)
    <3>1. CASE Dangling \subseteq invalid
      <4>1. k = "call"
        BY <2>1, <3>1
      <4>2. 1 \in Calls /\ n + 1 \in Calls /\ 1 < n + 1
        BY <4>1, <1>2, <1>4
      <4> QED BY <4>2 DEF Interrupted
    <3>2. CASE ~(Dangling \subseteq invalid)
      BY <3>2, <1>2 DEF Interrupted
    <3> QED BY <3>1, <3>2
  <2>3. PICK m \in DOMAIN events : m < n + 1 /\ Speech(m)
    BY <2>2
  <2>4. m - 1 < n
    BY <2>3, <1>2, <1>3
  <2> QED BY <2>3, <2>4, <1>3
<1>7. \A n \in Calls' : events'[n].of = pendingCall' \/ \E m \in DOMAIN events' : n < m /\ Speech(m)'
  <2>1. SUFFICES ASSUME NEW n \in Calls', events'[n].of # pendingCall'
                 PROVE  \E m \in DOMAIN events' : n < m /\ Speech(m)'
    OBVIOUS
  <2>2. PICK m \in DOMAIN events : n + 1 < m /\ Speech(m)
    BY <2>1, <1>2 DEF Interrupted
  <2>3. n < m - 1
    BY <2>2, <1>2, <1>3
  <2> QED BY <2>2, <2>3, <1>3
<1>8. \A m, n \in Calls' : m < n => \E j \in DOMAIN events' : m < j /\ j < n /\ Speech(j)'
  <2>1. SUFFICES ASSUME NEW m \in Calls', NEW n \in Calls', m < n
                 PROVE  \E j \in DOMAIN events' : m < j /\ j < n /\ Speech(j)'
    OBVIOUS
  <2>2. PICK j \in DOMAIN events : m + 1 < j /\ j < n + 1 /\ Speech(j)
    BY <2>1, <1>2 DEF Interrupted
  <2>3. m < j - 1 /\ j - 1 < n
    BY <2>2, <1>2, <1>3
  <2> QED BY <2>2, <2>3, <1>3
<1> QED BY <1>5, <1>6, <1>7, <1>8 DEF Interrupted

\* A new item comes to the context once.
LEMMA InjectiveAppended ==
  ASSUME NEW S, NEW s \in Seq(S), IsInjective(s), NEW x \in S, x \notin ToSet(s)
  PROVE  IsInjective(Append(s, x))
<1> DEFINE t == Append(s, x)
<1>1. /\ DOMAIN t = 1..(Len(s) + 1) /\ DOMAIN s = 1..Len(s) /\ Len(s) \in Nat
      /\ \A n \in 1..Len(s) : t[n] = s[n]
      /\ t[Len(s) + 1] = x
  BY Longer
<1> HIDE DEF t
<1>2. \A n \in 1..Len(s) : s[n] # x
  BY <1>1 DEF ToSet
<1>3. \A m, n \in 1..Len(s) : s[m] = s[n] => m = n
  BY <1>1 DEF IsInjective
<1>4. \A n \in 1..(Len(s) + 1) : n \in 1..Len(s) \/ n = Len(s) + 1
  BY <1>1
<1>5. \A m, n \in 1..(Len(s) + 1) : t[m] = t[n] => m = n
  BY <1>1, <1>2, <1>3, <1>4
<1>6. IsInjective(t)
  BY <1>1, <1>5 DEF IsInjective
<1> QED BY <1>6 DEF t

\* A call comes when no other is open, an output when its call is.
LEMMA ExchangedAppended ==
  ASSUME TypeOK, Exchanged, UNCHANGED <<made, invalid>>, NEW i \in Known, ctx' = Append(ctx, i),
         Has("call", i) => Dangling \subseteq invalid,
         Has("output", i) => made[i].of \in Dangling
  PROVE  Exchanged'
<1> DEFINE last == Len(ctx) + 1
<1>1. /\ DOMAIN ctx' = 1..last /\ DOMAIN ctx = 1..Len(ctx) /\ Len(ctx) \in Nat
      /\ \A n \in DOMAIN ctx : ctx'[n] = ctx[n]
      /\ ctx'[last] = i
  BY Longer DEF TypeOK
<1>2. \A n \in DOMAIN ctx' : (n \in DOMAIN ctx /\ n < last) \/ n = last
  BY <1>1
<1>3. \A n \in DOMAIN ctx : n \in DOMAIN ctx' /\ n < last
  BY <1>1
<1> HIDE DEF last
<1>4. \A m, n \in DOMAIN ctx : ctx[m] = ctx[n] => m = n
  BY DEF TypeOK, IsInjective
<1>5. ASSUME NEW m \in DOMAIN ctx', NEW n \in DOMAIN ctx', m < n,
             Has("call", ctx'[m]), Has("call", ctx'[n])
      PROVE  \/ ctx'[m] \in invalid \/ ctx'[n] \in invalid
             \/ \E k \in DOMAIN ctx' : m < k /\ k < n /\ OutputOf(ctx'[k], ctx'[m])
  <2>1. CASE n \in DOMAIN ctx
    <3>1. m \in DOMAIN ctx
      BY <1>1, <1>5, <2>1
    <3>2. \/ ctx[m] \in invalid \/ ctx[n] \in invalid
          \/ \E k \in DOMAIN ctx : m < k /\ k < n /\ OutputOf(ctx[k], ctx[m])
      BY <1>1, <1>5, <2>1, <3>1 DEF Exchanged
    <3> QED BY <1>1, <1>3, <2>1, <3>1, <3>2
  <2>2. CASE n = last
    <3>1. m \in DOMAIN ctx /\ Has("call", i) /\ ctx'[m] = ctx[m]
      BY <1>1, <1>5, <1>2, <2>2
    <3>2. CASE ctx[m] \in Dangling
      BY <3>1, <3>2
    <3>3. CASE ctx[m] \notin Dangling
      <4>1. ctx[m] \in ToSet(ctx)
        BY <3>1 DEF ToSet
      <4>2. Answered(ctx[m])
        BY <1>5, <3>1, <3>3, <4>1 DEF Dangling
      <4>3. PICK k \in DOMAIN ctx : OutputOf(ctx[k], ctx[m])
        BY <4>2 DEF Answered, ToSet, OutputOf
      <4>4. PICK j \in DOMAIN ctx : j < k /\ ctx[j] = ctx[m]
        BY <4>3 DEF Exchanged, OutputOf
      <4>5. j = m
        BY <1>4, <3>1, <4>4
      <4> QED BY <1>1, <1>3, <2>2, <3>1, <4>3, <4>4, <4>5
    <3> QED BY <3>2, <3>3
  <2> QED BY <1>2, <2>1, <2>2
<1>6. ASSUME NEW k \in DOMAIN ctx', Has("output", ctx'[k])
      PROVE  \E m \in DOMAIN ctx' : m < k /\ ctx'[m] = made[ctx'[k]].of
  <2>1. CASE k \in DOMAIN ctx
    BY <1>1, <1>3, <1>6, <2>1 DEF Exchanged
  <2>2. CASE k = last
    <3>1. PICK m \in DOMAIN ctx : ctx[m] = made[i].of
      BY <1>1, <1>6, <2>2 DEF Dangling, ToSet
    <3> QED BY <1>1, <1>3, <2>2, <3>1
  <2> QED BY <1>2, <2>1, <2>2
<1>7. ASSUME NEW m \in DOMAIN ctx, Has("output", ctx[m]), Has("output", i),
             made[ctx[m]].of = made[i].of
      PROVE  FALSE
  BY <1>7 DEF Dangling, Answered, ToSet
<1>8. ASSUME NEW m \in DOMAIN ctx', NEW n \in DOMAIN ctx', Has("output", ctx'[m]), Has("output", ctx'[n]),
             made[ctx'[m]].of = made[ctx'[n]].of
      PROVE  m = n
  <2>1. CASE m \in DOMAIN ctx /\ n \in DOMAIN ctx
    BY <1>1, <1>8, <2>1 DEF Exchanged
  <2>2. CASE m = last \/ n = last
    BY <1>1, <1>2, <1>7, <1>8, <2>2
  <2> QED BY <1>2, <2>1, <2>2
<1> QED BY <1>5, <1>6, <1>8, SMTT(30) DEF Exchanged, Has, OutputOf

\* What a chat item does to the context and to the marks.
LEMMA ItemAppended ==
  ASSUME TypeOK, Marks, Fresh, NEW k \in {"item", "filler", "call"}, Hears(k),
         ctx' = Append(ctx, Head(events).of)
  PROVE  LET i == events[1].of
         IN /\ i \in Known /\ i \notin ToSet(ctx) /\ ctx' = Append(ctx, i) /\ Head(events).of = i
            /\ ctx' \in Seq(Known') /\ IsInjective(ctx')
            /\ ToSet(ctx') = ToSet(ctx) \cup {i}
            /\ ~Has("output", i) /\ (Has("call", i) <=> k = "call")
            /\ k = "filler" => Has("message", i)
<1> DEFINE i == events[1].of
<1>1. /\ DOMAIN events = 1..Len(events) /\ Len(events) \in Nat /\ 1 <= Len(events)
      /\ Head(events) = events[1] /\ events[1].kind = k
  BY Heard
<1>2. 1 \in Adds
  BY <1>1 DEF Adds
<1>3. /\ i \in Known /\ i \notin ToSet(ctx)
      /\ IF k = "call" THEN Has("call", i) ELSE ~Has("call", i) /\ ~Has("output", i)
      /\ k = "filler" => Has("message", i)
  BY <1>1, <1>2 DEF Fresh
<1>4. ~Has("output", i)
  BY <1>3 DEF Has
<1>5. ctx' = Append(ctx, i) /\ Head(events).of = i
  BY <1>1
<1>6. Known' = Known
  BY DEF Hears, Known
<1> HIDE DEF i
<1>7. ctx \in Seq(Known) /\ IsInjective(ctx)
  BY DEF TypeOK
<1>8. ctx' \in Seq(Known) /\ IsInjective(ctx') /\ ToSet(ctx') = ToSet(ctx) \cup {i}
  BY <1>3, <1>5, <1>7, Longer, InjectiveAppended
<1> QED BY <1>3, <1>4, <1>5, <1>6, <1>8 DEF i

\* The types, after an event has been heard.
LEMMA HeardTypes ==
  ASSUME TypeOK, NEW k, Hears(k), ctx' \in Seq(Known'), IsInjective(ctx'),
         invalid' \subseteq Known', unplayed' \subseteq Known',
         waiter' \in {"none", "waiting", "acked", "failed"}
  PROVE  TypeOK'
<1>1. events' \in Seq(Events) /\ Len(events') <= MaxEvents
  BY Heard
<1>2. UNCHANGED <<made, link, conns, replay, todo, outbound, sent, history, pendingCall>>
  BY DEF Hears, serviceVars
<1>3. Known' = Known
  BY <1>2 DEF Known
<1> QED BY <1>1, <1>2, <1>3 DEF TypeOK
-----------------------------------------------------------------------------
(* What the plugin hears keeps the invariant.                               *)

\* HearsAnswer: the answer is the awaited one.
LEMMA AnswerKeeps ==
  ASSUME IInv, NEW k, NEW outcome, HearsAnswer(k, outcome),
         (k = "ack" /\ outcome = "acked") \/ (k = "refused" /\ outcome = "failed")
  PROVE  IInv'
<1>1. /\ TypeOK /\ Marks /\ Fresh /\ Underway /\ Exchanged /\ Hears(k)
      /\ UNCHANGED <<ctx, invalid, unplayed>>
      /\ UNCHANGED <<made, link, todo, outbound, sent, pendingCall>>
  BY DEF IInv, HearsAnswer, Hears, serviceVars
<1>2. /\ DOMAIN events = 1..Len(events) /\ DOMAIN events' = 1..(Len(events) - 1)
      /\ Len(events) \in Nat /\ 1 <= Len(events) /\ link = "live"
      /\ \A n \in DOMAIN events' : n + 1 \in DOMAIN events /\ events'[n] = events[n + 1]
      /\ Head(events) = events[1] /\ events[1].kind = k
  BY <1>1, Heard
<1>3. Interrupted
  BY <1>2 DEF IInv, LiveInv
<1>4. 1 \in Answers /\ \A n \in Answers : n = 1
  BY <1>1, <1>2 DEF Answers, Underway
<1>5. waiter = "waiting" /\ events[1].of = todo[1] /\ todo # <<>>
  BY <1>1, <1>4 DEF Underway
<1>6. waiter' = outcome
  <2>1. Head(todo) = todo[1]
    BY <1>1, <1>5, Shorter DEF TypeOK
  <2> QED BY <1>2, <1>5, <2>1 DEF HearsAnswer
<1>7. Answers' = {}
  BY <1>2, <1>4 DEF Answers
<1>8. Lasting /\ Known' = Known
  BY <1>1, NothingMade
<1>9. TypeOK'
  BY <1>1, <1>6, <1>8, HeardTypes DEF TypeOK
<1>10. Marks'
  BY <1>1, <1>8, MarksStay
<1>11. Fresh'
  BY <1>1, FreshHeard
<1>12. Exchanged'
  BY <1>1, <1>8, ExchangedStays
<1>13. Dangling' = Dangling
  BY <1>1, <1>8, DanglingStays
<1>14. Underway'
  <2>1. outbound = None /\ sent = None
    BY <1>1, <1>4 DEF Underway
  <2>2. \A n \in DOMAIN todo : \/ Has("message", todo[n])'
                               \/ n = 1 /\ Has("output", todo[n])' /\ made'[todo[n]].of \in Dangling'
    BY <1>1, <1>13 DEF Underway, Has
  <2> QED BY <1>1, <1>2, <1>5, <1>6, <1>7, <2>1, <2>2 DEF Underway
<1>15. ASSUME NEW c \in Dangling, Acked(c) PROVE Acked(c)'
  <2>1. PICK n \in DOMAIN events : events[n].kind = "ack"
    BY <1>5, <1>15 DEF Acked
  <2>2. n = 1
    BY <1>4, <2>1 DEF Answers
  <2>3. outcome = "acked"
    BY <1>2, <2>1, <2>2
  <2> QED BY <1>1, <1>5, <1>6, <1>15, <2>3 DEF Acked, OutputOf, Has
<1>16. Interrupted'
  BY <1>1, <1>3, <1>13, <1>15, InterruptedHeard
<1>17. link' = "live"
  BY <1>1, <1>2
<1> QED BY <1>9, <1>10, <1>11, <1>12, <1>14, <1>16, <1>17 DEF IInv, LiveInv, BootInv

\* HearsItem and HearsFiller: an item comes to the context.
LEMMA ItemKeeps ==
  ASSUME IInv, NEW k \in {"item", "filler", "call"}, Hears(k),
         ctx' = Append(ctx, Head(events).of), UNCHANGED <<invalid, waiter>>,
         \/ UNCHANGED unplayed
         \/ k = "filler" /\ unplayed' = unplayed \cup {Head(events).of}
  PROVE  IInv'
<1> DEFINE i == events[1].of
<1>1. /\ TypeOK /\ Marks /\ Fresh /\ Underway /\ Exchanged
      /\ UNCHANGED <<made, link, todo, outbound, sent, pendingCall>>
  BY DEF IInv, Hears, serviceVars
<1>2. /\ DOMAIN events = 1..Len(events) /\ DOMAIN events' = 1..(Len(events) - 1)
      /\ Len(events) \in Nat /\ 1 <= Len(events) /\ link = "live"
      /\ \A n \in DOMAIN events' : n + 1 \in DOMAIN events /\ events'[n] = events[n + 1]
      /\ events[1].kind = k
  BY <1>1, Heard
<1>3. Interrupted
  BY <1>2 DEF IInv, LiveInv
<1>4. /\ i \in Known /\ i \notin ToSet(ctx) /\ ctx' = Append(ctx, i) /\ Head(events).of = i
      /\ ctx' \in Seq(Known') /\ IsInjective(ctx')
      /\ ToSet(ctx') = ToSet(ctx) \cup {i}
      /\ ~Has("output", i) /\ (Has("call", i) <=> k = "call")
      /\ k = "filler" => Has("message", i)
  BY <1>1, ItemAppended
<1>5. Known' = Known
  BY <1>1 DEF Known
<1>6. \A c \in Calls : c = 1 => Dangling \subseteq invalid
  BY <1>2, <1>3 DEF Interrupted, Speech, Calls
<1>7. k = "call" => Dangling \subseteq invalid
  BY <1>2, <1>6 DEF Calls
<1> DEFINE u == unplayed'
<1>8. u \subseteq unplayed \cup {i} /\ (u # unplayed => Has("message", i))
  BY <1>4
<1>9. k # "call" => ~Has("call", i)
  BY <1>4
<1> HIDE DEF i, u
<1>10. u \subseteq Known /\ invalid' = invalid /\ invalid \subseteq Known
  BY <1>1, <1>4, <1>8 DEF TypeOK
<1>11. TypeOK'
  BY <1>1, <1>4, <1>5, <1>10, HeardTypes DEF TypeOK, u
<1>12. Marks'
  <2>1. \A j \in u : (j \in ToSet(ctx) \/ j = i) /\ Has("message", j)
    BY <1>1, <1>8 DEF Marks
  <2> QED BY <1>1, <1>4, <1>5, <2>1 DEF Marks, Has, u
<1>13. Fresh'
  <2>1. ctx' = Append(ctx, Head(events).of)
    OBVIOUS
  <2> QED BY <1>1, <2>1, FreshHeard
<1>14. /\ Dangling \subseteq Dangling'
       /\ \A c \in Dangling' : c \in Dangling \/ (Has("call", i) /\ c = i)
  BY <1>1, <1>4, DanglingAppended
<1>15. Exchanged'
  BY <1>1, <1>4, <1>7, ExchangedAppended
<1>16. Underway'
  BY <1>1, <1>14, UnderwayHeard
<1>17. ASSUME NEW c \in Dangling, Acked(c) PROVE Acked(c)'
  <2>1. \A n \in DOMAIN events : events[n].kind = "ack" =>
          n - 1 \in DOMAIN events' /\ events'[n - 1].kind = "ack"
    <3>1. SUFFICES ASSUME NEW n \in DOMAIN events, events[n].kind = "ack"
                   PROVE  n - 1 \in DOMAIN events' /\ events'[n - 1].kind = "ack"
      OBVIOUS
    <3>2. n # 1
      BY <1>2, <3>1
    <3> QED BY <1>2, <3>1, <3>2
  <2> QED BY <1>1, <1>17, <2>1 DEF Acked, OutputOf, Has
<1>18. Interrupted'
  <2>1. \A c \in Dangling' : c \in Dangling \/ (k = "call" /\ c = events[1].of)
    BY <1>4, <1>14 DEF i
  <2> QED BY <1>1, <1>3, <1>17, <2>1, InterruptedHeard
<1>19. link' = "live"
  BY <1>1, <1>2
<1> QED BY <1>11, <1>12, <1>13, <1>15, <1>16, <1>18, <1>19 DEF IInv, LiveInv, BootInv

\* HearsSpeech: every open call is invalidated.
LEMMA SpeechKeeps ==
  ASSUME IInv, HearsSpeech
  PROVE  IInv'
<1>1. /\ TypeOK /\ Marks /\ Fresh /\ Underway /\ Exchanged /\ Hears("speech")
      /\ UNCHANGED <<ctx, unplayed, waiter>> /\ invalid' = invalid \cup Dangling
      /\ UNCHANGED <<made, link, todo, outbound, sent, pendingCall>>
  BY DEF IInv, HearsSpeech, Hears, serviceVars
<1>2. /\ DOMAIN events = 1..Len(events) /\ DOMAIN events' = 1..(Len(events) - 1)
      /\ Len(events) \in Nat /\ 1 <= Len(events) /\ link = "live"
      /\ \A n \in DOMAIN events' : n + 1 \in DOMAIN events /\ events'[n] = events[n + 1]
      /\ events[1].kind = "speech"
  BY <1>1, Heard
<1>3. Interrupted
  BY <1>2 DEF IInv, LiveInv
<1>4. Lasting /\ Known' = Known
  BY <1>1, NothingMade
<1>5. Dangling' = Dangling /\ Dangling \subseteq ToSet(ctx) /\ ToSet(ctx) \subseteq Known
  BY <1>1, <1>4, DanglingStays, Shapes DEF Dangling
<1>6. TypeOK'
  BY <1>1, <1>4, <1>5, HeardTypes DEF TypeOK
<1>7. Marks'
  BY <1>1, <1>4, <1>5 DEF Marks, Dangling, Has
<1>8. Fresh'
  BY <1>1, FreshHeard
<1>9. Exchanged'
  BY <1>1, <1>4, ExchangedStays
<1>10. Underway'
  BY <1>1, <1>5, UnderwayHeard
<1>11. \A n \in Calls' : n + 1 \in Calls /\ events'[n] = events[n + 1] /\ n \in Nat /\ n >= 1
  BY <1>2 DEF Calls
<1>12. \A m \in DOMAIN events : Speech(m) /\ m # 1 => /\ m - 1 \in DOMAIN events' /\ Speech(m - 1)'
                                                      /\ m \in Nat /\ m >= 2
  BY <1>2 DEF Speech
<1>13. \A n \in Calls' : events'[n].of = pendingCall' \/ \E m \in DOMAIN events' : n < m /\ Speech(m)'
  <2>1. SUFFICES ASSUME NEW n \in Calls', events'[n].of # pendingCall'
                 PROVE  \E m \in DOMAIN events' : n < m /\ Speech(m)'
    OBVIOUS
  <2>2. PICK m \in DOMAIN events : n + 1 < m /\ Speech(m)
    BY <1>1, <1>3, <2>1, <1>11 DEF Interrupted
  <2>3. m - 1 \in DOMAIN events' /\ Speech(m - 1)' /\ n < m - 1
    BY <2>2, <1>2, <1>11, <1>12
  <2> QED BY <2>3
<1>14. \A m, n \in Calls' : m < n => \E j \in DOMAIN events' : m < j /\ j < n /\ Speech(j)'
  <2>1. SUFFICES ASSUME NEW m \in Calls', NEW n \in Calls', m < n
                 PROVE  \E j \in DOMAIN events' : m < j /\ j < n /\ Speech(j)'
    OBVIOUS
  <2>2. PICK j \in DOMAIN events : m + 1 < j /\ j < n + 1 /\ Speech(j)
    BY <1>3, <2>1, <1>11 DEF Interrupted
  <2>3. j - 1 \in DOMAIN events' /\ Speech(j - 1)' /\ m < j - 1 /\ j - 1 < n
    BY <2>2, <1>2, <1>11, <1>12
  <2> QED BY <2>3
<1>15. Interrupted'
  BY <1>1, <1>5, <1>13, <1>14 DEF Interrupted
<1>16. link' = "live"
  BY <1>1, <1>2
<1> QED BY <1>6, <1>7, <1>8, <1>9, <1>10, <1>15, <1>16 DEF IInv, LiveInv, BootInv
-----------------------------------------------------------------------------
(* What the service does keeps the invariant.                               *)

\* A conversation stays one of known items.
LEMMA AppendedType ==
  ASSUME NEW S, history \in Seq(S), NEW i \in S
  PROVE  Appended(i) \in Seq(S)
<1> DEFINE g == Append(history, i)
<1>1. g \in Seq(S) /\ Len(g) = Len(history) + 1 /\ Len(history) \in Nat
  BY Longer
<1>2. g # <<>>
  BY <1>1, EmptySeq
<1>3. Appended(i) = Trimmed(g)
  BY DEF Appended
<1> HIDE DEF g
<1> QED BY <1>1, <1>2, <1>3, TrimmedType

\* So it does with what is taken.
LEMMA TakeType ==
  ASSUME TypeOK, NEW i \in Known, Take(i)
  PROVE  history' \in Seq(Known) /\ pendingCall' \in {None} \cup Known
<1>1. history \in Seq(Known) /\ pendingCall \in {None} \cup Known
  BY DEF TypeOK
<1>2. Appended(i) \in Seq(Known)
  BY <1>1, AppendedType
<1> QED BY <1>1, <1>2 DEF Take

\* The types, after the service has told something.
LEMMA ToldTypes ==
  ASSUME TypeOK, Lasting, made' \in Seq([kind : Kinds, of : 0..MaxItems]), Len(made') <= MaxItems,
         NEW k \in EventKinds, NEW o \in 0..MaxItems, Tell(k, o), UNCHANGED pluginVars,
         sent' \in {None} \cup Known, history' \in Seq(Known'), pendingCall' \in {None} \cup Known'
  PROVE  TypeOK'
<1>1. events' \in Seq(Events) /\ Len(events') <= MaxEvents
  BY Told
<1>2. UNCHANGED <<ctx, invalid, unplayed, link, conns, replay, todo, waiter, outbound>>
  BY DEF pluginVars
<1>3. Known \subseteq Known'
  BY DEF Lasting
<1>4. ctx \in Seq(Known') /\ replay \in Seq(Known') /\ todo \in Seq(Known')
  BY <1>3, SeqMonotonic DEF TypeOK
<1> QED BY <1>1, <1>2, <1>3, <1>4 DEF TypeOK

\* What the service says of no call leaves the open ones in order.
LEMMA InterruptedTold ==
  ASSUME TypeOK, Fresh, Interrupted, Lasting, UNCHANGED pluginVars,
         NEW k \in EventKinds, NEW o \in 0..MaxItems, Tell(k, o), k # "call",
         \/ UNCHANGED pendingCall
         \/ k = "speech"
         \/ \A c : c = pendingCall => c \in ToSet(ctx) /\ Acked(c)'
  PROVE  Interrupted'
<1> DEFINE last == Len(events) + 1
<1>1. /\ DOMAIN events = 1..Len(events) /\ DOMAIN events' = 1..last
      /\ Len(events) \in Nat
      /\ \A n \in DOMAIN events : events'[n] = events[n]
      /\ events'[last].kind = k
  BY Told
<1>2. UNCHANGED <<ctx, invalid, unplayed, link, conns, replay, todo, waiter, outbound>>
  BY DEF pluginVars
<1>3. Dangling' = Dangling
  BY <1>2, DanglingStays
<1>4. \A n \in DOMAIN events : n \in DOMAIN events' /\ n < last /\ events'[n] = events[n]
  BY <1>1
<1>5. last \in DOMAIN events'
  BY <1>1
<1> HIDE DEF last
<1>6. Calls' = Calls
  <2>1. \A n \in DOMAIN events' : n \in DOMAIN events \/ n = last
    BY <1>1 DEF last
  <2> QED BY <1>1, <1>4, <2>1 DEF Calls
<1>7. Calls \subseteq DOMAIN events
  BY DEF Calls
<1>8. \A n \in DOMAIN events : Speech(n) => Speech(n)'
  BY <1>4 DEF Speech
<1>9. k = "speech" =>
        \E l \in DOMAIN events' : events'[l].kind = "speech" /\ \A n \in DOMAIN events : n < l
  BY <1>1, <1>4, <1>5
<1>10. ASSUME NEW c \in Dangling, Acked(c) PROVE Acked(c)'
  <2>1. todo[1] \in Known
    BY <1>10, Shapes, EmptySeq DEF Acked, TypeOK
  <2>2. \A n \in DOMAIN events : events[n].kind = "ack" => events'[n].kind = "ack"
    BY <1>4
  <2> QED BY <1>2, <1>4, <1>10, <2>1, <2>2 DEF Acked, OutputOf, Has, Lasting
<1>11. \A c \in Dangling' \ invalid' :
         c = pendingCall' \/ Acked(c)' \/ \E n \in DOMAIN events' : Speech(n)'
  <2>1. SUFFICES ASSUME NEW c \in Dangling \ invalid
                 PROVE  c = pendingCall' \/ Acked(c)' \/ \E n \in DOMAIN events' : Speech(n)'
    BY <1>2, <1>3
  <2>2. c = pendingCall \/ Acked(c) \/ \E n \in DOMAIN events : Speech(n)
    BY DEF Interrupted
  <2>3. CASE k = "speech"
    BY <2>3, <1>9 DEF Speech
  <2>4. CASE k # "speech"
    <3>1. c = pendingCall => c = pendingCall' \/ Acked(c)'
      BY <2>4
    <3> QED BY <3>1, <2>2, <1>4, <1>8, <1>10
  <2> QED BY <2>3, <2>4
<1>12. \A n \in Calls' : Dangling' \subseteq invalid' \/ \E m \in DOMAIN events' : m < n /\ Speech(m)'
  BY <1>2, <1>3, <1>4, <1>6, <1>8 DEF Interrupted
<1>13. \A n \in Calls' : events'[n].of = pendingCall' \/ \E m \in DOMAIN events' : n < m /\ Speech(m)'
  <2>1. SUFFICES ASSUME NEW n \in Calls
                 PROVE  events'[n].of = pendingCall' \/ \E m \in DOMAIN events' : n < m /\ Speech(m)'
    BY <1>6
  <2>2. events[n].of = pendingCall \/ \E m \in DOMAIN events : n < m /\ Speech(m)
    BY DEF Interrupted
  <2>3. events[n].of \notin ToSet(ctx)
    BY DEF Fresh, Adds, Calls
  <2>4. CASE k = "speech"
    BY <2>4, <1>7, <1>9 DEF Speech
  <2>5. CASE k # "speech"
    <3>1. events[n].of = pendingCall => pendingCall' = pendingCall
      BY <2>3, <2>5
    <3>2. events'[n] = events[n]
      BY <1>4, <1>7
    <3> QED BY <1>4, <1>8, <2>2, <3>1, <3>2
  <2> QED BY <2>4, <2>5
<1>14. \A m, n \in Calls' : m < n => \E j \in DOMAIN events' : m < j /\ j < n /\ Speech(j)'
  BY <1>4, <1>6, <1>8 DEF Interrupted
<1> QED BY <1>11, <1>12, <1>13, <1>14 DEF Interrupted

\* ServiceAdds and ServiceFills: an item is made that is no call, and told.
LEMMA AddKeeps ==
  ASSUME IInv, link = "live", Len(made) < MaxItems,
         NEW kind \in {"said", "message"}, made' = Made(kind, None),
         NEW k \in {"item", "filler"}, Tell(k, Newest), k = "filler" => kind = "message",
         history' = history \/ history' = Appended(Newest),
         UNCHANGED <<pluginVars, sent, pendingCall>>
  PROVE  IInv'
<1>1. TypeOK /\ Marks /\ Fresh /\ Underway /\ Exchanged /\ Interrupted
  BY DEF IInv, LiveInv
<1>2. UNCHANGED <<ctx, invalid, unplayed, link, conns, replay, todo, waiter, outbound>>
  BY DEF pluginVars
<1>3. /\ Lasting /\ Known' = Known \cup {Newest} /\ Newest \notin Known
      /\ Newest \in Nat \ {0} /\ Newest <= MaxItems
      /\ made'[Newest].kind = kind /\ made'[Newest].of = None
      /\ made' \in Seq([kind : Kinds, of : 0..MaxItems]) /\ Len(made') <= MaxItems
  <2>1. kind \in Kinds
    BY DEF Kinds
  <2> QED BY <1>1, <2>1, OneMade
<1> DEFINE o == Newest
<1>4. o \in 0..MaxItems /\ k \in EventKinds /\ Tell(k, o)
  BY <1>3, ContextAssumption DEF ContextAssumption, EventKinds
<1>5. o \in Known' /\ o \notin Known /\ made'[o].kind = kind
  BY <1>3
<1>6. history' \in Seq(Known')
  <2>1. history \in Seq(Known') /\ o \in Known'
    BY <1>1, <1>3, SeqMonotonic DEF TypeOK
  <2> QED BY <2>1, AppendedType
<1> HIDE DEF o
<1>7. TypeOK'
  BY <1>1, <1>3, <1>4, <1>6, ToldTypes DEF TypeOK
<1>8. Marks'
  BY <1>1, <1>2, <1>3, MarksStay
<1>9. Fresh'
  <2>1. /\ k # "call" /\ made'[o].kind # "call" /\ made'[o].kind # "output"
        /\ k = "filler" => made'[o].kind = "message"
    BY <1>5
  <2> QED BY <1>1, <1>2, <1>3, <1>4, <1>5, <2>1, FreshTold DEF Has
<1>10. Exchanged'
  BY <1>1, <1>2, <1>3, ExchangedStays
<1>11. Underway'
  BY <1>1, <1>2, <1>3, <1>4, UnderwayTold
<1>12. Interrupted'
  BY <1>1, <1>3, <1>4, InterruptedTold
<1> QED BY <1>2, <1>7, <1>8, <1>9, <1>10, <1>11, <1>12 DEF IInv, LiveInv, BootInv

\* ServiceTakes: the output of a call is acknowledged when it ends its pending.
LEMMA TakeKeeps ==
  ASSUME IInv, ServiceTakes
  PROVE  IInv'
<1>1. /\ TypeOK /\ Marks /\ Fresh /\ Underway /\ Exchanged /\ Interrupted
      /\ link = "live" /\ sent # None /\ sent' = None
      /\ UNCHANGED made /\ UNCHANGED pluginVars
  BY DEF IInv, LiveInv, ServiceTakes
<1>2. UNCHANGED <<ctx, invalid, unplayed, link, conns, replay, todo, waiter, outbound>>
  BY <1>1 DEF pluginVars
<1>3. sent = todo[1] /\ waiter = "waiting" /\ todo # <<>>
  BY <1>1 DEF Underway
<1>4. 1 \in DOMAIN todo /\ sent \in Known /\ sent \in 0..MaxItems
  <2>1. Len(todo) \in Nat /\ DOMAIN todo = 1..Len(todo) /\ todo \in Seq(Known)
    BY <1>1, Shapes DEF TypeOK
  <2>2. Len(todo) # 0
    BY <1>3, <2>1, EmptySeq
  <2>3. sent \in Known
    BY <1>1 DEF TypeOK
  <2>4. Len(made) \in Nat /\ Len(made) <= MaxItems
    BY <1>1, Shapes DEF TypeOK
  <2>5. sent \in 0..MaxItems
    BY <2>3, <2>4, ContextAssumption DEF ContextAssumption, Known
  <2> QED BY <2>1, <2>2, <2>3, <2>5
<1>5. /\ Has("message", sent) \/ (Has("output", sent) /\ made[sent].of \in Dangling)
      /\ ~Has("call", sent)
  BY <1>1, <1>3, <1>4 DEF Underway, Has
<1>6. Lasting /\ Known' = Known
  BY <1>1, NothingMade
<1>7. PICK k \in {"ack", "refused"} :
        /\ Tell(k, sent)
        /\ \/ k = "ack" /\ Accepts(sent) /\ Take(sent)
           \/ UNCHANGED serviceVars
  BY DEF ServiceTakes
<1>8. k \in EventKinds
  BY DEF EventKinds
<1>9. history' \in Seq(Known) /\ pendingCall' \in {None} \cup Known
  BY <1>1, <1>4, <1>7, TakeType DEF TypeOK, serviceVars
<1> DEFINE o == sent
<1>10. o \in 0..MaxItems /\ Tell(k, o) /\ o = sent
  BY <1>4, <1>7
<1> HIDE DEF o
<1>11. TypeOK'
  BY <1>1, <1>6, <1>8, <1>9, <1>10, ToldTypes DEF TypeOK
<1>12. Marks'
  BY <1>1, <1>2, <1>6, MarksStay
<1>13. Fresh'
  BY <1>1, <1>2, <1>6, <1>8, <1>10, FreshTold
<1>14. Exchanged'
  BY <1>1, <1>2, <1>6, ExchangedStays
<1>15. Underway'
  BY <1>1, <1>2, <1>6, <1>8, <1>10, UnderwayTold
<1>16. \/ UNCHANGED pendingCall
       \/ \A c : c = pendingCall => c \in ToSet(ctx) /\ Acked(c)'
  <2>1. CASE UNCHANGED pendingCall
    BY <2>1
  <2>2. CASE ~UNCHANGED pendingCall
    <3>1. k = "ack" /\ Has("output", sent) /\ made[sent].of = pendingCall
      BY <1>5, <1>7, <2>2 DEF Take, Accepts, serviceVars, Has
    <3>2. pendingCall \in ToSet(ctx)
      BY <1>5, <3>1 DEF Dangling, Has
    <3>3. \E n \in DOMAIN events' : events'[n].kind = "ack"
      <4>1. /\ DOMAIN events' = 1..(Len(events) + 1) /\ Len(events) \in Nat
            /\ events'[Len(events) + 1].kind = k
        BY <1>1, <1>8, <1>10, Told
      <4>2. Len(events) + 1 \in DOMAIN events'
        BY <4>1
      <4> QED BY <3>1, <4>1, <4>2
    <3> QED BY <1>1, <1>2, <1>3, <3>1, <3>2, <3>3 DEF Acked, OutputOf, Has
  <2> QED BY <2>1, <2>2
<1>17. Interrupted'
  BY <1>1, <1>6, <1>8, <1>10, <1>16, InterruptedTold
<1> QED BY <1>1, <1>2, <1>11, <1>12, <1>13, <1>14, <1>15, <1>17 DEF IInv, LiveInv, BootInv

\* SpeechStarts.
LEMMA StartKeeps ==
  ASSUME IInv, SpeechStarts
  PROVE  IInv'
<1>1. /\ TypeOK /\ Marks /\ Fresh /\ Underway /\ Exchanged /\ Interrupted
      /\ link = "live" /\ UNCHANGED <<made, sent, history>> /\ UNCHANGED pluginVars
      /\ Tell("speech", None) /\ pendingCall' \in {pendingCall, None}
  BY DEF IInv, LiveInv, SpeechStarts, CallDropped
<1>2. UNCHANGED <<ctx, invalid, unplayed, link, conns, replay, todo, waiter, outbound>>
  BY <1>1 DEF pluginVars
<1>3. Lasting /\ Known' = Known
  BY <1>1, NothingMade
<1> DEFINE k == "speech"
           o == None
<1>4. k \in EventKinds /\ o \in 0..MaxItems /\ Tell(k, o) /\ k = "speech"
  BY <1>1, ContextAssumption DEF ContextAssumption, EventKinds, None
<1> HIDE DEF k, o
<1>5. history' \in Seq(Known') /\ pendingCall' \in {None} \cup Known'
  BY <1>1, <1>3 DEF TypeOK
<1>6. TypeOK'
  BY <1>1, <1>3, <1>4, <1>5, ToldTypes DEF TypeOK
<1>7. Marks'
  BY <1>1, <1>2, <1>3, MarksStay
<1>8. Fresh'
  BY <1>1, <1>2, <1>3, <1>4, FreshTold
<1>9. Exchanged'
  BY <1>1, <1>2, <1>3, ExchangedStays
<1>10. Underway'
  BY <1>1, <1>2, <1>3, <1>4, UnderwayTold
<1>11. Interrupted'
  BY <1>1, <1>3, <1>4, InterruptedTold
<1> QED BY <1>1, <1>2, <1>6, <1>7, <1>8, <1>9, <1>10, <1>11 DEF IInv, LiveInv, BootInv

\* ServiceCalls: the call is pending, and every other open one has been followed by
\* speech.
LEMMA CallKeeps ==
  ASSUME IInv, ServiceCalls
  PROVE  IInv'
<1>1. /\ TypeOK /\ Marks /\ Fresh /\ Underway /\ Exchanged /\ Interrupted
      /\ link = "live" /\ Len(made) < MaxItems /\ pendingCall = None
      /\ waiter # "acked" /\ \A n \in DOMAIN events : events[n].kind # "ack"
      /\ made' = Made("call", None) /\ pendingCall' = Newest /\ Tell("call", Newest)
      /\ UNCHANGED <<sent, history>> /\ UNCHANGED pluginVars
  BY DEF IInv, LiveInv, ServiceCalls
<1>2. UNCHANGED <<ctx, invalid, unplayed, link, conns, replay, todo, waiter, outbound>>
  BY <1>1 DEF pluginVars
<1>3. /\ Lasting /\ Known' = Known \cup {Newest} /\ Newest \notin Known
      /\ Newest \in Nat \ {0} /\ Newest <= MaxItems
      /\ made'[Newest].kind = "call" /\ made'[Newest].of = None
      /\ made' \in Seq([kind : Kinds, of : 0..MaxItems]) /\ Len(made') <= MaxItems
  <2>1. "call" \in Kinds
    BY DEF Kinds
  <2> QED BY <1>1, <2>1, OneMade
<1> DEFINE o == Newest
           k == "call"
           last == Len(events) + 1
<1>4. o \in 0..MaxItems /\ k \in EventKinds /\ Tell(k, o) /\ k = "call" /\ pendingCall' = o
  BY <1>1, <1>3, ContextAssumption DEF ContextAssumption, EventKinds
<1>5. o \in Known' /\ o \notin Known /\ made'[o].kind = "call"
  BY <1>3
<1>6. history' \in Seq(Known') /\ pendingCall' \in {None} \cup Known'
  BY <1>1, <1>3, SeqMonotonic DEF TypeOK
<1> HIDE DEF o, k
<1>7. TypeOK'
  BY <1>1, <1>3, <1>4, <1>6, ToldTypes DEF TypeOK
<1>8. Marks'
  BY <1>1, <1>2, <1>3, MarksStay
<1>9. Fresh'
  BY <1>1, <1>2, <1>3, <1>4, <1>5, FreshTold DEF Has
<1>10. Exchanged'
  BY <1>1, <1>2, <1>3, ExchangedStays
<1>11. Underway'
  BY <1>1, <1>2, <1>3, <1>4, UnderwayTold
<1>12. /\ DOMAIN events = 1..Len(events) /\ DOMAIN events' = 1..last
       /\ Len(events) \in Nat
       /\ \A n \in DOMAIN events : events'[n] = events[n]
       /\ events'[last].kind = k /\ events'[last].of = o
  BY <1>1, <1>4, Told
<1>13. \A n \in DOMAIN events : n \in DOMAIN events' /\ n < last /\ events'[n] = events[n]
  BY <1>12
<1>14. \A n \in DOMAIN events' : n \in DOMAIN events \/ n = last
  BY <1>12
<1>15. last \in Nat /\ last \in DOMAIN events' /\ events'[last].kind = "call"
  BY <1>4, <1>12
<1> HIDE DEF last
<1>16. Calls' = Calls \cup {last} /\ Calls \subseteq DOMAIN events
  BY <1>13, <1>14, <1>15 DEF Calls
<1>17. Dangling' = Dangling
  BY <1>1, <1>2, <1>3, DanglingStays
<1>18. \A n \in DOMAIN events : Speech(n) => Speech(n)'
  BY <1>13 DEF Speech
<1>19. \A n \in Calls : \E m \in DOMAIN events : n < m /\ Speech(m)
  <2>1. \A n \in Calls : events[n].of # None
    <3>1. \A n \in Calls : events[n].of \in Known
      BY <1>1 DEF Fresh, Adds, Calls
    <3>2. None \notin Known
      BY <1>1, Shapes DEF None
    <3> QED BY <3>1, <3>2
  <2> QED BY <1>1, <2>1 DEF Interrupted
<1>20. Dangling \subseteq invalid \/ \E m \in DOMAIN events : Speech(m)
  <2>1. \A c \in Dangling : c # None /\ ~Acked(c)
    <3>1. Dangling \subseteq Known /\ None \notin Known
      BY <1>1, Shapes DEF None, Dangling
    <3> QED BY <1>1, <3>1 DEF Acked
  <2> QED BY <1>1, <2>1 DEF Interrupted
<1>21. \A c \in Dangling' \ invalid' :
         c = pendingCall' \/ Acked(c)' \/ \E n \in DOMAIN events' : Speech(n)'
  BY <1>2, <1>13, <1>17, <1>18, <1>20
<1>22. \A n \in Calls' : Dangling' \subseteq invalid' \/ \E m \in DOMAIN events' : m < n /\ Speech(m)'
  <2>1. SUFFICES ASSUME NEW n \in Calls'
                 PROVE  Dangling' \subseteq invalid' \/ \E m \in DOMAIN events' : m < n /\ Speech(m)'
    OBVIOUS
  <2>2. CASE n \in Calls
    BY <1>1, <1>2, <1>13, <1>17, <1>18, <2>2 DEF Interrupted
  <2>3. CASE n = last
    BY <1>2, <1>13, <1>17, <1>18, <1>20, <2>3
  <2> QED BY <1>16, <2>2, <2>3
<1>23. \A n \in Calls' : events'[n].of = pendingCall' \/ \E m \in DOMAIN events' : n < m /\ Speech(m)'
  BY <1>4, <1>12, <1>13, <1>16, <1>18, <1>19
<1>24. \A m, n \in Calls' : m < n => \E j \in DOMAIN events' : m < j /\ j < n /\ Speech(j)'
  <2>1. SUFFICES ASSUME NEW m \in Calls', NEW n \in Calls', m < n
                 PROVE  \E j \in DOMAIN events' : m < j /\ j < n /\ Speech(j)'
    OBVIOUS
  <2>2. CASE n \in Calls
    <3>1. m \in Calls
      BY <1>12, <1>13, <1>15, <1>16, <2>1, <2>2
    <3> QED BY <1>1, <1>13, <1>18, <2>1, <2>2, <3>1 DEF Interrupted
  <2>3. CASE n = last
    <3>1. m \in Calls
      BY <1>15, <1>16, <2>1, <2>3
    <3>2. PICK j \in DOMAIN events : m < j /\ Speech(j)
      BY <1>19, <3>1
    <3> QED BY <1>13, <1>18, <2>3, <3>2
  <2> QED BY <1>16, <2>2, <2>3
<1>25. Interrupted'
  BY <1>21, <1>22, <1>23, <1>24 DEF Interrupted
<1> QED BY <1>1, <1>2, <1>7, <1>8, <1>9, <1>10, <1>11, <1>25 DEF IInv, LiveInv, BootInv
-----------------------------------------------------------------------------
(* Connections and updates keep the invariant.                              *)

\* Without a connection nothing is under way.
LEMMA CutKeeps ==
  ASSUME IInv, link' \in {"down", "over"}, replay' = <<>>, outbound' = None, sent' = None,
         events' = <<>>, waiter' \in {"none", "waiting", "acked", "failed"},
         waiter' = "none" <=> waiter = "none",
         UNCHANGED <<made, ctx, invalid, unplayed, conns, todo, serviceVars>>
  PROVE  IInv'
<1>1. TypeOK /\ Marks /\ Fresh /\ Underway /\ Exchanged /\ UNCHANGED <<history, pendingCall>>
  BY DEF IInv, serviceVars
<1>2. Lasting /\ Known' = Known
  BY NothingMade
<1>3. DOMAIN events' = {} /\ Len(events') = 0
  OBVIOUS
<1>4. TypeOK'
  <2>1. events' \in Seq(Events) /\ Len(events') <= MaxEvents
    BY <1>3, EmptySeq, ContextAssumption DEF ContextAssumption
  <2>2. replay' \in Seq(Known)
    BY EmptySeq
  <2> QED BY <1>1, <1>2, <2>1, <2>2 DEF TypeOK
<1>5. Marks'
  BY <1>1, <1>2, MarksStay
<1>6. Fresh'
  BY <1>1, <1>3 DEF Fresh, Adds
<1>7. Exchanged'
  BY <1>1, <1>2, ExchangedStays
<1>8. Dangling' = Dangling
  BY <1>1, <1>2, DanglingStays
<1>9. Underway'
  <2>1. Answers' = {}
    BY <1>3 DEF Answers
  <2>2. \A n \in DOMAIN todo : \/ Has("message", todo[n])'
                               \/ n = 1 /\ Has("output", todo[n])' /\ made'[todo[n]].of \in Dangling'
    BY <1>1, <1>8 DEF Underway, Has
  <2> QED BY <1>1, <2>1, <2>2 DEF Underway
<1> QED BY <1>4, <1>5, <1>6, <1>7, <1>9 DEF IInv, LiveInv, BootInv

\* Disconnected: nothing is on its way any more.
LEMMA DisconnectKeeps ==
  ASSUME IInv, Disconnected
  PROVE  IInv'
<1>1. waiter \in {"none", "waiting", "acked", "failed"}
  BY DEF IInv, TypeOK
<1> QED BY <1>1, CutKeeps DEF Disconnected

\* AckTimeout: nor at the end of the session.
LEMMA TimeoutKeeps ==
  ASSUME IInv, AckTimeout
  PROVE  IInv'
BY CutKeeps DEF AckTimeout

\* Send: what is sent is what was queued.
LEMMA SendKeeps ==
  ASSUME IInv, Send
  PROVE  IInv'
<1>1. CASE Disconnected
  BY <1>1, DisconnectKeeps
<1>2. CASE ~Disconnected
  <2>1. /\ TypeOK /\ Marks /\ Fresh /\ Underway /\ Exchanged /\ Interrupted
        /\ link = "live" /\ outbound # None /\ sent' = outbound /\ outbound' = None
        /\ UNCHANGED <<made, ctx, invalid, unplayed, link, conns, replay, todo, waiter, events>>
        /\ UNCHANGED <<history, pendingCall>>
    BY <1>2 DEF IInv, LiveInv, Send, serviceVars
  <2>2. Lasting /\ Known' = Known
    BY <2>1, NothingMade
  <2>3. TypeOK'
    BY <2>1, <2>2 DEF TypeOK
  <2>4. Marks' /\ Exchanged'
    BY <2>1, <2>2, MarksStay, ExchangedStays
  <2>5. Fresh'
    BY <2>1, <2>2 DEF Fresh, Adds, Has
  <2>6. Dangling' = Dangling
    BY <2>1, <2>2, DanglingStays
  <2>7. Underway'
    <3>1. \A n \in DOMAIN todo : \/ Has("message", todo[n])'
                                 \/ n = 1 /\ Has("output", todo[n])' /\ made'[todo[n]].of \in Dangling'
      BY <2>1, <2>6 DEF Underway, Has
    <3>2. Answers' = Answers
      BY <2>1 DEF Answers
    <3> QED BY <2>1, <3>1, <3>2 DEF Underway
  <2>8. Interrupted'
    BY <2>1, <2>6 DEF Interrupted, Acked, OutputOf, Has, Calls, Speech
  <2> QED BY <2>1, <2>3, <2>4, <2>5, <2>7, <2>8 DEF IInv, LiveInv, BootInv
<1> QED BY <1>1, <1>2

\* BootBegins: the context can be replayed as it is.
LEMMA BootKeeps ==
  ASSUME IInv, BootBegins
  PROVE  IInv'
<1>1. /\ TypeOK /\ Marks /\ Fresh /\ Underway /\ Exchanged
      /\ link = "down" /\ conns < MaxConns /\ waiter \notin {"acked", "failed"}
      /\ link' = "boot" /\ conns' = conns + 1 /\ replay' = ctx
      /\ history' = <<>> /\ pendingCall' = None
      /\ UNCHANGED <<made, ctx, invalid, unplayed, todo, waiter, outbound, sent, events>>
  BY DEF IInv, BootBegins
<1>2. Lasting /\ Known' = Known
  BY <1>1, NothingMade
<1>3. TypeOK'
  <2>1. conns + 1 \in 0..MaxConns
    BY <1>1, ContextAssumption DEF TypeOK, ContextAssumption
  <2>2. history' \in Seq(Known)
    BY <1>1, EmptySeq
  <2> QED BY <1>1, <1>2, <2>1, <2>2 DEF TypeOK
<1>4. Marks' /\ Exchanged'
  BY <1>1, <1>2, MarksStay, ExchangedStays
<1>5. Fresh'
  BY <1>1, <1>2 DEF Fresh, Adds, Has
<1>6. Dangling' = Dangling /\ Dangling \subseteq ToSet(ctx)
  BY <1>1, <1>2, DanglingStays DEF Dangling
<1>7. Underway'
  <2>1. \A n \in DOMAIN todo : \/ Has("message", todo[n])'
                               \/ n = 1 /\ Has("output", todo[n])' /\ made'[todo[n]].of \in Dangling'
    BY <1>1, <1>6 DEF Underway, Has
  <2>2. events = <<>> /\ Answers' = Answers /\ sent = None
    BY <1>1 DEF Underway, Answers
  <2> QED BY <1>1, <2>1, <2>2 DEF Underway
<1>8. Continued'
  <2>1. /\ \A m, n \in DOMAIN replay' : m < n /\ Has("call", replay[m])' /\ Has("call", replay[n])'
             => \/ replay'[m] \in invalid' \/ replay'[n] \in invalid'
                \/ \E k \in DOMAIN replay' : m < k /\ k < n /\ OutputOf(replay[k], replay[m])'
        /\ \A k \in DOMAIN replay' : Has("output", replay[k])' =>
             \E m \in DOMAIN replay' : m < k /\ replay'[m] = made'[replay'[k]].of
        /\ \A m, n \in DOMAIN replay' :
             /\ Has("output", replay[m])' /\ Has("output", replay[n])'
             /\ made'[replay'[m]].of = made'[replay'[n]].of
             => m = n
    BY <1>1 DEF Exchanged, Has, OutputOf
  <2>2. \A c \in Dangling' \ invalid' : c \in ToSet(replay')
    BY <1>1, <1>6
  <2> QED BY <1>1, <2>1, <2>2 DEF Continued
<1> QED BY <1>1, <1>3, <1>4, <1>5, <1>7, <1>8 DEF IInv, LiveInv, BootInv

\* BootEnds: an open call that is not invalidated is pending.
LEMMA BootEndKeeps ==
  ASSUME IInv, BootEnds
  PROVE  IInv'
<1>1. /\ TypeOK /\ Marks /\ Fresh /\ Underway /\ Exchanged /\ Continued
      /\ link = "boot" /\ replay = <<>> /\ link' = "live"
      /\ UNCHANGED <<made, ctx, invalid, unplayed, conns, replay, todo, waiter, outbound, sent,
                     events, history, pendingCall>>
  BY DEF IInv, BootInv, BootEnds, serviceVars
<1>2. Lasting /\ Known' = Known
  BY <1>1, NothingMade
<1>3. TypeOK'
  BY <1>1, <1>2 DEF TypeOK
<1>4. Marks' /\ Exchanged'
  BY <1>1, <1>2, MarksStay, ExchangedStays
<1>5. Fresh'
  BY <1>1, <1>2 DEF Fresh, Adds, Has
<1>6. Dangling' = Dangling
  BY <1>1, <1>2, DanglingStays
<1>7. Underway'
  <2>1. \A n \in DOMAIN todo : \/ Has("message", todo[n])'
                               \/ n = 1 /\ Has("output", todo[n])' /\ made'[todo[n]].of \in Dangling'
    BY <1>1, <1>6 DEF Underway, Has
  <2>2. Answers' = Answers
    BY <1>1 DEF Answers
  <2> QED BY <1>1, <2>1, <2>2 DEF Underway
<1>8. Interrupted'
  <2>1. DOMAIN events' = {}
    BY <1>1 DEF Underway
  <2>2. ToSet(replay) = {}
    BY <1>1 DEF ToSet
  <2> QED BY <1>1, <1>6, <2>1, <2>2 DEF Interrupted, Continued, Calls
<1> QED BY <1>1, <1>3, <1>4, <1>5, <1>7, <1>8 DEF IInv, LiveInv, BootInv

\* The service takes the next item, unless the plugin skips it.
LEMMA Acceptable ==
  ASSUME IInv
  PROVE  ReplayAccepted
<1>1. SUFFICES ASSUME link = "boot", replay # <<>>, ~Skipped(Head(replay))
               PROVE  Accepts(Head(replay))
  BY DEF ReplayAccepted
<1>2. TypeOK /\ Marks /\ Continued
  BY <1>1 DEF IInv, BootInv
<1>3. /\ DOMAIN replay = 1..Len(replay) /\ Len(replay) \in Nat /\ 1 <= Len(replay)
      /\ Head(replay) = replay[1] /\ replay[1] \in Known
  BY <1>1, <1>2, Shorter DEF TypeOK
<1>4. 1 \in DOMAIN replay /\ \A m \in DOMAIN replay : ~(m < 1)
  BY <1>3
<1>5. CASE Has("call", replay[1])
  <2>1. replay[1] \notin invalid
    BY <1>1, <1>3, <1>5 DEF Skipped, CallOf, Has
  <2>2. pendingCall = None
    BY <1>2, <1>4, <1>5, <2>1 DEF Continued
  <2> QED BY <1>1, <1>3, <1>5, <2>2 DEF Accepts, Has
<1>6. CASE Has("output", replay[1])
  <2>1. made[replay[1]].of \notin invalid
    BY <1>1, <1>3, <1>6 DEF Skipped, CallOf
  <2>2. made[replay[1]].of = pendingCall
    BY <1>2, <1>4, <1>6, <2>1 DEF Continued
  <2>3. pendingCall # None
    <3>1. made[replay[1]].of \in Known /\ None \notin Known
      BY <1>2, <1>3, <1>6, Shapes DEF Marks, None
    <3> QED BY <2>2, <3>1
  <2> QED BY <1>3, <1>6, <2>2, <2>3 DEF Accepts, Has
<1>7. CASE ~Has("call", replay[1]) /\ ~Has("output", replay[1])
  BY <1>3, <1>7 DEF Accepts
<1> QED BY <1>5, <1>6, <1>7

\* ReplayItem: the rest continues what has been sent.
LEMMA ReplayKeeps ==
  ASSUME IInv, ReplayItem
  PROVE  IInv'
<1> DEFINE h == replay[1]
           p == pendingCall
<1>1. /\ TypeOK /\ Marks /\ Fresh /\ Underway /\ Exchanged /\ Continued
      /\ link = "boot" /\ replay # <<>> /\ replay' = Tail(replay)
      /\ UNCHANGED <<made, ctx, invalid, unplayed, link, conns, todo, waiter, outbound, sent, events>>
  BY DEF IInv, BootInv, ReplayItem
<1>2. /\ replay' \in Seq(Known) /\ DOMAIN replay' = 1..(Len(replay) - 1)
      /\ DOMAIN replay = 1..Len(replay) /\ Len(replay) \in Nat /\ 1 <= Len(replay)
      /\ \A n \in 1..(Len(replay) - 1) : replay'[n] = replay[n + 1]
      /\ Head(replay) = h /\ h \in Known
      /\ ToSet(replay) = {h} \cup ToSet(replay')
  BY <1>1, Shorter DEF TypeOK
<1>3. /\ \A n \in DOMAIN replay' : /\ n + 1 \in DOMAIN replay /\ replay'[n] = replay[n + 1]
                                   /\ n \in Nat /\ n >= 1
      /\ \A n \in DOMAIN replay : n # 1 => n - 1 \in DOMAIN replay' /\ replay'[n - 1] = replay[n]
      /\ \A n \in DOMAIN replay : n \in Nat /\ n >= 1
      /\ 1 \in DOMAIN replay
  BY <1>2
<1>4. Lasting /\ Known' = Known
  BY <1>1, NothingMade
<1>6. \/ (h \in unplayed \/ CallOf(h) \in invalid) /\ UNCHANGED <<history, pendingCall>>
      \/ h \notin unplayed /\ CallOf(h) \notin invalid /\ Accepts(h) /\ Take(h)
  BY <1>2 DEF ReplayItem, Skipped, serviceVars
<1>7. TypeOK'
  <2>1. history' \in Seq(Known) /\ pendingCall' \in {None} \cup Known
    BY <1>1, <1>2, <1>6, TakeType DEF TypeOK
  <2> QED BY <1>1, <1>2, <1>4, <2>1 DEF TypeOK
<1>8. Marks' /\ Exchanged'
  BY <1>1, <1>4, MarksStay, ExchangedStays
<1>9. Fresh'
  BY <1>1, <1>4 DEF Fresh, Adds, Has
<1>10. Dangling' = Dangling
  BY <1>1, <1>4, DanglingStays
<1>11. Underway'
  <2>1. \A n \in DOMAIN todo : \/ Has("message", todo[n])'
                               \/ n = 1 /\ Has("output", todo[n])' /\ made'[todo[n]].of \in Dangling'
    BY <1>1, <1>10 DEF Underway, Has
  <2>2. Answers' = Answers
    BY <1>1 DEF Answers
  <2> QED BY <1>1, <2>1, <2>2 DEF Underway
<1>12. /\ p \in {None} \cup Known /\ None \notin Known /\ ToSet(replay) \subseteq ToSet(ctx)
       /\ p # None => Has("call", p) /\ p \notin invalid
  BY <1>1, Shapes DEF TypeOK, Continued, None
<1>13. h \in ToSet(ctx)
  BY <1>2, <1>12
<1> HIDE DEF h, p

\* What becomes of the pending call.
<1>15. Has("call", h) /\ h \notin invalid => p = None /\ pendingCall' = h
  <2>1. ASSUME Has("call", h), h \notin invalid PROVE p = None /\ pendingCall' = h
    <3>1. h \notin unplayed /\ CallOf(h) = h
      BY <1>1, <2>1 DEF Marks, CallOf, Has
    <3>2. Accepts(h) /\ Take(h)
      BY <1>6, <2>1, <3>1
    <3> QED BY <2>1, <3>2 DEF Accepts, Take, Has, p
  <2> QED BY <2>1
<1>16. p # None /\ OutputOf(h, p) => pendingCall' = None
  <2>1. ASSUME p # None, OutputOf(h, p) PROVE pendingCall' = None
    <3>1. h \notin unplayed /\ CallOf(h) = p /\ ~Has("call", h)
      BY <1>1, <2>1 DEF Marks, CallOf, OutputOf, Has
    <3>2. Take(h)
      BY <1>6, <1>12, <2>1, <3>1
    <3> QED BY <2>1, <3>1, <3>2 DEF Take, OutputOf
  <2> QED BY <2>1
<1>17. (~Has("call", h) \/ h \in invalid) /\ ~(p # None /\ OutputOf(h, p)) => pendingCall' = p
  <2>1. ASSUME ~Has("call", h) \/ h \in invalid, ~(p # None /\ OutputOf(h, p)) PROVE pendingCall' = p
    <3>1. CASE UNCHANGED <<history, pendingCall>>
      BY <3>1 DEF p
    <3>2. CASE h \notin unplayed /\ CallOf(h) \notin invalid /\ Accepts(h) /\ Take(h)
      <4>1. ~Has("call", h)
        BY <2>1, <3>2 DEF CallOf, Has
      <4>2. ~Has("output", h)
        BY <2>1, <3>2, <4>1 DEF Accepts, OutputOf, p
      <4> QED BY <3>2, <4>1, <4>2 DEF Take, p
    <3> QED BY <1>6, <3>1, <3>2
  <2> QED BY <2>1
<1>18. pendingCall' \in {None, p, h} /\ (pendingCall' = None \/ pendingCall' = p
         \/ (Has("call", h) /\ h \notin invalid /\ pendingCall' = h))
  BY <1>15, <1>16, <1>17

\* What is still to be sent.
<1>19. \A m, n \in DOMAIN replay' : m < n /\ Has("call", replay[m])' /\ Has("call", replay[n])'
         => \/ replay'[m] \in invalid \/ replay'[n] \in invalid
            \/ \E k \in DOMAIN replay' : m < k /\ k < n /\ OutputOf(replay[k], replay[m])'
  <2>1. SUFFICES ASSUME NEW m \in DOMAIN replay', NEW n \in DOMAIN replay', m < n,
                        Has("call", replay[m])', Has("call", replay[n])',
                        replay'[m] \notin invalid, replay'[n] \notin invalid
                 PROVE  \E k \in DOMAIN replay' : m < k /\ k < n /\ OutputOf(replay[k], replay[m])'
    OBVIOUS
  <2>2. /\ m + 1 \in DOMAIN replay /\ n + 1 \in DOMAIN replay /\ m + 1 < n + 1
        /\ replay'[m] = replay[m + 1] /\ replay'[n] = replay[n + 1]
    BY <1>3, <2>1
  <2>3. Has("call", replay[m + 1]) /\ Has("call", replay[n + 1])
    BY <1>1, <2>1, <2>2 DEF Has
  <2>4. PICK k \in DOMAIN replay : m + 1 < k /\ k < n + 1 /\ OutputOf(replay[k], replay[m + 1])
    BY <1>1, <2>1, <2>2, <2>3 DEF Continued
  <2>5. k # 1 /\ m < k - 1 /\ k - 1 < n
    BY <1>3, <2>4
  <2>6. replay'[k - 1] = replay[k] /\ k - 1 \in DOMAIN replay'
    BY <1>3, <2>5
  <2> QED BY <1>1, <2>2, <2>4, <2>5, <2>6 DEF OutputOf, Has
<1>20. ASSUME pendingCall' # None, NEW n \in DOMAIN replay', Has("call", replay[n])'
       PROVE  \/ replay'[n] \in invalid
              \/ \E k \in DOMAIN replay' : k < n /\ OutputOf(replay[k], pendingCall)'
  <2>1. Has("call", replay[n + 1]) /\ n + 1 \in DOMAIN replay /\ replay'[n] = replay[n + 1]
    BY <1>1, <1>3, <1>20 DEF Has
  <2>2. SUFFICES ASSUME replay[n + 1] \notin invalid
                 PROVE  \E k \in DOMAIN replay' : k < n /\ OutputOf(replay[k], pendingCall)'
    BY <2>1
  <2>3. CASE pendingCall' = p
    <3>1. PICK k \in DOMAIN replay : k < n + 1 /\ OutputOf(replay[k], p)
      BY <1>1, <1>20, <2>1, <2>2, <2>3 DEF Continued, p
    <3>2. k # 1
      BY <1>16, <1>20, <2>3, <3>1 DEF h
    <3>3. k - 1 \in DOMAIN replay' /\ replay'[k - 1] = replay[k] /\ k - 1 < n
      BY <1>3, <3>1, <3>2
    <3> QED BY <1>1, <2>3, <3>1, <3>3 DEF OutputOf, Has
  <2>4. CASE Has("call", h) /\ h \notin invalid /\ pendingCall' = h
    <3>1. 1 < n + 1 /\ replay[1] = h
      BY <1>3 DEF h
    <3>2. PICK k \in DOMAIN replay : 1 < k /\ k < n + 1 /\ OutputOf(replay[k], h)
      BY <1>1, <1>3, <2>1, <2>2, <2>4, <3>1 DEF Continued
    <3>3. k - 1 \in DOMAIN replay' /\ replay'[k - 1] = replay[k] /\ k - 1 < n
      BY <1>3, <3>2
    <3> QED BY <1>1, <2>4, <3>2, <3>3 DEF OutputOf, Has
  <2> QED BY <1>18, <1>20, <2>3, <2>4
<1>21. ASSUME NEW k \in DOMAIN replay', Has("output", replay[k])'
       PROVE  \/ made'[replay'[k]].of \in invalid \cup {pendingCall'}
              \/ \E m \in DOMAIN replay' : m < k /\ replay'[m] = made'[replay'[k]].of
  <2> DEFINE c == made[replay[k + 1]].of
  <2>1. /\ Has("output", replay[k + 1]) /\ k + 1 \in DOMAIN replay /\ replay'[k] = replay[k + 1]
        /\ made'[replay'[k]].of = c
    BY <1>1, <1>3, <1>21 DEF Has
  <2>2. c \in Known /\ Has("call", c) /\ c # None
    <3>1. replay[k + 1] \in Known
      BY <1>1, <2>1, Shapes
    <3> QED BY <1>1, <1>12, <2>1, <3>1 DEF Marks
  <2>3. \/ c \in invalid \/ c = p
        \/ \E m \in DOMAIN replay : m < k + 1 /\ replay[m] = c
    BY <1>1, <2>1 DEF Continued, p
  <2> HIDE DEF c
  <2>4. CASE c \in invalid
    BY <2>1, <2>4
  <2>5. CASE c = p
    <3>1. ~OutputOf(h, p)
      <4>1. ~(Has("output", replay[1]) /\ made[replay[1]].of = c)
        <5>1. k + 1 # 1
          BY <1>3
        <5> QED BY <1>1, <1>3, <2>1, <5>1 DEF Continued, c
      <4> QED BY <2>5, <4>1 DEF OutputOf, h
    <3>2. pendingCall' = p
      BY <1>15, <1>17, <2>2, <2>5, <3>1
    <3> QED BY <2>1, <2>5, <3>2
  <2>6. CASE c \notin invalid /\ \E m \in DOMAIN replay : m < k + 1 /\ replay[m] = c
    <3>1. PICK m \in DOMAIN replay : m < k + 1 /\ replay[m] = c
      BY <2>6
    <3>2. CASE m = 1
      <4>1. pendingCall' = c
        BY <1>15, <2>2, <2>6, <3>1, <3>2 DEF h
      <4> QED BY <2>1, <4>1
    <3>3. CASE m # 1
      <4>1. m - 1 \in DOMAIN replay' /\ replay'[m - 1] = c /\ m - 1 < k
        BY <1>3, <3>1, <3>3
      <4> QED BY <2>1, <4>1
    <3> QED BY <3>2, <3>3
  <2> QED BY <2>3, <2>4, <2>5, <2>6
<1>22. \A m, n \in DOMAIN replay' :
         /\ Has("output", replay[m])' /\ Has("output", replay[n])'
         /\ made'[replay'[m]].of = made'[replay'[n]].of
         => m = n
  <2>1. SUFFICES ASSUME NEW m \in DOMAIN replay', NEW n \in DOMAIN replay',
                        Has("output", replay[m + 1]), Has("output", replay[n + 1]),
                        made[replay[m + 1]].of = made[replay[n + 1]].of
                 PROVE  m = n
    BY <1>1, <1>3 DEF Has
  <2>2. m + 1 = n + 1
    BY <1>1, <1>3, <2>1 DEF Continued
  <2> QED BY <1>3, <2>2
<1>23. ASSUME NEW c \in Dangling \ invalid
       PROVE  c = pendingCall' \/ c \in ToSet(replay')
  <2>1. Has("call", c) /\ ~Answered(c) /\ c \in Known
    BY <1>1, Shapes DEF Dangling
  <2>2. c = p \/ c = h \/ c \in ToSet(replay')
    BY <1>1, <1>2, <1>23 DEF Continued, p, h
  <2>3. CASE c = p
    <3>1. ~OutputOf(h, p)
      BY <1>13, <2>1, <2>3 DEF Answered, OutputOf
    <3> QED BY <1>12, <1>15, <1>17, <2>1, <2>3, <3>1
  <2>4. CASE c = h
    BY <1>15, <1>23, <2>1, <2>4
  <2> QED BY <2>2, <2>3, <2>4
<1>24. pendingCall' # None => Has("call", pendingCall)' /\ pendingCall' \notin invalid
  BY <1>1, <1>12, <1>18 DEF Has
<1>25. ToSet(replay') \subseteq ToSet(ctx') /\ waiter' # "acked"
  BY <1>1, <1>2, <1>12 DEF Continued
<1>26. Continued'
  BY <1>1, <1>10, <1>19, <1>20, <1>21, <1>22, <1>23, <1>24, <1>25 DEF Continued
<1> QED BY <1>1, <1>7, <1>8, <1>9, <1>11, <1>26 DEF IInv, LiveInv, BootInv

\* Resume: the confirmed item comes to the context, the next one is queued.
LEMMA ResumeKeeps ==
  ASSUME IInv, Resume
  PROVE  IInv'
<1> DEFINE i == todo[1]
<1>1. /\ TypeOK /\ Marks /\ Fresh /\ Underway /\ Exchanged
      /\ waiter \in {"acked", "failed"} /\ ctx' = Grown(waiter = "acked")
      /\ UNCHANGED <<made, invalid, unplayed, link, conns, replay, sent, events, history, pendingCall>>
  BY DEF IInv, Resume, serviceVars
<1>2. /\ todo # <<>> /\ outbound = None /\ sent = None /\ Answers = {}
  BY <1>1 DEF Underway, Answers
<1>3. /\ Tail(todo) \in Seq(Known) /\ Len(Tail(todo)) = Len(todo) - 1
      /\ DOMAIN Tail(todo) = 1..(Len(todo) - 1) /\ DOMAIN todo = 1..Len(todo)
      /\ Len(todo) \in Nat /\ 1 <= Len(todo)
      /\ \A n \in 1..(Len(todo) - 1) : Tail(todo)[n] = todo[n + 1]
      /\ Head(todo) = i /\ i \in Known
      /\ ToSet(todo) = {i} \cup ToSet(Tail(todo))
  BY <1>1, <1>2, Shorter DEF TypeOK
<1>4. 1 \in DOMAIN todo /\ \A n \in 1..(Len(todo) - 1) : n + 1 \in DOMAIN todo /\ n + 1 # 1
  BY <1>3
<1>5. i \in Known /\ i \notin ToSet(ctx)
  BY <1>1, <1>3, <1>4 DEF Fresh
<1>6. Has("message", i) \/ (Has("output", i) /\ made[i].of \in Dangling)
  BY <1>1, <1>4 DEF Underway
<1>7. Lasting /\ Known' = Known
  BY <1>1, NothingMade
<1>8. \/ /\ waiter = "acked" /\ Len(todo) > 1
         /\ todo' = Tail(todo) /\ waiter' = "waiting" /\ outbound' = todo[2]
      \/ todo' = <<>> /\ waiter' = "none" /\ outbound' = None
  BY <1>2 DEF Resume
<1>9. \/ waiter = "acked" /\ ctx' = Append(ctx, i)
      \/ waiter = "failed" /\ ctx' = ctx
  BY <1>1, <1>3 DEF Grown
<1>10. \/ ctx' = ctx
       \/ ctx' = Append(ctx, i)
  BY <1>9
<1>11. /\ todo' \in Seq(Known) /\ ToSet(todo') \subseteq ToSet(todo)
       /\ \A n \in DOMAIN todo' : /\ n + 1 \in DOMAIN todo /\ n + 1 # 1 /\ todo'[n] = todo[n + 1]
                                  /\ n \in Nat
       /\ outbound' \in {None} \cup Known
  <2>1. CASE todo' = Tail(todo) /\ outbound' = todo[2] /\ Len(todo) > 1
    <3>1. 2 \in DOMAIN todo /\ todo[2] \in Known
      BY <1>1, <1>3, <2>1, Shapes
    <3> QED BY <1>3, <1>4, <2>1, <3>1
  <2>2. CASE todo' = <<>> /\ outbound' = None
    BY <2>2, EmptySeq DEF ToSet
  <2> QED BY <1>8, <2>1, <2>2
<1> HIDE DEF i
<1>12. ctx' \in Seq(Known) /\ IsInjective(ctx') /\ ToSet(ctx') \subseteq ToSet(ctx) \cup {i}
       /\ ToSet(ctx) \subseteq ToSet(ctx')
  <2>1. ctx \in Seq(Known) /\ IsInjective(ctx)
    BY <1>1 DEF TypeOK
  <2>2. /\ Append(ctx, i) \in Seq(Known) /\ ToSet(Append(ctx, i)) = ToSet(ctx) \cup {i}
        /\ IsInjective(Append(ctx, i))
    BY <1>5, <2>1, Longer, InjectiveAppended
  <2> QED BY <1>10, <2>1, <2>2
<1>13. TypeOK'
  BY <1>1, <1>7, <1>8, <1>11, <1>12 DEF TypeOK
<1>14. Marks'
  BY <1>1, <1>7, <1>12 DEF Marks, Has
<1>15. Fresh'
  <2>1. \A n \in DOMAIN todo' : todo'[n] \notin ToSet(ctx')
    BY <1>1, <1>4, <1>11, <1>12 DEF Fresh, i
  <2>2. \A m, n \in DOMAIN todo' : todo'[m] = todo'[n] => m = n
    BY <1>1, <1>11 DEF Fresh
  <2>3. i \in ToSet(todo)
    BY <1>4 DEF ToSet, i
  <2>4. \A n \in Adds : /\ events[n].of \in Known
                        /\ events[n].of \notin ToSet(ctx')
                        /\ events[n].of \notin ToSet(todo')
    BY <1>1, <1>11, <1>12, <2>3 DEF Fresh
  <2>5. Adds' = Adds
    BY <1>1 DEF Adds
  <2> QED BY <1>1, <1>7, <2>1, <2>2, <2>4, <2>5 DEF Fresh, Has
<1>16. Exchanged'
  <2>1. CASE ctx' = ctx
    BY <1>1, <1>7, <2>1, ExchangedStays
  <2>2. CASE ctx' = Append(ctx, i)
    BY <1>1, <1>5, <1>6, <2>2, ExchangedAppended DEF Has
  <2> QED BY <1>10, <2>1, <2>2
<1>17. /\ Dangling' \subseteq Dangling
       /\ ctx' = Append(ctx, i) => \A c \in Dangling' : ~OutputOf(i, c)
  <2>1. CASE ctx' = ctx
    <3>1. i \notin ToSet(ctx)
      BY <1>5
    <3>2. Dangling' = Dangling
      BY <1>1, <1>7, <2>1, DanglingStays
    <3>3. ctx' # Append(ctx, i)
      BY <1>1, <1>5, <2>1, Longer DEF TypeOK
    <3> QED BY <3>2, <3>3
  <2>2. CASE ctx' = Append(ctx, i) /\ Has("output", i)
    BY <1>1, <1>5, <2>2, DanglingOutput DEF OutputOf
  <2>3. CASE ctx' = Append(ctx, i) /\ ~Has("output", i)
    BY <1>1, <1>5, <1>6, <2>3, DanglingAppended DEF OutputOf, Has
  <2> QED BY <1>10, <2>1, <2>2, <2>3
<1>18. Underway'
  <2>1. \A n \in DOMAIN todo' : made'[todo'[n]].kind = "message"
    BY <1>1, <1>11 DEF Underway, Has
  <2>2. todo' = <<>> <=> waiter' = "none"
    BY <1>3, <1>8, EmptySeq
  <2>3. Answers' = {}
    BY <1>1, <1>2 DEF Answers
  <2>4. outbound' # None => waiter' = "waiting" /\ outbound' = todo'[1]
    BY <1>3, <1>8
  <2>5. sent' = None /\ (events' # <<>> => link' = "live")
    BY <1>1, <1>2 DEF Underway
  <2> QED BY <2>1, <2>2, <2>3, <2>4, <2>5 DEF Underway, Has
<1>19. ASSUME link = "live" PROVE Interrupted'
  <2>1. Interrupted
    BY <1>19 DEF IInv, LiveInv
  <2>2. \A c \in Dangling' : ~Acked(c)
    <3>1. \A n \in DOMAIN events : events[n].kind # "ack"
      BY <1>2 DEF Answers
    <3> QED BY <1>9, <1>17, <3>1 DEF Acked, i
  <2>3. Calls' = Calls /\ \A n \in DOMAIN events : Speech(n)' <=> Speech(n)
    BY <1>1 DEF Calls, Speech
  <2>4. \A c \in Dangling' \ invalid : c = pendingCall \/ \E n \in DOMAIN events : Speech(n)
    BY <1>17, <2>1, <2>2 DEF Interrupted
  <2> QED BY <1>1, <1>17, <2>1, <2>3, <2>4 DEF Interrupted
<1>20. ASSUME link = "boot" PROVE Continued'
  <2>1. Continued
    BY <1>20 DEF IInv, BootInv
  <2>2. waiter = "failed"
    BY <1>1, <2>1 DEF Continued
  <2>3. ctx' = ctx /\ waiter' = "none"
    BY <1>8, <1>9, <2>2
  <2> QED BY <1>1, <1>17, <2>1, <2>3 DEF Continued, Has, OutputOf
<1> QED BY <1>1, <1>13, <1>14, <1>15, <1>16, <1>18, <1>19, <1>20 DEF IInv, LiveInv, BootInv

\* A sequence is appended.
LEMMA Joined ==
  ASSUME NEW S, NEW s \in Seq(S), NEW t \in Seq(S)
  PROVE  /\ s \o t \in Seq(S) /\ Len(s \o t) = Len(s) + Len(t)
         /\ DOMAIN (s \o t) = 1..(Len(s) + Len(t))
         /\ DOMAIN s = 1..Len(s) /\ DOMAIN t = 1..Len(t) /\ Len(s) \in Nat /\ Len(t) \in Nat
         /\ \A n \in 1..Len(s) : (s \o t)[n] = s[n]
         /\ \A n \in 1..Len(t) : (s \o t)[Len(s) + n] = t[n]
<1>1. /\ s \o t \in Seq(S) /\ Len(s \o t) = Len(s) + Len(t)
      /\ \A n \in 1..(Len(s) + Len(t)) :
           (s \o t)[n] = IF n <= Len(s) THEN s[n] ELSE t[n - Len(s)]
  BY ConcatProperties, Zenon
<1>2. DOMAIN s = 1..Len(s) /\ DOMAIN t = 1..Len(t) /\ Len(s) \in Nat /\ Len(t) \in Nat
  BY LenProperties
<1> DEFINE u == s \o t
<1>3. u \in Seq(S) /\ Len(u) = Len(s) + Len(t)
  BY <1>1
<1> HIDE DEF u
<1>4. DOMAIN u = 1..(Len(s) + Len(t))
  BY <1>3, LenProperties
<1>5. \A n \in 1..(Len(s) + Len(t)) : u[n] = IF n <= Len(s) THEN s[n] ELSE t[n - Len(s)]
  BY <1>1 DEF u
<1>6. \A n \in 1..Len(s) : u[n] = s[n]
  BY <1>2, <1>5
<1>7. ASSUME NEW n \in 1..Len(t) PROVE u[Len(s) + n] = t[n]
  <2>1. Len(s) + n \in 1..(Len(s) + Len(t)) /\ ~(Len(s) + n <= Len(s)) /\ (Len(s) + n) - Len(s) = n
    BY <1>2
  <2> QED BY <1>5, <2>1
<1> QED BY <1>2, <1>3, <1>4, <1>6, <1>7 DEF u

\* What an update adds: a message, the output of an open call, or both.
LEMMA Batch ==
  ASSUME TypeOK, Marks, NEW batch \in Additions
  PROVE  /\ batch \in Seq([kind : Kinds, of : 0..MaxItems])
         /\ Len(batch) \in {1, 2}
         /\ \/ batch[1].kind = "message" /\ batch[1].of = None
            \/ batch[1].kind = "output" /\ batch[1].of \in Dangling
         /\ Len(batch) = 2 => batch[2].kind = "message" /\ batch[2].of = None
<1> DEFINE T == [kind : Kinds, of : 0..MaxItems]
           message == [kind |-> "message", of |-> None]
           output(c) == [kind |-> "output", of |-> c]
<1>1. /\ message \in T /\ message.kind = "message" /\ message.of = None
      /\ \A c \in Dangling : output(c) \in T /\ output(c).kind = "output" /\ output(c).of = c
  <2>1. Dangling \subseteq 0..MaxItems
    <3>1. Dangling \subseteq Known /\ Len(made) \in Nat /\ Len(made) <= MaxItems
      BY Shapes DEF Dangling, TypeOK
    <3> QED BY <3>1, ContextAssumption DEF ContextAssumption, Known
  <2>2. 0 \in 0..MaxItems
    BY ContextAssumption DEF ContextAssumption
  <2> QED BY <2>1, <2>2 DEF Kinds, None
<1>2. \/ batch = <<message>>
      \/ \E c \in Dangling : batch = <<output(c)>> \/ batch = <<output(c), message>>
  BY DEF Additions
<1> HIDE DEF T, message
<1>3. CASE batch = <<message>>
  BY <1>1, <1>3 DEF T
<1>4. ASSUME NEW c \in Dangling, batch = <<output(c)>> \/ batch = <<output(c), message>>
      PROVE  /\ batch \in Seq(T) /\ Len(batch) \in {1, 2} /\ batch[1] = output(c)
             /\ Len(batch) = 2 => batch[2] = message
  <2> DEFINE r == output(c)
  <2>1. r \in T /\ message \in T
    BY <1>1
  <2>2. batch = <<r>> \/ batch = <<r, message>>
    BY <1>4
  <2> HIDE DEF r
  <2>3. CASE batch = <<r>>
    BY <2>1, <2>3 DEF r
  <2>4. CASE batch = <<r, message>>
    BY <2>1, <2>4 DEF r
  <2> QED BY <2>2, <2>3, <2>4
<1>5. CASE \E c \in Dangling : batch = <<output(c)>> \/ batch = <<output(c), message>>
  <2>1. PICK c \in Dangling : batch = <<output(c)>> \/ batch = <<output(c), message>>
    BY <1>5
  <2>2. /\ batch \in Seq(T) /\ Len(batch) \in {1, 2} /\ batch[1] = output(c)
        /\ Len(batch) = 2 => batch[2] = message
    BY <1>4, <2>1
  <2>3. output(c).kind = "output" /\ output(c).of = c
    BY <1>1
  <2> HIDE DEF output
  <2> QED BY <1>1, <2>2, <2>3 DEF T
<1> QED BY <1>2, <1>3, <1>5

\* Update, of either kind: what it makes.
LEMMA UpdateMakes ==
  ASSUME IInv, Update
  PROVE  \E new :
         /\ made' \in Seq([kind : Kinds, of : 0..MaxItems]) /\ Len(made') <= MaxItems
         /\ Lasting /\ new \in Seq(Known') /\ new # <<>>
         /\ DOMAIN new = 1..Len(new) /\ Len(new) \in {1, 2}
         /\ \A m, n \in DOMAIN new : new[m] = new[n] => m = n
         /\ \A n \in DOMAIN new : new[n] \notin Known /\ new[n] \in Known'
         /\ Known' = Known \cup ToSet(new)
         /\ \/ made'[new[1]].kind = "message" /\ made'[new[1]].of = None
            \/ made'[new[1]].kind = "output" /\ made'[new[1]].of \in Dangling
         /\ Len(new) = 2 => made'[new[2]].kind = "message" /\ made'[new[2]].of = None
         /\ IF link = "live"
              THEN /\ todo' = new /\ waiter' = "waiting" /\ outbound' = Head(new)
                   /\ UNCHANGED ctx
              ELSE ctx' = ctx \o new /\ UNCHANGED <<todo, waiter, outbound>>
<1> DEFINE T == [kind : Kinds, of : 0..MaxItems]
<1> PICK batch \in Additions :
      /\ Len(made) + Len(batch) <= MaxItems /\ made' = made \o batch
      /\ LET new == [n \in DOMAIN batch |-> Len(made) + n] IN
         IF link = "live"
           THEN /\ todo' = new /\ waiter' = "waiting" /\ outbound' = Head(new)
                /\ UNCHANGED ctx
           ELSE ctx' = ctx \o new /\ UNCHANGED <<todo, waiter, outbound>>
  BY DEF Update
<1> PICK new :
      /\ new = [n \in DOMAIN batch |-> Len(made) + n]
      /\ IF link = "live"
           THEN /\ todo' = new /\ waiter' = "waiting" /\ outbound' = Head(new)
                /\ UNCHANGED ctx
           ELSE ctx' = ctx \o new /\ UNCHANGED <<todo, waiter, outbound>>
  OBVIOUS
<1>1. TypeOK /\ Marks
  BY DEF IInv
<1>2. /\ batch \in Seq(T)
      /\ Len(batch) \in {1, 2}
      /\ \/ batch[1].kind = "message" /\ batch[1].of = None
         \/ batch[1].kind = "output" /\ batch[1].of \in Dangling
      /\ Len(batch) = 2 => batch[2].kind = "message" /\ batch[2].of = None
  BY <1>1, Batch
<1>3. made \in Seq(T)
  BY <1>1 DEF TypeOK
<1> HIDE DEF T
<1>4. /\ made' \in Seq(T) /\ Len(made') = Len(made) + Len(batch)
      /\ DOMAIN made = 1..Len(made) /\ DOMAIN batch = 1..Len(batch)
      /\ Len(made) \in Nat /\ Len(batch) \in Nat
      /\ \A n \in 1..Len(made) : made'[n] = made[n]
      /\ \A n \in 1..Len(batch) : made'[Len(made) + n] = batch[n]
  BY <1>2, <1>3, Joined
<1>5. Known' = 1..(Len(made) + Len(batch)) /\ Known = 1..Len(made)
  BY <1>4 DEF Known
<1>6. Lasting
  BY <1>4, <1>5 DEF Lasting
<1>7. /\ DOMAIN new = 1..Len(batch)
      /\ \A n \in DOMAIN new : new[n] = Len(made) + n /\ n \in Nat
      /\ \A n \in DOMAIN new : made'[new[n]] = batch[n]
  BY <1>4
<1>8. \A n \in DOMAIN new : new[n] \notin Known /\ new[n] \in Known'
  BY <1>4, <1>5, <1>7
<1>9. new \in Seq(Known') /\ Len(new) = Len(batch)
  <2>1. new \in [1..Len(batch) -> Known']
    BY <1>4, <1>7, <1>8
  <2>2. new \in Seq(Known')
    BY <1>4, <2>1
  <2> QED BY <1>4, <1>7, <2>2, LenProperties
<1>10. \A m, n \in DOMAIN new : new[m] = new[n] => m = n
  BY <1>4, <1>7
<1>11. 1 \in DOMAIN new /\ (Len(new) = 2 => 2 \in DOMAIN new)
  BY <1>2, <1>7, <1>9
<1>12. Known' = Known \cup ToSet(new)
  <2>1. \A j \in Known' : j \in Known \/ (j - Len(made) \in DOMAIN new /\ new[j - Len(made)] = j)
    BY <1>4, <1>5, <1>7
  <2>2. \A j \in Known' : j \in Known \/ j \in ToSet(new)
    BY <2>1 DEF ToSet
  <2> QED BY <1>6, <1>8, <2>2 DEF ToSet, Lasting
<1>13. new # <<>>
  BY <1>11
<1>14. /\ \/ made'[new[1]].kind = "message" /\ made'[new[1]].of = None
          \/ made'[new[1]].kind = "output" /\ made'[new[1]].of \in Dangling
       /\ Len(new) = 2 => made'[new[2]].kind = "message" /\ made'[new[2]].of = None
  BY <1>2, <1>7, <1>9, <1>11
<1>15. Len(made') <= MaxItems /\ DOMAIN new = 1..Len(new) /\ Len(new) \in {1, 2}
  BY <1>2, <1>4, <1>7, <1>9
<1>16. IF link = "live"
         THEN /\ todo' = new /\ waiter' = "waiting" /\ outbound' = Head(new)
              /\ UNCHANGED ctx
         ELSE ctx' = ctx \o new /\ UNCHANGED <<todo, waiter, outbound>>
  OBVIOUS
<1>17. made' \in Seq([kind : Kinds, of : 0..MaxItems])
  BY <1>4 DEF T
<1> QED BY <1>6, <1>8, <1>9, <1>10, <1>12, <1>13, <1>14, <1>15, <1>16, <1>17, Zenon

\* Update: the marks keep their meaning.
LEMMA UpdateMarks ==
  ASSUME IInv, Lasting, UNCHANGED <<invalid, unplayed>>, ToSet(ctx) \subseteq ToSet(ctx'),
         NEW new, DOMAIN new = 1..Len(new), Len(new) \in {1, 2},
         Known' = Known \cup ToSet(new),
         \/ made'[new[1]].kind = "message" /\ made'[new[1]].of = None
         \/ made'[new[1]].kind = "output" /\ made'[new[1]].of \in Dangling,
         Len(new) = 2 => made'[new[2]].kind = "message" /\ made'[new[2]].of = None
  PROVE  Marks'
<1>1. TypeOK /\ Marks /\ invalid \subseteq Known /\ unplayed \subseteq Known
  BY DEF IInv, TypeOK
<1>2. \A c \in Dangling : c \in Known /\ Has("call", c)
  BY <1>1, Shapes DEF Dangling
<1>3. \A i \in Known : i \in Known' /\ made'[i] = made[i]
  BY DEF Lasting
<1>4. \A i \in Known' : i \in Known \/ i = new[1] \/ (Len(new) = 2 /\ i = new[2])
  BY DEF ToSet
<1>5. \A i \in Known' : made'[i].kind = "output" =>
        made'[i].of \in Known /\ made'[made'[i].of].kind = "call"
  <2>1. ASSUME NEW i \in Known, made'[i].kind = "output"
        PROVE  made'[i].of \in Known /\ made'[made'[i].of].kind = "call"
    BY <1>1, <1>3, <2>1 DEF Marks, Has
  <2>2. made'[new[1]].kind = "output" =>
          made'[new[1]].of \in Known /\ made'[made'[new[1]].of].kind = "call"
    BY <1>2, <1>3 DEF Has
  <2> QED BY <1>4, <2>1, <2>2
<1>6. \A i \in Known' : made'[i].kind # "output" => made'[i].of = None
  <2>1. \A i \in Known : made'[i].kind # "output" => made'[i].of = None
    BY <1>1, <1>3 DEF Marks, Has
  <2> QED BY <1>4, <2>1
<1>7. \A c \in invalid : c \in ToSet(ctx') /\ made'[c].kind = "call"
  BY <1>1, <1>3 DEF Marks, Has
<1>8. \A i \in unplayed : i \in ToSet(ctx') /\ made'[i].kind = "message"
  BY <1>1, <1>3 DEF Marks, Has
<1> QED BY <1>3, <1>5, <1>6, <1>7, <1>8 DEF Marks, Has

\* Update, connected: the additions wait for their acknowledgements.
LEMMA UpdateLiveKeeps ==
  ASSUME IInv, Update, link = "live"
  PROVE  IInv'
<1>1. PICK new :
         /\ made' \in Seq([kind : Kinds, of : 0..MaxItems]) /\ Len(made') <= MaxItems
         /\ Lasting /\ new \in Seq(Known') /\ new # <<>>
         /\ DOMAIN new = 1..Len(new) /\ Len(new) \in {1, 2}
         /\ \A m, n \in DOMAIN new : new[m] = new[n] => m = n
         /\ \A n \in DOMAIN new : new[n] \notin Known /\ new[n] \in Known'
         /\ Known' = Known \cup ToSet(new)
         /\ \/ made'[new[1]].kind = "message" /\ made'[new[1]].of = None
            \/ made'[new[1]].kind = "output" /\ made'[new[1]].of \in Dangling
         /\ Len(new) = 2 => made'[new[2]].kind = "message" /\ made'[new[2]].of = None
         /\ todo' = new /\ waiter' = "waiting" /\ outbound' = Head(new)
         /\ UNCHANGED ctx
  BY UpdateMakes
<1>2. /\ TypeOK /\ Marks /\ Fresh /\ Underway /\ Exchanged /\ Interrupted
      /\ todo = <<>>
      /\ UNCHANGED <<invalid, unplayed, link, conns, replay, sent, events, history, pendingCall>>
  BY DEF IInv, LiveInv, Update, serviceVars
<1>5. Head(new) = new[1] /\ new[1] \in Known'
  BY <1>1, Shorter
<1>6. Known \subseteq Known' /\ ToSet(ctx) \subseteq Known /\ ToSet(new) \cap Known = {}
  BY <1>2, <1>1, Shapes DEF Lasting, ToSet
<1>7. /\ waiter = "none" /\ outbound = None /\ sent = None /\ Answers = {}
  BY <1>2 DEF Underway, Answers
<1>8. TypeOK'
  <2>1. ctx \in Seq(Known') /\ replay \in Seq(Known') /\ history \in Seq(Known')
    BY <1>2, <1>6, SeqMonotonic DEF TypeOK
  <2> QED BY <1>1, <1>2, <1>5, <1>6, <2>1 DEF TypeOK
<1>9. Marks'
  <2>1. ToSet(ctx) \subseteq ToSet(ctx')
    BY <1>1
  <2> QED BY <1>2, <1>1, <2>1, UpdateMarks
<1>10. Exchanged'
  BY <1>1, <1>2, ExchangedStays
<1>11. Dangling' = Dangling
  BY <1>1, <1>2, DanglingStays
<1>12. Fresh'
  <2>1. Adds' = Adds /\ \A n \in Adds : events'[n] = events[n] /\ events[n].of \in Known
    BY <1>2 DEF Adds, Fresh
  <2>2. \A n \in Adds : made'[events[n].of] = made[events[n].of]
    BY <1>1, <2>1 DEF Lasting
  <2>3. \A n \in Adds : /\ events[n].of \in Known'
                        /\ events[n].of \notin ToSet(ctx')
                        /\ events[n].of \notin ToSet(todo')
    BY <1>1, <1>2, <1>6, <2>1 DEF Fresh
  <2>4. \A n \in DOMAIN todo' : todo'[n] \notin ToSet(ctx')
    BY <1>1, <1>6
  <2>5. \A n \in Adds : /\ IF events[n].kind = "call" THEN made'[events[n].of].kind = "call"
                           ELSE made'[events[n].of].kind \notin {"call", "output"}
                        /\ events[n].kind = "filler" => made'[events[n].of].kind = "message"
    BY <1>2, <2>2 DEF Fresh, Has
  <2>6. \A m, n \in Adds : events[m].of = events[n].of => m = n
    BY <1>2 DEF Fresh
  <2> QED BY <1>2, <1>1, <2>1, <2>3, <2>4, <2>5, <2>6 DEF Fresh, Has
<1>13. Underway'
  <2>1. Answers' = {}
    BY <1>2, <1>7 DEF Answers
  <2>2. \A n \in DOMAIN todo' :
          \/ made'[todo'[n]].kind = "message"
          \/ n = 1 /\ made'[todo'[n]].kind = "output" /\ made'[todo'[n]].of \in Dangling'
    <3>1. \A n \in DOMAIN todo' : n = 1 \/ (Len(new) = 2 /\ n = 2)
      BY <1>1
    <3> QED BY <1>1, <1>11, <3>1
  <2>3. todo' # <<>> /\ waiter' = "waiting" /\ outbound' = todo'[1] /\ sent' = None
    BY <1>1, <1>2, <1>5, <1>7
  <2>4. events' # <<>> => link' = "live"
    BY <1>2
  <2> QED BY <2>1, <2>2, <2>3, <2>4 DEF Underway, Has
<1>14. Interrupted'
  <2>1. \A c \in Dangling : ~Acked(c)
    BY <1>2 DEF Acked
  <2>2. \A c \in Dangling \ invalid : c = pendingCall \/ \E n \in DOMAIN events : Speech(n)
    BY <1>2, <2>1 DEF Interrupted
  <2>3. Calls' = Calls /\ \A n \in DOMAIN events : Speech(n)' <=> Speech(n)
    BY <1>2 DEF Calls, Speech
  <2> QED BY <1>2, <1>11, <2>2, <2>3 DEF Interrupted
<1> QED BY <1>2, <1>8, <1>9, <1>10, <1>12, <1>13, <1>14 DEF IInv, LiveInv, BootInv

\* Update, not connected: the additions are in the context at once.
LEMMA UpdateElseKeeps ==
  ASSUME IInv, Update, link # "live"
  PROVE  IInv'
<1>1. PICK new :
         /\ made' \in Seq([kind : Kinds, of : 0..MaxItems]) /\ Len(made') <= MaxItems
         /\ Lasting /\ new \in Seq(Known') /\ new # <<>>
         /\ DOMAIN new = 1..Len(new) /\ Len(new) \in {1, 2}
         /\ \A m, n \in DOMAIN new : new[m] = new[n] => m = n
         /\ \A n \in DOMAIN new : new[n] \notin Known /\ new[n] \in Known'
         /\ Known' = Known \cup ToSet(new)
         /\ \/ made'[new[1]].kind = "message" /\ made'[new[1]].of = None
            \/ made'[new[1]].kind = "output" /\ made'[new[1]].of \in Dangling
         /\ Len(new) = 2 => made'[new[2]].kind = "message" /\ made'[new[2]].of = None
         /\ ctx' = ctx \o new /\ UNCHANGED <<todo, waiter, outbound>>
  BY UpdateMakes
<1>2. /\ TypeOK /\ Marks /\ Fresh /\ Underway /\ Exchanged
      /\ todo = <<>>
      /\ UNCHANGED <<invalid, unplayed, link, conns, replay, sent, events, history, pendingCall>>
  BY DEF IInv, Update, serviceVars
<1>5. /\ Known \subseteq Known' /\ \A i \in Known : made'[i] = made[i]
      /\ ToSet(ctx) \subseteq Known /\ ToSet(replay) \subseteq Known
      /\ \A n \in DOMAIN ctx : ctx[n] \in Known
      /\ \A n \in DOMAIN replay : replay[n] \in Known
  BY <1>2, <1>1, Shapes DEF Lasting
<1> DEFINE L == Len(ctx)
<1>6. /\ ctx' \in Seq(Known') /\ DOMAIN ctx' = 1..(L + Len(new)) /\ DOMAIN ctx = 1..L
      /\ L \in Nat /\ Len(new) \in Nat
      /\ \A n \in 1..L : ctx'[n] = ctx[n]
      /\ \A n \in 1..Len(new) : ctx'[L + n] = new[n]
  <2>1. ctx \in Seq(Known')
    BY <1>2, <1>5, SeqMonotonic DEF TypeOK
  <2> QED BY <1>1, <2>1, Joined
<1>7. \A n \in DOMAIN ctx' : \/ n \in DOMAIN ctx /\ n <= L /\ n \in Nat
                             \/ n = L + 1 \/ (Len(new) = 2 /\ n = L + 2)
  <2> HIDE DEF L
  <2>1. CASE Len(new) = 1
    BY <1>6, <2>1
  <2>2. CASE Len(new) = 2
    BY <1>6, <2>2
  <2> QED BY <1>1, <2>1, <2>2
<1>8. /\ \A n \in DOMAIN ctx : n \in DOMAIN ctx' /\ ctx'[n] = ctx[n] /\ n <= L /\ n \in Nat
      /\ L + 1 \in DOMAIN ctx' /\ ctx'[L + 1] = new[1] /\ 1 \in DOMAIN new
      /\ Len(new) = 2 => L + 2 \in DOMAIN ctx' /\ ctx'[L + 2] = new[2] /\ 2 \in DOMAIN new
  BY <1>1, <1>6
<1> HIDE DEF L
<1>9. L \in Nat
  BY <1>6
<1>10. \A n \in DOMAIN ctx' : n \in DOMAIN ctx \/ made'[ctx'[n]].kind # "call"
  BY <1>1, <1>7, <1>8
<1>11. \A n \in DOMAIN ctx' : \/ n \in DOMAIN ctx
                              \/ n = L + 1
                              \/ made'[ctx'[n]].kind # "output"
  BY <1>1, <1>7, <1>8
<1>12. \A m, n \in DOMAIN ctx' : ctx'[m] = ctx'[n] => m = n
  <2>1. \A m, n \in DOMAIN ctx : ctx[m] = ctx[n] => m = n
    BY <1>2 DEF TypeOK, IsInjective
  <2>2. new[1] \notin Known /\ (Len(new) = 2 => new[2] \notin Known /\ new[1] # new[2])
    BY <1>1, <1>8
  <2> QED BY <1>5, <1>7, <1>8, <2>1, <2>2
<1>13. TypeOK'
  <2>1. replay \in Seq(Known') /\ history \in Seq(Known') /\ todo \in Seq(Known')
    BY <1>2, <1>5, SeqMonotonic DEF TypeOK
  <2>2. IsInjective(ctx')
    BY <1>12 DEF IsInjective
  <2> QED BY <1>1, <1>2, <1>5, <1>6, <2>1, <2>2 DEF TypeOK
<1>14. ToSet(ctx) \subseteq ToSet(ctx')
  BY <1>8 DEF ToSet
<1>15. Marks'
  BY <1>2, <1>1, <1>14, UpdateMarks
<1>16. events = <<>> /\ Adds' = {} /\ Answers' = {}
  BY <1>2 DEF Underway, Adds, Answers
<1>17. Fresh' /\ Underway'
  BY <1>1, <1>2, <1>16 DEF Fresh, Underway
<1>18. Dangling' \subseteq Dangling
  <2>1. SUFFICES ASSUME NEW c \in Dangling' PROVE c \in Dangling
    OBVIOUS
  <2>2. PICK n \in DOMAIN ctx' : ctx'[n] = c
    BY <2>1 DEF Dangling, ToSet
  <2>3. made'[c].kind = "call" /\ ~Answered(c)'
    BY <2>1 DEF Dangling, Has
  <2>4. n \in DOMAIN ctx /\ c = ctx[n] /\ c \in Known
    BY <1>5, <1>8, <1>10, <2>2, <2>3
  <2>5. c \in ToSet(ctx) /\ Has("call", c)
    BY <1>5, <2>3, <2>4 DEF ToSet, Has
  <2>6. ~Answered(c)
    BY <1>5, <1>14, <2>3 DEF Answered, Has
  <2> QED BY <2>5, <2>6 DEF Dangling
<1>19. Exchanged'
  <2>1. ASSUME NEW m \in DOMAIN ctx', NEW n \in DOMAIN ctx', m < n,
               made'[ctx'[m]].kind = "call", made'[ctx'[n]].kind = "call",
               ctx'[m] \notin invalid, ctx'[n] \notin invalid
        PROVE  \E k \in DOMAIN ctx' : m < k /\ k < n /\ made'[ctx'[k]].kind = "output"
                                      /\ made'[ctx'[k]].of = ctx'[m]
    <3>1. m \in DOMAIN ctx /\ n \in DOMAIN ctx
      BY <1>10, <2>1
    <3>2. PICK k \in DOMAIN ctx : m < k /\ k < n /\ OutputOf(ctx[k], ctx[m])
      BY <1>2, <1>5, <1>8, <2>1, <3>1 DEF Exchanged, Has
    <3> QED BY <1>5, <1>8, <3>1, <3>2 DEF OutputOf, Has
  <2>2. ASSUME NEW k \in DOMAIN ctx', made'[ctx'[k]].kind = "output"
        PROVE  \E m \in DOMAIN ctx' : m < k /\ ctx'[m] = made'[ctx'[k]].of
    <3>1. CASE k \in DOMAIN ctx
      BY <1>2, <1>5, <1>8, <2>2, <3>1 DEF Exchanged, Has
    <3>2. CASE k = L + 1
      <4>1. made'[new[1]].of \in ToSet(ctx)
        BY <1>1, <1>8, <2>2, <3>2 DEF Dangling
      <4>2. PICK m \in DOMAIN ctx : ctx[m] = made'[new[1]].of
        BY <4>1 DEF ToSet
      <4> QED BY <1>8, <1>9, <3>2, <4>2
    <3> QED BY <1>11, <2>2, <3>1, <3>2
  <2>3. ASSUME NEW m \in DOMAIN ctx', NEW n \in DOMAIN ctx',
               made'[ctx'[m]].kind = "output", made'[ctx'[n]].kind = "output",
               made'[ctx'[m]].of = made'[ctx'[n]].of
        PROVE  m = n
    <3>1. CASE m \in DOMAIN ctx /\ n \in DOMAIN ctx
      BY <1>2, <1>5, <1>8, <2>3, <3>1 DEF Exchanged, Has
    <3>2. ASSUME NEW k \in DOMAIN ctx, made'[ctx'[k]].kind = "output",
                 made'[new[1]].kind = "output", made'[ctx'[k]].of = made'[new[1]].of
          PROVE  FALSE
      <4>1. made'[new[1]].of \in Dangling
        BY <1>1, <3>2
      <4>2. ctx'[k] = ctx[k] /\ made'[ctx[k]] = made[ctx[k]]
        BY <1>5, <1>8
      <4>3. Has("output", ctx[k]) /\ made[ctx[k]].of \in Dangling
        BY <3>2, <4>1, <4>2 DEF Has
      <4>4. ctx[k] \in ToSet(ctx)
        BY DEF ToSet
      <4> QED BY <4>3, <4>4 DEF Dangling, Answered
    <3> QED BY <1>8, <1>11, <2>3, <3>1, <3>2
  <2> QED BY <1>2, <2>1, <2>2, <2>3 DEF Exchanged, Has, OutputOf
<1>20. ASSUME link = "boot" PROVE Continued'
  <2>1. Continued
    BY <1>20 DEF IInv, BootInv
  <2>2. pendingCall \in {None} \cup Known
    BY <1>2 DEF TypeOK
  <2>3. \A k \in DOMAIN replay : made'[replay[k]] = made[replay[k]]
    BY <1>5
  <2>4. /\ \A m, n \in DOMAIN replay : m < n /\ Has("call", replay[m])' /\ Has("call", replay[n])'
             => \/ replay'[m] \in invalid' \/ replay'[n] \in invalid'
                \/ \E k \in DOMAIN replay : m < k /\ k < n /\ OutputOf(replay[k], replay[m])'
        /\ pendingCall # None => \A n \in DOMAIN replay : Has("call", replay[n])' =>
             \/ replay'[n] \in invalid'
             \/ \E k \in DOMAIN replay : k < n /\ OutputOf(replay[k], pendingCall)'
    BY <1>2, <2>1, <2>3 DEF Continued, Has, OutputOf
  <2>5. /\ \A k \in DOMAIN replay : Has("output", replay[k])' =>
             \/ made'[replay'[k]].of \in invalid' \cup {pendingCall'}
             \/ \E m \in DOMAIN replay : m < k /\ replay'[m] = made'[replay'[k]].of
        /\ \A m, n \in DOMAIN replay :
             /\ Has("output", replay[m])' /\ Has("output", replay[n])'
             /\ made'[replay'[m]].of = made'[replay'[n]].of
             => m = n
    BY <1>2, <2>1, <2>3 DEF Continued, Has
  <2>6. pendingCall' # None => Has("call", pendingCall)' /\ pendingCall' \notin invalid'
    BY <1>2, <1>5, <2>1, <2>2 DEF Continued, Has
  <2>7. /\ ToSet(replay') \subseteq ToSet(ctx') /\ waiter' # "acked"
        /\ \A c \in Dangling' \ invalid' : c = pendingCall' \/ c \in ToSet(replay')
    BY <1>1, <1>2, <1>14, <1>18, <2>1 DEF Continued
  <2> QED BY <1>2, <2>4, <2>5, <2>6, <2>7 DEF Continued
<1> QED BY <1>2, <1>13, <1>15, <1>17, <1>19, <1>20 DEF IInv, LiveInv, BootInv
-----------------------------------------------------------------------------
(* Every state.                                                             *)

\* Nothing is made, and nothing is under way.
LEMMA Start == Init => IInv
<1> SUFFICES ASSUME Init PROVE IInv
  OBVIOUS
<1>1. Len(made) = 0 /\ Known = {} /\ DOMAIN ctx = {} /\ ToSet(ctx) = {} /\ DOMAIN todo = {}
      /\ DOMAIN events = {} /\ events = <<>>
  BY EmptySeq DEF Init, Known, ToSet
<1>2. /\ made \in Seq([kind : Kinds, of : 0..MaxItems]) /\ ctx \in Seq(Known) /\ replay \in Seq(Known)
      /\ todo \in Seq(Known) /\ events \in Seq(Events) /\ Len(events) = 0 /\ history \in Seq(Known)
  BY EmptySeq DEF Init
<1>3. IsInjective(ctx)
  BY <1>1 DEF IsInjective
<1>4. TypeOK
  BY <1>1, <1>2, <1>3, ContextAssumption DEF Init, TypeOK, ContextAssumption
<1>5. Marks
  BY <1>1 DEF Init, Marks
<1>6. Fresh
  BY <1>1 DEF Fresh, Adds
<1>7. Underway
  BY <1>1 DEF Init, Underway, Answers
<1>8. Exchanged
  BY <1>1 DEF Exchanged
<1> QED BY <1>4, <1>5, <1>6, <1>7, <1>8 DEF Init, IInv, LiveInv, BootInv

\* What the service adds.
LEMMA AddsKeep ==
  ASSUME IInv, ServiceAdds \/ ServiceFills
  PROVE  IInv'
<1>1. CASE link = "live" /\ Len(made) < MaxItems /\ made' = Made("said", None)
           /\ history' \in {history, Appended(Newest)} /\ Tell("item", Newest)
           /\ UNCHANGED <<pluginVars, sent, pendingCall>>
  BY <1>1, AddKeeps
<1>2. CASE link = "live" /\ Len(made) < MaxItems /\ made' = Made("message", None)
           /\ history' \in {history, Appended(Newest)} /\ Tell("item", Newest)
           /\ UNCHANGED <<pluginVars, sent, pendingCall>>
  BY <1>2, AddKeeps
<1>3. CASE link = "live" /\ Len(made) < MaxItems /\ made' = Made("message", None)
           /\ history' \in {history, Appended(Newest)} /\ Tell("filler", Newest)
           /\ UNCHANGED <<pluginVars, sent, pendingCall>>
  BY <1>3, AddKeeps
<1> QED BY <1>1, <1>2, <1>3 DEF ServiceAdds, ServiceFills

\* The items the plugin hears of.
LEMMA HearsKeep ==
  ASSUME IInv, HearsItem \/ HearsFiller
  PROVE  IInv'
<1>1. CASE HearsItem
  <2>1. /\ Hears("item") \/ Hears("call")
        /\ ctx' = Append(ctx, Head(events).of) /\ UNCHANGED <<invalid, waiter>> /\ UNCHANGED unplayed
    BY <1>1 DEF HearsItem
  <2> QED BY <2>1, ItemKeeps
<1>2. CASE HearsFiller
  <2>1. /\ Hears("filler")
        /\ ctx' = Append(ctx, Head(events).of) /\ UNCHANGED <<invalid, waiter>>
        /\ UNCHANGED unplayed \/ unplayed' = unplayed \cup {Head(events).of}
    BY <1>2 DEF HearsFiller
  <2> QED BY <2>1, ItemKeeps
<1> QED BY <1>1, <1>2

\* A step that changes nothing.
LEMMA Idle ==
  ASSUME IInv, UNCHANGED vars
  PROVE  IInv'
<1>1. UNCHANGED <<made, ctx, invalid, unplayed, link, conns, replay, todo, waiter, outbound,
                  sent, events, history, pendingCall>>
  BY DEF vars, pluginVars, serviceVars
<1>2. UNCHANGED <<TypeOK, Marks, Fresh, Underway, Exchanged>>
  BY <1>1 DEF TypeOK, Marks, Fresh, Underway, Exchanged, Known, Has, Adds, Answers, Dangling,
              Answered, OutputOf
<1>3. UNCHANGED <<LiveInv, BootInv>>
  BY <1>1 DEF LiveInv, BootInv, Interrupted, Continued, Has, Calls, Speech, Acked, Dangling,
              Answered, OutputOf
<1> QED BY <1>2, <1>3 DEF IInv

\* Every step keeps the invariant.
LEMMA Step == IInv /\ [Next]_vars => IInv'
<1> SUFFICES ASSUME IInv, [Next]_vars PROVE IInv'
  OBVIOUS
<1>1. CASE Update
  BY <1>1, UpdateLiveKeeps, UpdateElseKeeps
<1>2. CASE Resume
  BY <1>2, ResumeKeeps
<1>3. CASE AckTimeout
  BY <1>3, TimeoutKeeps
<1>4. CASE Send
  BY <1>4, SendKeeps
<1>5. CASE BootBegins
  BY <1>5, BootKeeps
<1>6. CASE ReplayItem
  BY <1>6, ReplayKeeps
<1>7. CASE BootEnds
  BY <1>7, BootEndKeeps
<1>8. CASE Lose
  BY <1>8, DisconnectKeeps DEF Lose
<1>9. CASE HearsAnswer("ack", "acked") \/ HearsAnswer("refused", "failed")
  BY <1>9, AnswerKeeps
<1>10. CASE HearsItem \/ HearsFiller
  BY <1>10, HearsKeep
<1>11. CASE HearsSpeech
  BY <1>11, SpeechKeeps
<1>12. CASE ServiceTakes
  BY <1>12, TakeKeeps
<1>13. CASE ServiceAdds \/ ServiceFills
  BY <1>13, AddsKeep
<1>14. CASE ServiceCalls
  BY <1>14, CallKeeps
<1>15. CASE SpeechStarts
  BY <1>15, StartKeeps
<1>16. CASE UNCHANGED vars
  BY <1>16, Idle
<1> QED BY <1>1, <1>2, <1>3, <1>4, <1>5, <1>6, <1>7, <1>8, <1>9, <1>10, <1>11, <1>12, <1>13,
           <1>14, <1>15, <1>16 DEF Next, Plugin, Receives, Service

\* The inductive invariant: marks, fresh items, the update under way, calls and
\* their outputs in the context, what a live connection and a bootstrap owe
\* (realtime.py of the plugin with pipeline.py and conversation.py).
THEOREM IInvAlways == Spec => []IInv
<1> QED BY Start, Step, PTL DEF Spec

\* A context is never refused: every item of a replay that is not left out is one
\* the service takes then, after any calls, speech, updates and losses
\* (_skip_invalidated_replay, _create_conversation_item).
THEOREM ContextInvAlways == Spec => []ContextInv
<1>1. IInv => ContextInv
  BY Acceptable DEF IInv, ContextInv
<1> QED BY <1>1, IInvAlways, PTL
-----------------------------------------------------------------------------
(* The call that is pending at the service, without updates during a replay.*)

\* Connected: the plugin has the pending call open, or is about to hear of it,
\* its output is not confirmed, and no speech invalidates it unless the turns
\* are committed by the client.
Announced(p, n) ==
  events[n].of = p /\ (~ManualTurns => \A m \in DOMAIN events : n < m => ~Speech(m))

Open(p) ==
  p \in Dangling /\ (~ManualTurns => p \notin invalid /\ \A m \in DOMAIN events : ~Speech(m))

Pending ==
  pendingCall # None =>
    /\ Open(pendingCall) \/ \E n \in Calls : Announced(pendingCall, n)
    /\ ~Acked(pendingCall)

\* During the bootstrap: an output that is there is still to be sent.
Replaying ==
  /\ pendingCall # None =>
       /\ pendingCall \in ToSet(ctx)
       /\ Answered(pendingCall) => \E k \in DOMAIN replay : OutputOf(replay[k], pendingCall)
  /\ \A m \in DOMAIN replay : Has("call", replay[m]) /\ Answered(replay[m]) =>
       \E k \in DOMAIN replay : m < k /\ OutputOf(replay[k], replay[m])

PendInv == (link = "live" => Pending) /\ (link = "boot" => Replaying)

\* A step that leaves the events and the pending call alone.
LEMMA PendingStays ==
  ASSUME Pending, UNCHANGED <<events, pendingCall>>,
         pendingCall \in Dangling => pendingCall \in Dangling', UNCHANGED invalid,
         pendingCall # None /\ Acked(pendingCall)' => Acked(pendingCall)
  PROVE  Pending'
<1>1. Calls' = Calls /\ \A n \in DOMAIN events : Speech(n)' <=> Speech(n)
  BY DEF Calls, Speech
<1> QED BY <1>1 DEF Pending, Open, Announced

\* The service tells something that does not concern the pending call.
LEMMA PendingTold ==
  ASSUME TypeOK, Pending, Lasting, UNCHANGED <<ctx, invalid, pendingCall>>,
         NEW k \in EventKinds, NEW o \in 0..MaxItems, Tell(k, o), k # "speech" \/ ManualTurns,
         pendingCall # None /\ Acked(pendingCall)' => Acked(pendingCall)
  PROVE  Pending'
<1>1. SUFFICES ASSUME pendingCall # None PROVE Pending'
  BY DEF Pending
<1> DEFINE last == Len(events) + 1
<1>2. /\ DOMAIN events = 1..Len(events) /\ DOMAIN events' = 1..last
      /\ Len(events) \in Nat
      /\ \A n \in DOMAIN events : events'[n] = events[n]
      /\ events'[last].kind = k
  BY Told
<1>3. /\ ~ManualTurns => \A m \in DOMAIN events' : Speech(m)' => m \in DOMAIN events /\ Speech(m)
      /\ \A n \in Calls : n \in Calls' /\ events'[n].of = events[n].of
  BY <1>2 DEF Speech, Calls
<1>4. Dangling' = Dangling
  BY DanglingStays
<1>5. ~Acked(pendingCall)'
  BY <1>1 DEF Pending
<1>6. CASE \E n \in Calls : Announced(pendingCall, n)
  BY <1>3, <1>5, <1>6 DEF Pending, Announced
<1>7. CASE Open(pendingCall)
  BY <1>3, <1>4, <1>5, <1>7 DEF Pending, Open
<1> QED BY <1>1, <1>6, <1>7 DEF Pending

\* The plugin hears something; the call that it hears of is open then.
LEMMA PendingHeard ==
  ASSUME TypeOK, Pending, NEW k, Hears(k),
         pendingCall \in Dangling => pendingCall \in Dangling',
         k # "speech" => UNCHANGED invalid,
         k = "call" /\ events[1].of = pendingCall => pendingCall \in Dangling' \ invalid',
         pendingCall # None /\ Acked(pendingCall)' => Acked(pendingCall)
  PROVE  Pending'
<1>1. UNCHANGED pendingCall
  BY DEF Hears, serviceVars
<1>2. SUFFICES ASSUME pendingCall # None PROVE Pending'
  BY <1>1 DEF Pending
<1>3. /\ DOMAIN events = 1..Len(events) /\ DOMAIN events' = 1..(Len(events) - 1)
      /\ Len(events) \in Nat /\ 1 <= Len(events)
      /\ \A n \in DOMAIN events' : n + 1 \in DOMAIN events /\ events'[n] = events[n + 1]
      /\ events[1].kind = k
  BY Heard
<1>4. \A m \in DOMAIN events' : Speech(m)' => m + 1 \in DOMAIN events /\ Speech(m + 1) /\ m \in Nat
  BY <1>3 DEF Speech
<1>5. \A n \in Calls : n # 1 => n - 1 \in Calls' /\ events'[n - 1] = events[n] /\ n \in Nat
  BY <1>3 DEF Calls
<1>6. ~Acked(pendingCall)'
  BY <1>2 DEF Pending
<1>7. CASE \E n \in Calls : Announced(pendingCall, n)
  <2>1. PICK n \in Calls :
          /\ events[n].of = pendingCall
          /\ ~ManualTurns => \A m \in DOMAIN events : n < m => ~Speech(m)
    BY <1>7 DEF Announced
  <2>2. CASE n = 1
    <3>1. k = "call"
      BY <1>3, <2>2 DEF Calls
    <3>2. ~ManualTurns => \A m \in DOMAIN events' : ~Speech(m)'
      BY <1>3, <1>4, <2>1, <2>2
    <3> QED BY <1>1, <1>6, <2>1, <2>2, <3>1, <3>2 DEF Pending, Open
  <2>3. CASE n # 1
    <3>1. n - 1 \in Calls' /\ events'[n - 1].of = pendingCall
      BY <1>5, <2>1, <2>3
    <3>2. ~ManualTurns => \A m \in DOMAIN events' : n - 1 < m => ~Speech(m)'
      BY <1>4, <1>5, <2>1, <2>3
    <3> QED BY <1>1, <1>6, <3>1, <3>2 DEF Pending, Announced
  <2> QED BY <2>2, <2>3
<1>8. CASE Open(pendingCall)
  <2>1. ~ManualTurns => k # "speech"
    BY <1>3, <1>8 DEF Speech, Open
  <2>2. ~ManualTurns => \A m \in DOMAIN events' : ~Speech(m)'
    BY <1>4, <1>8 DEF Open
  <2> QED BY <1>1, <1>6, <1>8, <2>1, <2>2 DEF Pending, Open
<1> QED BY <1>2, <1>7, <1>8 DEF Pending

\* Update: the addition is not confirmed yet.
LEMMA UpdatePends ==
  ASSUME IInv, PendInv, Update, ~BootUpdates
  PROVE  PendInv'
<1>1. TypeOK /\ Underway /\ todo = <<>>
      /\ UNCHANGED <<invalid, link, events, pendingCall>>
  BY DEF IInv, Update, serviceVars
<1>2. link # "boot"
  BY DEF Update
<1>3. ASSUME link = "live" PROVE Pending'
  <2>1. Lasting /\ UNCHANGED ctx /\ waiter' = "waiting"
    <3>1. PICK new :
            /\ Lasting
            /\ IF link = "live"
                 THEN /\ todo' = new /\ waiter' = "waiting" /\ outbound' = Head(new)
                      /\ UNCHANGED ctx
                 ELSE ctx' = ctx \o new /\ UNCHANGED <<todo, waiter, outbound>>
      BY UpdateMakes
    <3> QED BY <1>3, <3>1
  <2>2. waiter = "none" /\ Answers = {}
    BY <1>1 DEF Underway, Answers
  <2>3. ~Acked(pendingCall)'
    BY <1>1, <2>1, <2>2 DEF Acked, Answers
  <2>4. Dangling' = Dangling
    BY <1>1, <2>1, DanglingStays
  <2> QED BY <1>1, <1>3, <2>3, <2>4, PendingStays DEF PendInv
<1> QED BY <1>1, <1>2, <1>3 DEF PendInv

\* Resume: what is confirmed is not the output of the pending call.
LEMMA ResumePends ==
  ASSUME IInv, PendInv, Resume
  PROVE  PendInv'
<1>1. /\ TypeOK /\ Underway
      /\ waiter \in {"acked", "failed"} /\ ctx' = Grown(waiter = "acked")
      /\ UNCHANGED <<made, invalid, link, replay, events, pendingCall>>
  BY DEF IInv, Resume, serviceVars
<1>2. todo # <<>> /\ Answers = {}
  BY <1>1 DEF Underway, Answers
<1>3. Head(todo) = todo[1] /\ todo[1] \in Known
  BY <1>1, <1>2, Shorter DEF TypeOK
<1>4. ASSUME link = "live", pendingCall # None PROVE Pending'
  <2>1. Pending /\ ~Acked(pendingCall)
    BY <1>4 DEF PendInv, Pending
  <2>2. waiter' # "acked" /\ \A n \in DOMAIN events : events[n].kind # "ack"
    BY <1>2 DEF Resume, Answers
  <2>3. ~Acked(pendingCall)'
    BY <1>1, <2>2 DEF Acked
  <2>4. ASSUME pendingCall \in Dangling PROVE pendingCall \in Dangling'
    <3>1. CASE waiter = "failed"
      <4>1. UNCHANGED ctx
        BY <1>1, <3>1 DEF Grown
      <4> QED BY <1>1, <2>4, <4>1 DEF Dangling, Answered, Has
    <3>2. CASE waiter = "acked"
      <4>1. ctx' = Append(ctx, todo[1])
        BY <1>1, <1>3, <3>2 DEF Grown
      <4>2. ~OutputOf(todo[1], pendingCall)
        BY <1>2, <2>1, <3>2 DEF Acked
      <4>3. CASE Has("output", todo[1])
        BY <1>1, <1>3, <2>4, <4>1, <4>2, <4>3, DanglingOutput DEF OutputOf
      <4>4. CASE ~Has("output", todo[1])
        BY <1>1, <1>3, <2>4, <4>1, <4>4, DanglingAppended
      <4> QED BY <4>3, <4>4
    <3> QED BY <1>1, <3>1, <3>2
  <2> QED BY <1>1, <2>1, <2>3, <2>4, PendingStays
<1>5. ASSUME link = "boot" PROVE Replaying'
  <2>1. waiter = "failed" /\ Replaying
    BY <1>1, <1>5 DEF IInv, BootInv, Continued, PendInv
  <2>2. UNCHANGED ctx
    BY <1>1, <2>1 DEF Grown
  <2> QED BY <1>1, <2>1, <2>2 DEF Replaying, Answered, OutputOf, Has
<1>6. pendingCall = None => Pending'
  BY <1>1 DEF Pending
<1> QED BY <1>1, <1>4, <1>5, <1>6 DEF PendInv

\* Send: nothing is confirmed by it.
LEMMA SendPends ==
  ASSUME IInv, PendInv, Send
  PROVE  PendInv'
<1>1. CASE Disconnected
  BY <1>1 DEF Disconnected, PendInv
<1>2. CASE ~Disconnected
  <2>1. /\ TypeOK /\ link = "live" /\ Pending
        /\ UNCHANGED <<made, ctx, invalid, link, todo, waiter, events, pendingCall>>
    BY <1>2 DEF IInv, Send, serviceVars, PendInv
  <2>2. Dangling' = Dangling /\ (Acked(pendingCall)' <=> Acked(pendingCall))
    BY <2>1 DEF Dangling, Answered, Has, Acked, OutputOf
  <2> QED BY <2>1, <2>2, PendingStays DEF PendInv
<1> QED BY <1>1, <1>2

\* BootBegins: the service has no call, and the context its exchanges in order.
LEMMA BootPends ==
  ASSUME IInv, PendInv, BootBegins
  PROVE  PendInv'
<1>1. /\ TypeOK /\ Exchanged /\ link' = "boot" /\ replay' = ctx /\ pendingCall' = None
      /\ UNCHANGED <<made, ctx>>
  BY DEF IInv, BootBegins
<1>2. ASSUME NEW m \in DOMAIN ctx, Has("call", ctx[m]), Answered(ctx[m])
      PROVE  \E k \in DOMAIN ctx : m < k /\ OutputOf(ctx[k], ctx[m])
  <2>1. PICK k \in DOMAIN ctx : OutputOf(ctx[k], ctx[m])
    BY <1>2 DEF Answered, ToSet, OutputOf
  <2>2. PICK j \in DOMAIN ctx : j < k /\ ctx[j] = ctx[m]
    BY <1>1, <2>1 DEF Exchanged, OutputOf
  <2>3. j = m
    BY <1>1, <2>2 DEF TypeOK, IsInjective
  <2> QED BY <2>1, <2>2, <2>3
<1>3. Replaying'
  BY <1>1, <1>2 DEF Replaying, Answered, OutputOf, Has
<1> QED BY <1>1, <1>3 DEF PendInv

\* BootEnds: everything has been sent, so a pending call is open.
LEMMA BootEndPends ==
  ASSUME IInv, PendInv, BootEnds
  PROVE  PendInv'
<1>1. /\ TypeOK /\ Underway /\ Continued /\ Replaying
      /\ link = "boot" /\ replay = <<>> /\ link' = "live"
      /\ UNCHANGED <<made, ctx, invalid, todo, waiter, events, pendingCall>>
  BY DEF IInv, BootInv, BootEnds, serviceVars, PendInv
<1>2. events = <<>> /\ DOMAIN events = {} /\ DOMAIN replay = {}
  BY <1>1 DEF Underway
<1>3. ASSUME pendingCall # None PROVE pendingCall \in Dangling \ invalid /\ ~Acked(pendingCall)
  BY <1>1, <1>2, <1>3 DEF Continued, Replaying, Dangling, Acked
<1>4. Dangling' = Dangling /\ (Acked(pendingCall)' <=> Acked(pendingCall))
  BY <1>1 DEF Dangling, Answered, Has, Acked, OutputOf
<1>5. Pending'
  BY <1>1, <1>2, <1>3, <1>4 DEF Pending, Open
<1> QED BY <1>1, <1>5 DEF PendInv

\* ReplayItem: the output of a pending call is not left out.
LEMMA ReplayPends ==
  ASSUME IInv, PendInv, ReplayItem
  PROVE  PendInv'
<1> DEFINE h == replay[1]
           p == pendingCall
<1>1. /\ TypeOK /\ Marks /\ Continued /\ Replaying
      /\ link = "boot" /\ replay # <<>> /\ replay' = Tail(replay)
      /\ UNCHANGED <<made, ctx, invalid, unplayed, link>>
  BY DEF IInv, BootInv, ReplayItem, PendInv
<1>2. /\ replay' \in Seq(Known) /\ DOMAIN replay' = 1..(Len(replay) - 1)
      /\ DOMAIN replay = 1..Len(replay) /\ Len(replay) \in Nat /\ 1 <= Len(replay)
      /\ \A n \in 1..(Len(replay) - 1) : replay'[n] = replay[n + 1]
      /\ Head(replay) = h /\ h \in Known
  BY <1>1, Shorter DEF TypeOK
<1>3. /\ \A n \in DOMAIN replay' : n + 1 \in DOMAIN replay /\ replay'[n] = replay[n + 1] /\ n \in Nat
      /\ \A n \in DOMAIN replay : n # 1 => n - 1 \in DOMAIN replay' /\ replay'[n - 1] = replay[n]
      /\ \A n \in DOMAIN replay : n \in Nat
      /\ 1 \in DOMAIN replay
  BY <1>2
<1>4. h \in ToSet(ctx)
  BY <1>1, <1>3 DEF Continued, ToSet
<1>5. \A i, c : OutputOf(i, c)' <=> OutputOf(i, c)
  BY <1>1 DEF OutputOf, Has
<1>6. \A c : Answered(c)' <=> Answered(c)
  BY <1>1 DEF Answered, Has
<1>7. p # None => Has("call", p) /\ p \notin invalid
  BY <1>1 DEF Continued
<1>8. \/ (h \in unplayed \/ CallOf(h) \in invalid) /\ pendingCall' = p
      \/ CallOf(h) \notin invalid /\ Accepts(h) /\ Take(h)
  BY <1>2 DEF ReplayItem, Skipped, serviceVars
<1> HIDE DEF h, p
<1>9. \/ pendingCall' = None
      \/ pendingCall' = p /\ ~OutputOf(h, p)
      \/ Has("call", h) /\ pendingCall' = h
  <2>1. CASE (h \in unplayed \/ CallOf(h) \in invalid) /\ pendingCall' = p
    <3>1. ASSUME p # None, OutputOf(h, p) PROVE FALSE
      BY <1>1, <1>7, <2>1, <3>1 DEF Marks, CallOf, OutputOf, Has
    <3> QED BY <2>1, <3>1
  <2>2. CASE CallOf(h) \notin invalid /\ Accepts(h) /\ Take(h)
    <3>1. CASE Has("call", h)
      BY <2>2, <3>1 DEF Take
    <3>2. CASE ~Has("call", h) /\ Has("output", h)
      BY <2>2, <3>2 DEF Take
    <3>3. CASE ~Has("call", h) /\ ~Has("output", h)
      BY <2>2, <3>3 DEF Take, OutputOf, p
    <3> QED BY <3>1, <3>2, <3>3
  <2> QED BY <1>8, <2>1, <2>2
<1>10. ASSUME NEW c \in Known, Answered(c), \E k \in DOMAIN replay : k # 1 /\ OutputOf(replay[k], c)
       PROVE  \E k \in DOMAIN replay' : OutputOf(replay'[k], c)
  BY <1>3, <1>10
<1>11. ASSUME pendingCall' # None
       PROVE  /\ pendingCall' \in ToSet(ctx)
              /\ Answered(pendingCall') => \E k \in DOMAIN replay' : OutputOf(replay'[k], pendingCall')
  <2>1. CASE pendingCall' = p /\ ~OutputOf(h, p)
    <3>1. p \in ToSet(ctx) /\ p \in Known
      BY <1>1, <1>11, <2>1, Shapes DEF Replaying, p
    <3>2. ASSUME Answered(p) PROVE \E k \in DOMAIN replay' : OutputOf(replay'[k], p)
      <4>1. PICK k \in DOMAIN replay : OutputOf(replay[k], p)
        BY <1>1, <1>11, <2>1, <3>2 DEF Replaying, p
      <4>2. k # 1
        BY <2>1, <4>1 DEF h
      <4> QED BY <1>3, <4>1, <4>2
    <3> QED BY <2>1, <3>1, <3>2
  <2>2. CASE Has("call", h) /\ pendingCall' = h
    <3>1. ASSUME Answered(h) PROVE \E k \in DOMAIN replay' : OutputOf(replay'[k], h)
      <4>1. PICK k \in DOMAIN replay : 1 < k /\ OutputOf(replay[k], h)
        BY <1>1, <1>3, <2>2, <3>1 DEF Replaying, h
      <4>2. k # 1
        BY <1>3, <4>1
      <4> QED BY <1>3, <4>1, <4>2
    <3> QED BY <1>4, <2>2, <3>1
  <2> QED BY <1>9, <1>11, <2>1, <2>2
<1>12. ASSUME NEW m \in DOMAIN replay', Has("call", replay'[m]), Answered(replay'[m])
       PROVE  \E k \in DOMAIN replay' : m < k /\ OutputOf(replay'[k], replay'[m])
  <2>1. PICK k \in DOMAIN replay : m + 1 < k /\ OutputOf(replay[k], replay[m + 1])
    BY <1>1, <1>3, <1>12 DEF Replaying
  <2>2. k # 1 /\ m < k - 1
    BY <1>3, <2>1
  <2> QED BY <1>3, <2>1, <2>2
<1>13. Replaying'
  <2>1. \A m \in DOMAIN replay' : Has("call", replay[m])' <=> Has("call", replay'[m])
    BY <1>1 DEF Has
  <2>2. pendingCall' # None =>
          /\ pendingCall' \in ToSet(ctx')
          /\ Answered(pendingCall)' => \E k \in DOMAIN replay' : OutputOf(replay[k], pendingCall)'
    BY <1>1, <1>11 DEF Answered, OutputOf, Has
  <2>3. \A m \in DOMAIN replay' : Has("call", replay[m])' /\ Answered(replay[m])' =>
          \E k \in DOMAIN replay' : m < k /\ OutputOf(replay[k], replay[m])'
    BY <1>1, <1>12 DEF Answered, OutputOf, Has
  <2> QED BY <2>2, <2>3 DEF Replaying
<1> QED BY <1>1, <1>13 DEF PendInv

\* HearsAnswer: the acknowledgement was on its way.
LEMMA AnswerPends ==
  ASSUME IInv, PendInv, NEW k, NEW outcome, HearsAnswer(k, outcome),
         (k = "ack" /\ outcome = "acked") \/ (k = "refused" /\ outcome = "failed")
  PROVE  PendInv'
<1>1. /\ TypeOK /\ Hears(k) /\ UNCHANGED <<ctx, invalid, made, link, todo, pendingCall>>
  BY DEF IInv, HearsAnswer, Hears, serviceVars
<1>2. /\ DOMAIN events = 1..Len(events)
      /\ Len(events) \in Nat /\ 1 <= Len(events) /\ link = "live"
      /\ \A n \in DOMAIN events' : n + 1 \in DOMAIN events /\ events'[n] = events[n + 1]
      /\ events[1].kind = k
  BY <1>1, Heard
<1>3. Dangling' = Dangling
  BY <1>1 DEF Dangling, Answered, Has
<1>4. ASSUME Acked(pendingCall)' PROVE Acked(pendingCall)
  <2>1. todo # <<>> /\ OutputOf(todo[1], pendingCall)
    BY <1>1, <1>4 DEF Acked, OutputOf, Has
  <2>2. CASE waiter' = "acked"
    <3>1. waiter = "acked" \/ k = "ack"
      BY <2>2 DEF HearsAnswer
    <3> QED BY <1>2, <2>1, <3>1 DEF Acked
  <2>3. CASE \E n \in DOMAIN events' : events'[n].kind = "ack"
    BY <1>2, <2>1, <2>3 DEF Acked
  <2> QED BY <1>4, <2>2, <2>3 DEF Acked
<1>5. Pending'
  BY <1>1, <1>2, <1>3, <1>4, PendingHeard DEF PendInv
<1> QED BY <1>1, <1>2, <1>5 DEF PendInv

\* A call comes to the context without an output, and not invalidated.
LEMMA CallOpens ==
  ASSUME IInv, Hears("call"), ctx' = Append(ctx, Head(events).of), UNCHANGED invalid
  PROVE  events[1].of \in Dangling' \ invalid'
<1> DEFINE i == events[1].of
<1>1. TypeOK /\ Marks /\ Fresh /\ Exchanged /\ UNCHANGED made
  BY DEF IInv, Hears
<1>2. /\ i \in Known /\ i \notin ToSet(ctx) /\ ToSet(ctx') = ToSet(ctx) \cup {i}
      /\ ~Has("output", i) /\ Has("call", i)
  BY <1>1, ItemAppended
<1> HIDE DEF i
<1>3. ~Answered(i)
  <2>1. SUFFICES ASSUME NEW n \in DOMAIN ctx, OutputOf(ctx[n], i) PROVE FALSE
    BY DEF Answered, ToSet, OutputOf
  <2>2. PICK m \in DOMAIN ctx : ctx[m] = i
    BY <1>1, <2>1 DEF Exchanged, OutputOf
  <2> QED BY <1>2, <2>2 DEF ToSet
<1>4. \A c \in Known : ~Answered(c) => ~Answered(c)'
  BY <1>1, <1>2 DEF Answered, Has
<1>5. i \notin invalid
  BY <1>1, <1>2 DEF Marks
<1>6. \A c \in Known : Has("call", c) /\ c \in ToSet(ctx') /\ ~Answered(c)' => c \in Dangling'
  BY <1>1 DEF Dangling, Has
<1>7. i \in Dangling' \ invalid'
  BY <1>2, <1>3, <1>4, <1>5, <1>6
<1> QED BY <1>7 DEF i

\* HearsItem and HearsFiller: the items that come are no outputs.
LEMMA ItemPends ==
  ASSUME IInv, PendInv, NEW k \in {"item", "filler", "call"}, Hears(k),
         ctx' = Append(ctx, Head(events).of), UNCHANGED <<invalid, waiter>>
  PROVE  PendInv'
<1> DEFINE i == events[1].of
<1>1. /\ TypeOK /\ Marks /\ Fresh
      /\ UNCHANGED <<made, link, todo, pendingCall>>
  BY DEF IInv, Hears, serviceVars
<1>2. /\ link = "live"
      /\ \A n \in DOMAIN events' : n + 1 \in DOMAIN events /\ events'[n] = events[n + 1]
  BY <1>1, Heard
<1>3. /\ i \in Known /\ i \notin ToSet(ctx) /\ ctx' = Append(ctx, i)
      /\ ToSet(ctx') = ToSet(ctx) \cup {i}
      /\ ~Has("output", i) /\ (Has("call", i) <=> k = "call")
  BY <1>1, ItemAppended
<1> HIDE DEF i
<1>4. Dangling \subseteq Dangling'
  BY <1>1, <1>3, DanglingAppended
<1>5. k = "call" => i \in Dangling' \ invalid'
  BY CallOpens DEF i
<1>6. Acked(pendingCall)' => Acked(pendingCall)
  BY <1>1, <1>2 DEF Acked, OutputOf, Has
<1>7. k = "call" /\ events[1].of = pendingCall => pendingCall \in Dangling' \ invalid'
  BY <1>5 DEF i
<1>8. Pending'
  BY <1>1, <1>2, <1>4, <1>6, <1>7, PendingHeard DEF PendInv
<1> QED BY <1>1, <1>2, <1>8 DEF PendInv

\* HearsSpeech: the service has a pending call only from after the speech.
LEMMA SpeechPends ==
  ASSUME IInv, PendInv, HearsSpeech
  PROVE  PendInv'
<1>1. /\ TypeOK /\ Hears("speech") /\ UNCHANGED <<made, link, todo, waiter>>
  BY DEF IInv, HearsSpeech, Hears
<1>2. /\ link = "live"
      /\ \A n \in DOMAIN events' : n + 1 \in DOMAIN events /\ events'[n] = events[n + 1]
  BY <1>1, Heard
<1>3. UNCHANGED pendingCall
  BY <1>1 DEF Hears, serviceVars
<1>4. Acked(pendingCall)' => Acked(pendingCall)
  BY <1>1, <1>2, <1>3 DEF Acked, OutputOf, Has
<1>5. Dangling' = Dangling
  BY <1>1 DEF HearsSpeech, Dangling, Answered, Has
<1>6. Pending'
  BY <1>1, <1>2, <1>4, <1>5, PendingHeard DEF PendInv
<1> QED BY <1>1, <1>2, <1>6 DEF PendInv

\* ServiceTakes: with the output it takes, the call is no longer pending.
LEMMA TakePends ==
  ASSUME IInv, PendInv, ServiceTakes
  PROVE  PendInv'
<1>1. /\ TypeOK /\ Underway /\ link = "live" /\ sent # None
      /\ UNCHANGED <<made, ctx, invalid, link, todo, waiter>>
  BY DEF IInv, ServiceTakes, pluginVars
<1>2. todo # <<>> /\ 1 \in DOMAIN todo /\ sent = todo[1] /\ waiter = "waiting" /\ sent \in Known
  <2>1. waiter = "waiting" /\ sent = todo[1] /\ todo # <<>> /\ sent \in Known
    BY <1>1 DEF Underway, TypeOK
  <2> QED BY <1>1, <2>1, Shorter DEF TypeOK
<1>3. sent \in 0..MaxItems /\ UNCHANGED ctx /\ Lasting
  <2>1. Lasting
    BY <1>1, NothingMade
  <2> QED BY <1>1, <1>2, <2>1, ContextAssumption DEF TypeOK, Known, ContextAssumption
<1>4. PICK k \in {"ack", "refused"} : Tell(k, sent)
  BY DEF ServiceTakes
<1>5. k \in EventKinds /\ k # "speech"
  BY DEF EventKinds
<1>6. /\ DOMAIN events' = 1..(Len(events) + 1) /\ DOMAIN events = 1..Len(events) /\ Len(events) \in Nat
      /\ \A n \in DOMAIN events : events'[n] = events[n]
      /\ events'[Len(events) + 1].kind = k
  BY <1>1, <1>3, <1>4, <1>5, Told
<1>7. CASE k = "refused" /\ UNCHANGED pendingCall
  <2>1. \A n \in DOMAIN events' : events'[n].kind = "ack" => n \in DOMAIN events /\ events[n].kind = "ack"
    BY <1>6, <1>7
  <2>2. Acked(pendingCall)' => Acked(pendingCall)
    BY <1>1, <1>7, <2>1 DEF Acked, OutputOf, Has
  <2> QED BY <1>1, <1>3, <1>4, <1>5, <1>7, <2>2, PendingTold DEF PendInv
<1>8. CASE Accepts(sent) /\ Take(sent)
  <2>1. CASE Has("output", sent)
    <3>1. pendingCall' = None
      BY <1>8, <2>1 DEF Take, Has
    <3> QED BY <1>1, <3>1 DEF PendInv, Pending
  <2>2. CASE Has("message", sent)
    <3>1. UNCHANGED pendingCall
      BY <1>8, <2>2 DEF Take, Has
    <3>2. ~Acked(pendingCall)'
      BY <1>1, <1>2, <2>2 DEF Acked, OutputOf, Has
    <3> QED BY <1>1, <1>3, <1>4, <1>5, <3>1, <3>2, PendingTold DEF PendInv
  <2> QED BY <1>1, <1>2, <2>1, <2>2 DEF Underway
<1>9. Tell("refused", sent) => k = "refused"
  <2>1. ASSUME Tell("refused", sent) PROVE k = "refused"
    <3>1. events'[Len(events) + 1].kind = "refused"
      BY <1>1, <1>3, <2>1, Told DEF EventKinds
    <3> QED BY <1>6, <3>1
  <2> QED BY <2>1
<1> QED BY <1>7, <1>8, <1>9 DEF ServiceTakes, serviceVars

\* ServiceAdds and ServiceFills: the pending call stays.
LEMMA AddsPend ==
  ASSUME IInv, PendInv, ServiceAdds \/ ServiceFills
  PROVE  PendInv'
<1>1. /\ TypeOK /\ link = "live" /\ Len(made) < MaxItems
      /\ UNCHANGED <<ctx, invalid, link, todo, waiter, pendingCall>>
  BY DEF IInv, ServiceAdds, ServiceFills, pluginVars
<1>2. PICK kind \in {"said", "message"}, k \in {"item", "filler"} : made' = Made(kind, None) /\ Tell(k, Newest)
  BY DEF ServiceAdds, ServiceFills
<1>3. kind \in Kinds /\ k \in EventKinds /\ k # "speech"
  BY DEF Kinds, EventKinds
<1>4. Lasting /\ Newest \in 0..MaxItems
  <2>1. Lasting /\ Newest \in Nat /\ Newest <= MaxItems
    BY <1>1, <1>2, <1>3, OneMade
  <2> QED BY <2>1, ContextAssumption DEF ContextAssumption
<1>5. /\ DOMAIN events' = 1..(Len(events) + 1) /\ DOMAIN events = 1..Len(events) /\ Len(events) \in Nat
      /\ \A n \in DOMAIN events : events'[n] = events[n]
      /\ events'[Len(events) + 1].kind = k
  BY <1>1, <1>2, <1>3, <1>4, Told
<1>6. \A n \in DOMAIN events' : events'[n].kind = "ack" => n \in DOMAIN events /\ events[n].kind = "ack"
  BY <1>5
<1>7. todo # <<>> => made'[todo[1]] = made[todo[1]]
  <2>1. ASSUME todo # <<>> PROVE todo[1] \in Known
    BY <1>1, <2>1, Shorter DEF TypeOK
  <2> QED BY <1>4, <2>1 DEF Lasting
<1>8. Acked(pendingCall)' => Acked(pendingCall)
  BY <1>1, <1>6, <1>7 DEF Acked, OutputOf, Has
<1>9. Pending'
  BY <1>1, <1>2, <1>3, <1>4, <1>8, PendingTold DEF PendInv
<1> QED BY <1>1, <1>9 DEF PendInv

\* ServiceCalls: the plugin is about to hear of the call.
LEMMA CallPends ==
  ASSUME IInv, PendInv, ServiceCalls
  PROVE  PendInv'
<1>1. /\ TypeOK /\ link = "live" /\ Len(made) < MaxItems /\ made' = Made("call", None)
      /\ waiter # "acked" /\ (\A n \in DOMAIN events : events[n].kind # "ack")
      /\ pendingCall' = Newest /\ Tell("call", Newest)
      /\ UNCHANGED <<link, waiter>>
  BY DEF IInv, ServiceCalls, pluginVars
<1>2. Newest \in 0..MaxItems
  <2>1. "call" \in Kinds
    BY DEF Kinds
  <2>2. Newest \in Nat /\ Newest <= MaxItems
    BY <1>1, <2>1, OneMade
  <2> QED BY <2>2, ContextAssumption DEF ContextAssumption
<1> DEFINE last == Len(events) + 1
<1>3. /\ DOMAIN events' = 1..last /\ DOMAIN events = 1..Len(events) /\ Len(events) \in Nat
      /\ \A n \in DOMAIN events : events'[n] = events[n]
      /\ events'[last].kind = "call" /\ events'[last].of = Newest
  BY <1>1, <1>2, Told DEF EventKinds
<1>4. last \in Calls' /\ \A m \in DOMAIN events' : ~(last < m)
  BY <1>3 DEF Calls
<1>5. \A n \in DOMAIN events' : events'[n].kind # "ack"
  BY <1>1, <1>3
<1>6. ~Acked(pendingCall)'
  BY <1>1, <1>5 DEF Acked
<1>7. Pending'
  BY <1>1, <1>3, <1>4, <1>6 DEF Pending, Announced
<1> QED BY <1>1, <1>7 DEF PendInv

\* SpeechStarts: the service drops its call, unless the client commits the turns.
LEMMA StartPends ==
  ASSUME IInv, PendInv, SpeechStarts
  PROVE  PendInv'
<1>1. /\ TypeOK /\ link = "live" /\ Pending /\ Tell("speech", None)
      /\ UNCHANGED <<made, ctx, invalid, link, todo, waiter>>
  BY DEF IInv, PendInv, SpeechStarts, pluginVars
<1>2. CASE ~ManualTurns
  BY <1>1, <1>2 DEF SpeechStarts, CallDropped, PendInv, Pending
<1>3. CASE ManualTurns
  <2>1. UNCHANGED pendingCall /\ Lasting /\ "speech" \in EventKinds /\ None \in 0..MaxItems
    BY <1>1, <1>3, NothingMade, ContextAssumption DEF SpeechStarts, EventKinds, None, ContextAssumption
  <2>2. /\ DOMAIN events' = 1..(Len(events) + 1) /\ DOMAIN events = 1..Len(events) /\ Len(events) \in Nat
        /\ \A n \in DOMAIN events : events'[n] = events[n]
        /\ events'[Len(events) + 1].kind = "speech"
    BY <1>1, <2>1, Told
  <2>3. \A n \in DOMAIN events' : events'[n].kind = "ack" => n \in DOMAIN events /\ events[n].kind = "ack"
    BY <2>2
  <2>4. Acked(pendingCall)' => Acked(pendingCall)
    BY <1>1, <2>1, <2>3 DEF Acked, OutputOf, Has
  <2> QED BY <1>1, <1>3, <2>1, <2>4, PendingTold DEF PendInv
<1> QED BY <1>2, <1>3

\* At the start nothing is pending.
LEMMA PendStart == Init => PendInv
BY DEF Init, PendInv

\* Every step keeps it.
LEMMA PendStep ==
  ASSUME ~BootUpdates
  PROVE  IInv /\ PendInv /\ [Next]_vars => PendInv'
<1> SUFFICES ASSUME IInv, PendInv, [Next]_vars PROVE PendInv'
  OBVIOUS
<1>1. CASE Update
  BY <1>1, UpdatePends
<1>2. CASE Resume
  BY <1>2, ResumePends
<1>3. CASE AckTimeout
  BY <1>3 DEF AckTimeout, PendInv
<1>4. CASE Send
  BY <1>4, SendPends
<1>5. CASE BootBegins
  BY <1>5, BootPends
<1>6. CASE ReplayItem
  BY <1>6, ReplayPends
<1>7. CASE BootEnds
  BY <1>7, BootEndPends
<1>8. CASE Lose
  BY <1>8 DEF Lose, Disconnected, PendInv
<1>9. CASE HearsAnswer("ack", "acked") \/ HearsAnswer("refused", "failed")
  BY <1>9, AnswerPends
<1>10. CASE HearsItem \/ HearsFiller
  BY <1>10, ItemPends DEF HearsItem, HearsFiller
<1>11. CASE HearsSpeech
  BY <1>11, SpeechPends
<1>12. CASE ServiceTakes
  BY <1>12, TakePends
<1>13. CASE ServiceAdds \/ ServiceFills
  BY <1>13, AddsPend
<1>14. CASE ServiceCalls
  BY <1>14, CallPends
<1>15. CASE SpeechStarts
  BY <1>15, StartPends
<1>16. CASE UNCHANGED vars
  <2>1. UNCHANGED <<made, ctx, invalid, link, replay, todo, waiter, events, pendingCall>>
    BY <1>16 DEF vars, pluginVars, serviceVars
  <2> QED BY <2>1 DEF PendInv, Pending, Open, Announced, Replaying, Calls, Speech, Acked, OutputOf, Has, Dangling, Answered
<1> QED BY <1>1, <1>2, <1>3, <1>4, <1>5, <1>6, <1>7, <1>8, <1>9, <1>10, <1>11, <1>12, <1>13,
           <1>14, <1>15, <1>16 DEF Next, Plugin, Receives, Service

\* It holds from the start on.
LEMMA PendInvAlways ==
  ASSUME ~BootUpdates
  PROVE  Spec => []PendInv
<1>1. Init => PendInv
  BY PendStart
<1>2. IInv /\ PendInv /\ [Next]_vars => PendInv'
  BY PendStep
<1> QED BY <1>1, <1>2, IInvAlways, PTL DEF Spec

\* With nothing on its way, the invariants say that the two sides agree.
LEMMA Agreed ==
  ASSUME ~ManualTurns, IInv, PendInv
  PROVE  PendingAgrees
<1> SUFFICES ASSUME Quiet PROVE Dangling \ invalid = IF pendingCall = None THEN {} ELSE {pendingCall}
  BY DEF PendingAgrees
<1>1. TypeOK /\ Interrupted /\ Pending /\ todo = <<>> /\ DOMAIN events = {}
  BY DEF Quiet, IInv, LiveInv, PendInv
<1>2. \A c \in Dangling \ invalid : c = pendingCall /\ c # None
  <2>1. ASSUME NEW c \in Dangling \ invalid PROVE c = pendingCall
    BY <1>1 DEF Interrupted, Acked
  <2>2. \A c \in Dangling : c # None
    BY <1>1, Shapes DEF Dangling, None
  <2> QED BY <2>1, <2>2
<1>3. pendingCall # None => pendingCall \in Dangling \ invalid
  BY <1>1 DEF Pending, Open, Calls
<1> QED BY <1>2, <1>3

\* With nothing on its way, the call that is pending at the service is the one the
\* plugin's context leaves open, and neither has another: calls, batches, refusals,
\* speech and reconnects never leave one side waiting alone (_emit_tool_call,
\* _speech_started, _invalidate_dangling_calls, update_chat_ctx). Updates during a
\* replay and turns that the client commits break it.
THEOREM PendingAgreesAlways ==
  ASSUME ~BootUpdates, ~ManualTurns
  PROVE  Spec => []PendingAgrees
<1>1. IInv /\ PendInv => PendingAgrees
  BY Agreed
<1> QED BY <1>1, IInvAlways, PendInvAlways, PTL
-----------------------------------------------------------------------------
(* What is dropped is dropped from a full conversation.                     *)

Full == Size(history) >= MaxMessages - 1

\* One more group counts for two at most.
LEMMA SizeGrows ==
  ASSUME NEW S, NEW t \in Seq(S), NEW u \in Seq(S), Len(u) = Len(t) + 1,
         \A n \in 1..Len(t) : u[n + 1] = t[n]
  PROVE  Size(u) <= Size(t) + 2
<1>1. DOMAIN t = 1..Len(t) /\ DOMAIN u = 1..Len(u) /\ Len(t) \in Nat
  BY LenProperties
<1>2. /\ IsFiniteSet(Exchanges(t)) /\ Cardinality(Exchanges(t)) \in Nat
      /\ IsFiniteSet(Exchanges(u)) /\ Cardinality(Exchanges(u)) \in Nat
  BY SizeBounds
<1> DEFINE T == Exchanges(u) \ {1}
           f == [n \in T |-> n - 1]
<1>3. \A n \in T : n - 1 \in Exchanges(t) /\ n \in Nat
  <2>1. SUFFICES ASSUME NEW n \in T PROVE n - 1 \in Exchanges(t) /\ n \in Nat
    OBVIOUS
  <2>2. n \in 1..(Len(t) + 1) /\ n # 1 /\ u[n] \in Known /\ Has("output", u[n])
    BY <1>1 DEF Exchanges
  <2>3. n - 1 \in 1..Len(t) /\ u[n] = t[n - 1]
    <3>1. n - 1 \in 1..Len(t) /\ (n - 1) + 1 = n
      BY <1>1, <2>2
    <3> QED BY <3>1
  <2> QED BY <1>1, <2>2, <2>3 DEF Exchanges
<1>4. f \in Injection(T, Exchanges(t))
  <2>1. f \in [T -> Exchanges(t)]
    BY <1>3
  <2>2. \A m, n \in T : f[m] = f[n] => m = n
    BY <1>3
  <2> QED BY <2>1, <2>2 DEF Injection, IsInjective
<1> HIDE DEF T, f
<1>5. IsFiniteSet(T) /\ Cardinality(T) \in Nat /\ Cardinality(T) <= Cardinality(Exchanges(t))
  BY <1>2, <1>4, FS_Injection, FS_CardinalityType
<1>6. /\ IsFiniteSet(T \cup {1}) /\ Cardinality(T \cup {1}) <= Cardinality(T) + 1
      /\ Cardinality(T \cup {1}) \in Nat
  <2>1. /\ IsFiniteSet(T \cup {1})
        /\ Cardinality(T \cup {1}) = IF 1 \in T THEN Cardinality(T) ELSE Cardinality(T) + 1
    BY <1>5, FS_AddElement, Zenon
  <2> QED BY <1>5, <2>1
<1>7. Exchanges(u) \subseteq T \cup {1}
  BY DEF T
<1>8. Cardinality(Exchanges(u)) <= Cardinality(T \cup {1})
  BY <1>6, <1>7, FS_Subset
<1> QED BY <1>1, <1>2, <1>5, <1>6, <1>8 DEF Size

\* With what is appended it is no smaller.
LEMMA SizeAppended ==
  ASSUME NEW S, NEW s \in Seq(S), NEW x \in S
  PROVE  Size(Append(s, x)) >= Size(s)
<1> DEFINE t == Append(s, x)
<1>1. /\ t \in Seq(S) /\ Len(t) = Len(s) + 1
      /\ DOMAIN t = 1..(Len(s) + 1) /\ DOMAIN s = 1..Len(s) /\ Len(s) \in Nat
      /\ \A n \in 1..Len(s) : t[n] = s[n]
  BY Longer
<1> HIDE DEF t
<1>2. /\ IsFiniteSet(Exchanges(t)) /\ Cardinality(Exchanges(t)) \in Nat
      /\ IsFiniteSet(Exchanges(s)) /\ Cardinality(Exchanges(s)) \in Nat
  BY <1>1, SizeBounds
<1>3. Exchanges(s) \subseteq Exchanges(t)
  BY <1>1 DEF Exchanges
<1>4. Cardinality(Exchanges(s)) <= Cardinality(Exchanges(t))
  BY <1>2, <1>3, FS_Subset
<1>5. Size(t) >= Size(s)
  BY <1>1, <1>2, <1>4 DEF Size
<1> QED BY <1>5 DEF t

\* The newest group stays, and nothing goes that would still have fitted.
LEMMA TrimmedFull ==
  ASSUME NEW S, NEW s \in Seq(S), NEW x \in S
  PROVE  LET t == Trimmed(Append(s, x))
         IN /\ t \in Seq(S) /\ x \in ToSet(t)
            /\ \/ Size(t) >= MaxMessages - 1
               \/ Size(t) >= Size(s) /\ ToSet(s) \subseteq ToSet(t)
<1> DEFINE g == Append(s, x)
<1>1. /\ g \in Seq(S) /\ Len(g) = Len(s) + 1 /\ Len(s) \in Nat /\ g[Len(s) + 1] = x
      /\ ToSet(g) = ToSet(s) \cup {x} /\ Size(g) >= Size(s)
  BY Longer, SizeAppended
<1> HIDE DEF g
<1>2. g # <<>> /\ Len(g) \in Nat /\ \A n \in 1..Len(g) : g[n] \in S
  BY <1>1, EmptySeq, ElementOfSeq
<1>3. PICK k \in 1..Len(g) :
        /\ Trimmed(g) = SubSeq(g, k, Len(g))
        /\ \A j \in 1..Len(g) : Size(SubSeq(g, j, Len(g))) <= MaxMessages => k <= j
  BY <1>1, <1>2, TrimmedIs
<1> DEFINE t == SubSeq(g, k, Len(g))
<1>4. /\ t \in Seq(S) /\ Len(t) = Len(g) - k + 1
      /\ \A n \in 1..(Len(g) - k + 1) : t[n] = g[k + n - 1]
  <2>1. \A n \in k..Len(g) : g[n] \in S
    BY <1>2
  <2>2. k \in Int /\ Len(g) \in Int /\ k <= Len(g)
    BY <1>2
  <2> QED BY <2>1, <2>2, SubSeqProperties
<1> HIDE DEF t
<1>5. DOMAIN t = 1..(Len(g) - k + 1) /\ Size(t) \in Nat
  BY <1>4, LenProperties, SizeBounds
<1>6. x \in ToSet(t)
  <2>1. Len(g) - k + 1 \in DOMAIN t /\ k + (Len(g) - k + 1) - 1 = Len(g)
    BY <1>2, <1>5
  <2>2. t[Len(g) - k + 1] = x
    BY <1>1, <1>4, <1>5, <2>1
  <2> QED BY <2>1, <2>2 DEF ToSet
<1>7. CASE k = 1
  <2>1. t = g
    <3>1. Len(t) = Len(g) /\ \A n \in 1..Len(g) : t[n] = g[n]
      BY <1>2, <1>4, <1>7
    <3> QED BY <1>1, <1>4, <3>1, SeqEqual
  <2> QED BY <1>1, <1>3, <1>4, <1>6, <2>1 DEF t, g
<1>8. CASE k # 1
  <2> DEFINE u == SubSeq(g, k - 1, Len(g))
  <2>1. k - 1 \in 1..Len(g) /\ k \in Nat /\ ~(k <= k - 1)
    BY <1>2, <1>8
  <2>2. ~(Size(u) <= MaxMessages)
    BY <1>3, <2>1
  <2>3. /\ u \in Seq(S) /\ Len(u) = Len(g) - (k - 1) + 1
        /\ \A n \in 1..(Len(g) - (k - 1) + 1) : u[n] = g[(k - 1) + n - 1]
    <3>1. \A n \in (k - 1)..Len(g) : g[n] \in S
      BY <1>2, <2>1
    <3>2. k - 1 \in Int /\ Len(g) \in Int /\ k - 1 <= Len(g)
      BY <1>2, <2>1
    <3> QED BY <3>1, <3>2, SubSeqProperties
  <2> HIDE DEF u
  <2>4. Len(u) = Len(t) + 1 /\ \A n \in 1..Len(t) : u[n + 1] = t[n]
    <3>1. Len(u) = Len(t) + 1
      BY <1>2, <1>4, <2>1, <2>3
    <3>2. ASSUME NEW n \in 1..Len(t) PROVE u[n + 1] = t[n]
      <4>1. n + 1 \in 1..(Len(g) - (k - 1) + 1) /\ (k - 1) + (n + 1) - 1 = k + n - 1
        BY <1>2, <1>4, <2>1
      <4>2. u[n + 1] = g[(k - 1) + (n + 1) - 1]
        BY <2>3, <4>1
      <4>3. t[n] = g[k + n - 1]
        BY <1>4
      <4> QED BY <4>1, <4>2, <4>3
    <3> QED BY <3>1, <3>2
  <2>5. Size(u) <= Size(t) + 2 /\ Size(u) \in Nat
    BY <1>4, <2>3, <2>4, SizeGrows, SizeBounds
  <2>6. Size(t) >= MaxMessages - 1
    BY <1>5, <2>2, <2>5, ContextAssumption DEF ContextAssumption
  <2> QED BY <1>3, <1>4, <1>6, <2>6 DEF t, g
<1> QED BY <1>7, <1>8

\* In the conversation, or the conversation has been full.
There(i) == i \in ToSet(history) \/ Full

\* What is there stays while the conversation does.
LEMMA ThereStays ==
  ASSUME TypeOK, Lasting, UNCHANGED history
  PROVE  \A i : There(i) => There(i)'
<1>1. \A n \in DOMAIN history : history[n] \in Known
  BY LenProperties, ElementOfSeq DEF TypeOK
<1>2. Exchanges(history)' = Exchanges(history)
  BY <1>1 DEF Exchanges, Lasting, Has
<1> QED BY <1>2 DEF There, Full, Size

\* What is appended is there then, and the rest stays or has filled it.
LEMMA ThereAppended ==
  ASSUME TypeOK, Lasting, NEW i \in Known', history' = Appended(i),
         \A j \in Known' \ Known : made'[j].kind # "output"
  PROVE  /\ There(i)'
         /\ \A j : There(j) => There(j)'
<1>1. history \in Seq(Known') /\ Known \subseteq Known'
  <2>1. Known \subseteq Known'
    BY DEF Lasting
  <2> QED BY <2>1, SeqMonotonic DEF TypeOK
<1>2. /\ history' \in Seq(Known') /\ i \in ToSet(history')
      /\ \/ Size(history') >= MaxMessages - 1
         \/ Size(history') >= Size(history) /\ ToSet(history) \subseteq ToSet(history')
  <2>1. LET t == Trimmed(Append(history, i))
        IN /\ t \in Seq(Known') /\ i \in ToSet(t)
           /\ \/ Size(t) >= MaxMessages - 1
              \/ Size(t) >= Size(history) /\ ToSet(history) \subseteq ToSet(t)
    BY <1>1, TrimmedFull
  <2> QED BY <2>1 DEF Appended
<1>3. \A n \in DOMAIN history' : history'[n] \in Known'
  BY <1>2, LenProperties, ElementOfSeq
<1>4. Exchanges(history)' = Exchanges(history')
  BY <1>3 DEF Exchanges, Lasting, Has
<1>5. Size(history)' = Size(history')
  BY <1>4 DEF Size
<1>6. Size(history') \in Nat /\ Size(history) \in Nat
  BY <1>1, <1>2, SizeBounds
<1>7. Size(history') >= MaxMessages - 1 => Full'
  BY <1>5 DEF Full
<1>8. Full /\ Size(history') >= Size(history) => Full'
  BY <1>5, <1>6, ContextAssumption DEF Full, ContextAssumption
<1> QED BY <1>2, <1>7, <1>8 DEF There

\* What the service must know: a message or an exchange.
Owed(i) == ~Has("said", i) /\ ~Has("call", i)

\* The acknowledgement of the call's output comes after event n.
Waits(c, n) ==
  todo # <<>> /\ OutputOf(todo[1], c) =>
    waiter # "acked" /\ \A m \in DOMAIN events : m < n => events[m].kind # "ack"

\* A call is open for the plugin when it hears event n.
Covered(n) ==
  \E c \in Known : /\ c \in Dangling \/ \E m \in Calls : m < n /\ events[m].of = c
                   /\ Waits(c, n)

\* Connected: what is replayed next is in the conversation, what the plugin is
\* about to confirm too, but for a filler that it will leave out.
HistoryLive ==
  /\ \A i \in Replayed : Owed(i) => There(i)
  /\ \A n \in Adds : Has("message", events[n].of) =>
       There(events[n].of) \/ (events[n].kind = "filler" /\ Covered(n))
  /\ waiter = "acked" \/ (\E n \in DOMAIN events : events[n].kind = "ack") => There(todo[1])

\* During the bootstrap: it is there or still to be sent.
HistoryBoot == \A i \in Replayed : Owed(i) => There(i) \/ i \in ToSet(replay)

HistoryInv == (link = "live" => HistoryLive) /\ (link = "boot" => HistoryBoot)

\* A step that marks more items replays no other.
LEMMA ReplayedStays ==
  ASSUME TypeOK, Lasting, UNCHANGED ctx, invalid \subseteq invalid', unplayed \subseteq unplayed'
  PROVE  \A i \in Replayed' : i \in Replayed /\ (Owed(i)' => Owed(i))
<1>1. \A i \in ToSet(ctx) : i \in Known /\ made'[i] = made[i]
  BY Shapes DEF Lasting
<1> QED BY <1>1 DEF Replayed, Skipped, CallOf, Owed, Has

\* What is told later leaves an open call open.
LEMMA CoveredTold ==
  ASSUME TypeOK, Lasting, UNCHANGED <<ctx, todo, waiter>>,
         NEW k \in EventKinds, NEW o \in 0..MaxItems, Tell(k, o)
  PROVE  \A n \in DOMAIN events : Covered(n) => Covered(n)'
<1>1. SUFFICES ASSUME NEW n \in DOMAIN events, Covered(n) PROVE Covered(n)'
  OBVIOUS
<1>2. /\ DOMAIN events = 1..Len(events) /\ DOMAIN events' = 1..(Len(events) + 1)
      /\ Len(events) \in Nat
      /\ \A m \in DOMAIN events : events'[m] = events[m]
  BY Told
<1>3. PICK c \in Known : /\ c \in Dangling \/ \E m \in Calls : m < n /\ events[m].of = c
                         /\ Waits(c, n)
  BY <1>1 DEF Covered
<1>4. c \in Known' /\ Dangling' = Dangling
  BY DanglingStays DEF Lasting
<1>5. (\E m \in Calls : m < n /\ events[m].of = c) => \E m \in Calls' : m < n /\ events'[m].of = c
  BY <1>2 DEF Calls
<1>6. todo # <<>> => todo[1] \in Known
  BY Shorter DEF TypeOK
<1>7. \A m \in DOMAIN events' : m < n => m \in DOMAIN events /\ events'[m] = events[m]
  BY <1>2
<1>8. Waits(c, n)'
  BY <1>3, <1>6, <1>7 DEF Waits, OutputOf, Has, Lasting
<1> QED BY <1>3, <1>4, <1>5, <1>8 DEF Covered

\* The service tells something: only the new event has to be looked at.
LEMMA HistoryTold ==
  ASSUME TypeOK, Fresh, HistoryLive, Lasting,
         UNCHANGED <<ctx, invalid, unplayed, todo, waiter>>, \A i : There(i) => There(i)',
         NEW k \in EventKinds, NEW o \in 0..MaxItems, Tell(k, o),
         NEW last, last = Len(events) + 1,
         k \in {"item", "filler", "call"} /\ Has("message", o)' =>
           There(o)' \/ (k = "filler" /\ Covered(last)'),
         k = "ack" => There(todo[1])'
  PROVE  HistoryLive'
<1>1. /\ DOMAIN events = 1..Len(events) /\ DOMAIN events' = 1..last
      /\ Len(events) \in Nat
      /\ \A m \in DOMAIN events : events'[m] = events[m]
      /\ events'[last].kind = k /\ events'[last].of = o
  BY Told
<1>2. \A n \in DOMAIN events' : n \in DOMAIN events \/ n = last
  BY <1>1
<1>3. \A i \in Replayed' : Owed(i)' => There(i)'
  BY ReplayedStays DEF HistoryLive
<1>4. ASSUME NEW n \in Adds', Has("message", events[n].of)'
      PROVE  There(events[n].of)' \/ (events'[n].kind = "filler" /\ Covered(n)')
  <2>1. CASE n \in DOMAIN events
    <3>1. n \in Adds /\ events'[n] = events[n]
      BY <1>1, <2>1 DEF Adds
    <3>2. events[n].of \in Known
      BY <3>1 DEF Fresh
    <3>3. Has("message", events[n].of)
      BY <1>4, <3>1, <3>2 DEF Has, Lasting
    <3>4. There(events[n].of) \/ (events[n].kind = "filler" /\ Covered(n))
      BY <3>1, <3>3 DEF HistoryLive
    <3>5. \A j : j = events[n].of /\ There(j) => There(events[n].of)'
      <4>1. SUFFICES ASSUME NEW j, j = events[n].of, There(j) PROVE There(events[n].of)'
        OBVIOUS
      <4>2. There(j)' /\ events'[n].of = j
        BY <3>1, <4>1
      <4> QED BY <4>2 DEF There
    <3>6. Covered(n) => Covered(n)'
      BY <2>1, CoveredTold
    <3> QED BY <3>1, <3>4, <3>5, <3>6
  <2>2. CASE n = last
    <3>1. k \in {"item", "filler", "call"} /\ events'[n].of = o /\ events'[n].kind = k
      BY <1>1, <1>4, <2>2 DEF Adds
    <3>2. Has("message", o)'
      BY <1>4, <3>1 DEF Has
    <3>3. There(o)' \/ (k = "filler" /\ Covered(n)')
      BY <2>2, <3>1, <3>2
    <3> QED BY <3>1, <3>3 DEF There
  <2> QED BY <1>2, <1>4, <2>1, <2>2 DEF Adds
<1>5. ASSUME waiter' = "acked" \/ \E n \in DOMAIN events' : events'[n].kind = "ack"
      PROVE  There(todo[1])'
  <2>1. CASE k = "ack"
    BY <2>1
  <2>2. CASE k # "ack"
    <3>1. waiter = "acked" \/ \E n \in DOMAIN events : events[n].kind = "ack"
      BY <1>1, <1>2, <1>5, <2>2
    <3>2. There(todo[1])
      BY <3>1 DEF HistoryLive
    <3>3. PICK j : j = todo[1]
      OBVIOUS
    <3>4. There(j)' /\ todo'[1] = j
      BY <3>2, <3>3
    <3> QED BY <3>4 DEF There
  <2> QED BY <2>1, <2>2
<1> QED BY <1>3, <1>4, <1>5 DEF HistoryLive

\* The plugin hears something: the events behind it move up.
LEMMA HistoryHeard ==
  ASSUME TypeOK, Fresh, HistoryLive, NEW k, Hears(k),
         \A i \in Replayed' : Owed(i)' => There(i),
         \A n \in DOMAIN events' : Covered(n + 1) => Covered(n)',
         waiter' = "acked" \/ (\E n \in DOMAIN events' : events'[n].kind = "ack") =>
           waiter = "acked" \/ \E n \in DOMAIN events : events[n].kind = "ack"
  PROVE  HistoryLive'
<1>1. /\ \A n \in DOMAIN events' : n + 1 \in DOMAIN events /\ events'[n] = events[n + 1]
  BY Heard
<1>2. UNCHANGED <<made, todo, history>>
  BY DEF Hears, serviceVars
<1>3. \A i : There(i) => There(i)'
  BY <1>2, NothingMade, ThereStays
<1>4. ASSUME NEW n \in Adds', Has("message", events[n].of)'
      PROVE  There(events[n].of)' \/ (events'[n].kind = "filler" /\ Covered(n)')
  <2>1. n + 1 \in Adds /\ events'[n] = events[n + 1] /\ n \in DOMAIN events'
    BY <1>1 DEF Adds
  <2>2. Has("message", events[n + 1].of)
    BY <1>2, <1>4, <2>1 DEF Has
  <2>3. There(events[n + 1].of) \/ (events[n + 1].kind = "filler" /\ Covered(n + 1))
    BY <2>1, <2>2 DEF HistoryLive
  <2>4. PICK j : j = events[n + 1].of
    OBVIOUS
  <2>5. There(j) => There(events[n].of)'
    <3>1. There(j) => There(j)'
      BY <1>3
    <3>2. events'[n].of = j
      BY <2>1, <2>4
    <3> QED BY <3>1, <3>2 DEF There
  <2> QED BY <2>1, <2>3, <2>4, <2>5
<1>5. ASSUME waiter' = "acked" \/ \E n \in DOMAIN events' : events'[n].kind = "ack"
      PROVE  There(todo[1])'
  <2>1. There(todo[1])
    BY <1>5 DEF HistoryLive
  <2>2. PICK j : j = todo[1]
    OBVIOUS
  <2>3. There(j)' /\ todo'[1] = j
    BY <1>2, <1>3, <2>1, <2>2
  <2> QED BY <2>3 DEF There
<1>6. \A i \in Replayed' : Owed(i)' => There(i)'
  BY <1>3
<1> QED BY <1>4, <1>5, <1>6 DEF HistoryLive

\* Update: the conversation is not touched.
LEMMA UpdateHistory ==
  ASSUME IInv, HistoryInv, Update, ~BootUpdates
  PROVE  HistoryInv'
<1>1. TypeOK /\ Fresh /\ Underway /\ todo = <<>>
      /\ UNCHANGED <<invalid, unplayed, link, events, history>>
  BY DEF IInv, Update, serviceVars
<1>2. link # "boot"
  BY DEF Update
<1>3. ASSUME link = "live" PROVE HistoryLive'
  <2>1. HistoryLive
    BY <1>3 DEF HistoryInv
  <2>2. Lasting /\ UNCHANGED ctx /\ waiter' = "waiting"
    <3>1. PICK new :
            /\ Lasting
            /\ IF link = "live"
                 THEN /\ todo' = new /\ waiter' = "waiting" /\ outbound' = Head(new)
                      /\ UNCHANGED ctx
                 ELSE ctx' = ctx \o new /\ UNCHANGED <<todo, waiter, outbound>>
      BY UpdateMakes
    <3> QED BY <1>3, <3>1
  <2>3. \A n \in DOMAIN events : events[n].kind # "ack"
    BY <1>1 DEF Underway, Answers
  <2>4. \A i : There(i) => There(i)'
    BY <1>1, <2>2, ThereStays
  <2>5. \A i \in Replayed' : Owed(i)' => There(i)'
    BY <1>1, <2>1, <2>2, <2>4, ReplayedStays DEF HistoryLive
  <2>6. Dangling' = Dangling
    BY <1>1, <2>2, DanglingStays
  <2>7. ASSUME NEW n \in Adds, Covered(n) PROVE Covered(n)'
    <3>1. \A c : Waits(c, n)'
      BY <1>1, <2>2, <2>3 DEF Waits
    <3> QED BY <1>1, <2>2, <2>6, <2>7, <3>1 DEF Covered, Calls, Lasting
  <2>8. ASSUME NEW n \in Adds', Has("message", events[n].of)'
        PROVE  There(events[n].of)' \/ (events'[n].kind = "filler" /\ Covered(n)')
    <3>1. n \in Adds /\ events' = events
      BY <1>1 DEF Adds
    <3>2. Has("message", events[n].of)
      BY <1>1, <2>2, <2>8, <3>1 DEF Has, Lasting, Fresh
    <3>3. PICK j : j = events[n].of
      OBVIOUS
    <3>4. There(j) => There(j)'
      BY <2>4
    <3>5. There(events[n].of) => There(events[n].of)'
      BY <3>1, <3>3, <3>4 DEF There
    <3> QED BY <2>1, <2>7, <3>1, <3>2, <3>5 DEF HistoryLive
  <2> QED BY <1>1, <2>2, <2>3, <2>5, <2>8 DEF HistoryLive
<1> QED BY <1>1, <1>2, <1>3 DEF HistoryInv

\* Resume: what is confirmed is in the conversation.
LEMMA ResumeHistory ==
  ASSUME IInv, HistoryInv, Resume
  PROVE  HistoryInv'
<1> DEFINE t == todo[1]
<1>1. /\ TypeOK /\ Fresh /\ Underway
      /\ waiter \in {"acked", "failed"} /\ ctx' = Grown(waiter = "acked")
      /\ UNCHANGED <<made, invalid, unplayed, link, replay, events, history>>
  BY DEF IInv, Resume, serviceVars
<1>2. todo # <<>> /\ Answers = {} /\ Lasting
  BY <1>1, NothingMade DEF Underway, Answers
<1>3. Head(todo) = t /\ t \in Known
  BY <1>1, <1>2, Shorter DEF TypeOK
<1>4. \/ waiter = "acked" /\ ctx' = Append(ctx, t)
      \/ waiter = "failed" /\ ctx' = ctx
  BY <1>1, <1>3 DEF Grown
<1>5. waiter' # "acked" /\ \A n \in DOMAIN events : events[n].kind # "ack"
  BY <1>2 DEF Resume, Answers
<1>6. \A i : There(i) => There(i)'
  BY <1>1, <1>2, ThereStays
<1>7. ASSUME link = "live" PROVE HistoryLive'
  <2>1. HistoryLive
    BY <1>7 DEF HistoryInv
  <2>2. waiter = "acked" => There(t)
    BY <2>1 DEF HistoryLive
  <2>3. \A i \in ToSet(ctx') : i \in ToSet(ctx) \/ (waiter = "acked" /\ i = t)
    <3>1. waiter = "acked" => ToSet(ctx') = ToSet(ctx) \cup {t}
      <4>1. ctx \in Seq(Known) /\ t \in Known /\ (waiter = "acked" => ctx' = Append(ctx, t))
        BY <1>1, <1>3, <1>4 DEF TypeOK
      <4> HIDE DEF t
      <4>2. ToSet(Append(ctx, t)) = ToSet(ctx) \cup {t}
        BY <4>1, Longer
      <4> QED BY <4>1, <4>2
    <3> QED BY <1>4, <3>1
  <2> HIDE DEF t
  <2>4. \A i \in Replayed' : Owed(i)' => There(i)
    <3>1. \A i : (Skipped(i)' <=> Skipped(i)) /\ (Owed(i)' <=> Owed(i))
      BY <1>1 DEF Skipped, CallOf, Owed, Has
    <3>2. \A i \in Replayed' : i \in Replayed \/ (waiter = "acked" /\ i = t)
      BY <2>3, <3>1 DEF Replayed
    <3> QED BY <2>1, <2>2, <3>1, <3>2 DEF HistoryLive
  <2>5. ASSUME NEW n \in Adds, Covered(n) PROVE Covered(n)'
    <3>1. PICK c \in Known : /\ c \in Dangling \/ \E m \in Calls : m < n /\ events[m].of = c
                             /\ Waits(c, n)
      BY <2>5 DEF Covered
    <3>2. c \in Dangling => c \in Dangling'
      <4>1. CASE ctx' = ctx
        BY <1>1, <4>1 DEF Dangling, Answered, Has
      <4>2. CASE waiter = "acked" /\ ctx' = Append(ctx, t)
        <5>1. ~OutputOf(t, c)
          BY <1>2, <3>1, <4>2 DEF Waits, t
        <5>2. CASE Has("output", t)
          BY <1>1, <1>3, <4>2, <5>1, <5>2, DanglingOutput DEF OutputOf
        <5>3. CASE ~Has("output", t)
          BY <1>1, <1>3, <4>2, <5>3, DanglingAppended
        <5> QED BY <5>2, <5>3
      <4> QED BY <1>4, <4>1, <4>2
    <3>3. Waits(c, n)'
      BY <1>1, <1>5 DEF Waits
    <3> QED BY <1>1, <3>1, <3>2, <3>3 DEF Covered, Calls, Known
  <2>6. ASSUME NEW n \in Adds', Has("message", events[n].of)'
        PROVE  There(events[n].of)' \/ (events'[n].kind = "filler" /\ Covered(n)')
    <3>1. n \in Adds /\ events' = events
      BY <1>1 DEF Adds
    <3>2. Has("message", events[n].of)
      BY <1>1, <2>6, <3>1 DEF Has
    <3>3. PICK j : j = events[n].of
      OBVIOUS
    <3>4. There(j) => There(j)'
      BY <1>6
    <3>5. There(events[n].of) => There(events[n].of)'
      BY <3>1, <3>3, <3>4 DEF There
    <3> QED BY <2>1, <2>5, <3>1, <3>2, <3>5 DEF HistoryLive
  <2> QED BY <1>1, <1>5, <1>6, <2>4, <2>6 DEF HistoryLive
<1>8. ASSUME link = "boot" PROVE HistoryBoot'
  <2>1. waiter = "failed" /\ HistoryBoot
    BY <1>1, <1>8 DEF IInv, BootInv, Continued, HistoryInv
  <2>2. UNCHANGED ctx
    BY <1>4, <2>1
  <2>3. \A i \in Replayed' : i \in Replayed /\ (Owed(i)' => Owed(i))
    BY <1>1, <1>2, <2>2, ReplayedStays
  <2> QED BY <1>1, <1>6, <2>1, <2>3 DEF HistoryBoot
<1> QED BY <1>1, <1>7, <1>8 DEF HistoryInv

\* Send changes nothing of it.
LEMMA SendHistory ==
  ASSUME IInv, HistoryInv, Send
  PROVE  HistoryInv'
<1>1. CASE Disconnected
  BY <1>1 DEF Disconnected, HistoryInv
<1>2. CASE ~Disconnected
  <2>1. UNCHANGED <<made, ctx, invalid, unplayed, link, replay, todo, waiter, events, history>>
    BY <1>2 DEF Send, serviceVars
  <2> QED BY <2>1 DEF HistoryInv, HistoryLive, HistoryBoot, Replayed, Skipped, CallOf, Owed, Has, Adds,
                      There, Full, Size, Exchanges, Known, Covered, Waits, OutputOf, Calls, Dangling, Answered
<1> QED BY <1>1, <1>2

\* BootBegins: everything is still to be sent.
LEMMA BootHistory ==
  ASSUME IInv, HistoryInv, BootBegins
  PROVE  HistoryInv'
BY DEF BootBegins, HistoryInv, HistoryBoot, Replayed

\* BootEnds: nothing is still to be sent.
LEMMA BootEndHistory ==
  ASSUME IInv, HistoryInv, BootEnds
  PROVE  HistoryInv'
<1>1. /\ TypeOK /\ Underway /\ Continued /\ HistoryBoot
      /\ link = "boot" /\ replay = <<>> /\ link' = "live"
      /\ UNCHANGED <<made, ctx, invalid, unplayed, todo, waiter, events, history>>
  BY DEF IInv, BootInv, BootEnds, serviceVars, HistoryInv
<1>2. DOMAIN events' = {} /\ ToSet(replay) = {} /\ waiter' # "acked"
  BY <1>1 DEF Underway, Continued, ToSet
<1>3. Lasting
  BY <1>1, NothingMade
<1>4. \A i \in Replayed' : Owed(i)' => There(i)'
  <2>1. \A i \in Replayed' : Owed(i)' => There(i)
    BY <1>1, <1>2, <1>3, ReplayedStays DEF HistoryBoot
  <2> QED BY <1>1, <1>3, <2>1, ThereStays
<1>5. HistoryLive'
  BY <1>2, <1>4 DEF HistoryLive, Adds
<1> QED BY <1>1, <1>5 DEF HistoryInv

\* ReplayItem: what is sent is in the conversation then.
LEMMA ReplayHistory ==
  ASSUME IInv, HistoryInv, ReplayItem
  PROVE  HistoryInv'
<1> DEFINE h == replay[1]
<1>1. /\ TypeOK /\ HistoryBoot
      /\ link = "boot" /\ replay # <<>> /\ replay' = Tail(replay)
      /\ UNCHANGED <<made, ctx, invalid, unplayed, link>>
  BY DEF IInv, ReplayItem, HistoryInv
<1>2. Head(replay) = h /\ h \in Known /\ ToSet(replay) = {h} \cup ToSet(replay')
  BY <1>1, Shorter DEF TypeOK
<1>3. Lasting /\ Known' = Known
  BY <1>1, NothingMade
<1>4. \A i \in Replayed' : i \in Replayed /\ (Owed(i)' => Owed(i))
  BY <1>1, <1>3, ReplayedStays
<1>5. \/ Skipped(h) /\ UNCHANGED history
      \/ ~Skipped(h) /\ Take(h)
  BY <1>2 DEF ReplayItem, serviceVars
<1> HIDE DEF h
<1>6. CASE UNCHANGED history /\ (h \in Replayed => ~Owed(h))
  <2>1. \A i : There(i) => There(i)'
    BY <1>1, <1>3, <1>6, ThereStays
  <2>2. HistoryBoot'
    BY <1>1, <1>2, <1>4, <1>6, <2>1 DEF HistoryBoot
  <2> QED BY <1>1, <2>2 DEF HistoryInv
<1>7. CASE history' = Appended(h)
  <2>1. PICK j \in Known' : j = h
    BY <1>2, <1>3
  <2>2. There(j)' /\ \A i : There(i) => There(i)'
    BY <1>1, <1>3, <1>7, <2>1, ThereAppended
  <2>3. HistoryBoot'
    BY <1>1, <1>2, <1>4, <2>1, <2>2 DEF HistoryBoot
  <2> QED BY <1>1, <2>3 DEF HistoryInv
<1> QED BY <1>5, <1>6, <1>7 DEF Take, Owed, Replayed

\* What is heard before event n + 1 leaves its call open.
LEMMA CoveredHeard ==
  ASSUME TypeOK, NEW k, Hears(k), Dangling \subseteq Dangling',
         k = "call" => events[1].of \in Dangling',
         waiter' = "acked" => waiter = "acked" \/ k = "ack"
  PROVE  \A n \in DOMAIN events' : Covered(n + 1) => Covered(n)'
<1>1. SUFFICES ASSUME NEW n \in DOMAIN events', Covered(n + 1) PROVE Covered(n)'
  OBVIOUS
<1>2. /\ DOMAIN events = 1..Len(events) /\ DOMAIN events' = 1..(Len(events) - 1)
      /\ Len(events) \in Nat /\ 1 <= Len(events)
      /\ \A m \in DOMAIN events' : m + 1 \in DOMAIN events /\ events'[m] = events[m + 1]
      /\ events[1].kind = k
  BY Heard
<1>3. UNCHANGED <<made, todo>>
  BY DEF Hears
<1>4. PICK c \in Known : /\ c \in Dangling \/ \E m \in Calls : m < n + 1 /\ events[m].of = c
                         /\ Waits(c, n + 1)
  BY <1>1 DEF Covered
<1>5. c \in Known'
  BY <1>3 DEF Known
<1>6. c \in Dangling' \/ \E m \in Calls' : m < n /\ events'[m].of = c
  <2>1. ASSUME NEW m \in Calls, m < n + 1, events[m].of = c
        PROVE  c \in Dangling' \/ \E j \in Calls' : j < n /\ events'[j].of = c
    <3>1. CASE m = 1
      BY <1>2, <2>1, <3>1 DEF Calls
    <3>2. CASE m # 1
      <4>1. m - 1 \in DOMAIN events' /\ events'[m - 1] = events[m] /\ m - 1 < n
        <5>1. m \in 1..Len(events) /\ m - 1 \in 1..(Len(events) - 1) /\ (m - 1) + 1 = m /\ m - 1 < n
          BY <1>2, <2>1, <3>2 DEF Calls
        <5> QED BY <1>2, <5>1
      <4>2. m - 1 \in Calls'
        BY <4>1 DEF Calls
      <4> QED BY <2>1, <4>1, <4>2
    <3> QED BY <3>1, <3>2
  <2> QED BY <1>4, <2>1
<1>7. Waits(c, n)'
  <2>1. SUFFICES ASSUME todo # <<>>, OutputOf(todo[1], c)
                 PROVE  waiter' # "acked" /\ \A m \in DOMAIN events' : m < n => events'[m].kind # "ack"
    BY <1>3 DEF Waits, OutputOf, Has
  <2>2. waiter # "acked" /\ \A m \in DOMAIN events : m < n + 1 => events[m].kind # "ack"
    BY <1>4, <2>1 DEF Waits
  <2>3. 1 \in DOMAIN events /\ 1 < n + 1
    BY <1>2
  <2>4. k # "ack"
    BY <1>2, <2>2, <2>3
  <2>5. \A m \in DOMAIN events' : m < n => m + 1 < n + 1
    BY <1>2
  <2> QED BY <1>2, <2>2, <2>4, <2>5
<1> QED BY <1>5, <1>6, <1>7 DEF Covered

\* HearsAnswer: the acknowledged item is in the conversation.
LEMMA AnswerHistory ==
  ASSUME IInv, HistoryInv, NEW k, NEW outcome, HearsAnswer(k, outcome),
         (k = "ack" /\ outcome = "acked") \/ (k = "refused" /\ outcome = "failed")
  PROVE  HistoryInv'
<1>1. /\ TypeOK /\ Fresh /\ Hears(k) /\ UNCHANGED <<ctx, invalid, unplayed, made, link>>
  BY DEF IInv, HearsAnswer, Hears
<1>2. /\ link = "live" /\ DOMAIN events = 1..Len(events) /\ Len(events) \in Nat /\ 1 <= Len(events)
      /\ \A n \in DOMAIN events' : n + 1 \in DOMAIN events /\ events'[n] = events[n + 1]
      /\ events[1].kind = k
  BY <1>1, Heard
<1>3. HistoryLive
  BY <1>2 DEF HistoryInv
<1>4. Dangling' = Dangling /\ Lasting
  BY <1>1, NothingMade DEF Dangling, Answered, Has
<1>5. waiter' = "acked" => waiter = "acked" \/ k = "ack"
  BY DEF HearsAnswer
<1>6. \A i \in Replayed' : Owed(i)' => There(i)
  BY <1>1, <1>3, <1>4, ReplayedStays DEF HistoryLive
<1>7. waiter' = "acked" \/ (\E n \in DOMAIN events' : events'[n].kind = "ack") =>
        waiter = "acked" \/ \E n \in DOMAIN events : events[n].kind = "ack"
  <2>1. 1 \in DOMAIN events
    BY <1>2
  <2> QED BY <1>2, <1>5, <2>1
<1>8. \A n \in DOMAIN events' : Covered(n + 1) => Covered(n)'
  <2>1. k # "call"
    OBVIOUS
  <2> QED BY <1>1, <1>4, <1>5, <2>1, CoveredHeard
<1>9. HistoryLive'
  BY <1>1, <1>3, <1>6, <1>7, <1>8, HistoryHeard
<1> QED BY <1>1, <1>2, <1>9 DEF HistoryInv

\* HearsItem and HearsFiller: a filler that the service lacks is not replayed.
LEMMA ItemHistory ==
  ASSUME IInv, HistoryInv, NEW k \in {"item", "filler", "call"}, Hears(k),
         ctx' = Append(ctx, Head(events).of), UNCHANGED <<invalid, waiter>>,
         unplayed \subseteq unplayed',
         k = "filler" /\ Dangling # {} => Head(events).of \in unplayed'
  PROVE  HistoryInv'
<1> DEFINE i == events[1].of
<1>1. /\ TypeOK /\ Marks /\ Fresh /\ UNCHANGED <<made, link>>
  BY DEF IInv, Hears
<1>2. /\ link = "live" /\ DOMAIN events = 1..Len(events) /\ Len(events) \in Nat /\ 1 <= Len(events)
      /\ \A n \in DOMAIN events' : n + 1 \in DOMAIN events /\ events'[n] = events[n + 1]
      /\ events[1].kind = k
  BY <1>1, Heard
<1>3. HistoryLive
  BY <1>2 DEF HistoryInv
<1>4. /\ i \in Known /\ ctx' = Append(ctx, i) /\ Head(events).of = i
      /\ ToSet(ctx') = ToSet(ctx) \cup {i}
      /\ ~Has("output", i) /\ (Has("call", i) <=> k = "call")
  BY <1>1, ItemAppended
<1>5. 1 \in Adds
  BY <1>2 DEF Adds
<1>6. Has("message", i) => There(i) \/ (k = "filler" /\ Covered(1))
  BY <1>2, <1>3, <1>5 DEF HistoryLive
<1> HIDE DEF i
<1>7. Dangling \subseteq Dangling'
  BY <1>1, <1>4, DanglingAppended
<1>8. k = "call" => events[1].of \in Dangling'
  BY CallOpens
<1>9. \A n \in DOMAIN events' : Covered(n + 1) => Covered(n)'
  BY <1>1, <1>7, <1>8, CoveredHeard
<1>10. Covered(1) => Dangling # {}
  <2>1. \A m \in Calls : ~(m < 1)
    BY <1>2 DEF Calls
  <2> QED BY <2>1 DEF Covered
<1>11. ASSUME i \in Replayed', Owed(i) PROVE There(i)
  <2>1. Has("message", i)
    <3>1. made[i].kind \in Kinds
      BY <1>1, <1>4, Shapes
    <3> QED BY <1>4, <1>11, <3>1 DEF Owed, Has, Kinds
  <2>2. i \notin unplayed'
    BY <1>11 DEF Replayed, Skipped
  <2> QED BY <1>4, <1>6, <1>10, <2>1, <2>2
<1>12. \A j \in Replayed' : Owed(j)' => There(j)
  <2>1. \A j : (Owed(j)' <=> Owed(j)) /\ (Skipped(j) => Skipped(j)')
    BY <1>1 DEF Owed, Has, Skipped, CallOf
  <2>2. \A j \in Replayed' : j \in Replayed \/ j = i
    BY <1>4, <2>1 DEF Replayed
  <2> QED BY <1>3, <1>11, <2>1, <2>2 DEF HistoryLive
<1>13. waiter' = "acked" \/ (\E n \in DOMAIN events' : events'[n].kind = "ack") =>
         waiter = "acked" \/ \E n \in DOMAIN events : events[n].kind = "ack"
  BY <1>2
<1>14. HistoryLive'
  BY <1>1, <1>3, <1>9, <1>12, <1>13, HistoryHeard
<1> QED BY <1>1, <1>2, <1>14 DEF HistoryInv

\* HearsSpeech: less is replayed.
LEMMA SpeechHistory ==
  ASSUME IInv, HistoryInv, HearsSpeech
  PROVE  HistoryInv'
<1>1. /\ TypeOK /\ Fresh /\ Hears("speech") /\ UNCHANGED <<made, ctx, unplayed, link, waiter>>
      /\ invalid \subseteq invalid'
  BY DEF IInv, HearsSpeech, Hears
<1>2. /\ link = "live"
      /\ \A n \in DOMAIN events' : n + 1 \in DOMAIN events /\ events'[n] = events[n + 1]
  BY <1>1, Heard
<1>3. HistoryLive
  BY <1>2 DEF HistoryInv
<1>4. Dangling' = Dangling /\ Lasting
  BY <1>1, NothingMade DEF Dangling, Answered, Has
<1>5. \A i \in Replayed' : Owed(i)' => There(i)
  BY <1>1, <1>3, <1>4, ReplayedStays DEF HistoryLive
<1>6. \A n \in DOMAIN events' : Covered(n + 1) => Covered(n)'
  BY <1>1, <1>4, CoveredHeard
<1>7. waiter' = "acked" \/ (\E n \in DOMAIN events' : events'[n].kind = "ack") =>
        waiter = "acked" \/ \E n \in DOMAIN events : events[n].kind = "ack"
  BY <1>1, <1>2
<1>8. HistoryLive'
  BY <1>1, <1>3, <1>5, <1>6, <1>7, HistoryHeard
<1> QED BY <1>1, <1>2, <1>8 DEF HistoryInv

\* ServiceTakes: what is acknowledged is in the conversation.
LEMMA TakeHistory ==
  ASSUME IInv, HistoryInv, ServiceTakes
  PROVE  HistoryInv'
<1>1. /\ TypeOK /\ Fresh /\ Underway /\ HistoryLive /\ link = "live" /\ link' = "live"
      /\ sent # None /\ UNCHANGED <<made, ctx, invalid, unplayed, todo, waiter>>
  BY DEF IInv, HistoryInv, ServiceTakes, pluginVars
<1>2. /\ waiter = "waiting" /\ sent = todo[1] /\ todo # <<>> /\ sent \in Known
      /\ sent \in 0..MaxItems
  <2>1. waiter = "waiting" /\ sent = todo[1] /\ todo # <<>> /\ sent \in Known
    BY <1>1 DEF Underway, TypeOK
  <2>2. Len(made) \in Nat /\ Len(made) <= MaxItems
    BY <1>1, Shapes DEF TypeOK
  <2>3. sent \in 0..MaxItems
    BY <2>1, <2>2, ContextAssumption DEF ContextAssumption, Known
  <2> QED BY <2>1, <2>3
<1>3. Lasting /\ Known' = Known
  BY <1>1, NothingMade
<1>4. PICK o : o = sent
  OBVIOUS
<1>5. PICK last : last = Len(events) + 1
  OBVIOUS
<1>6. CASE Accepts(sent) /\ Take(sent) /\ Tell("ack", sent)
  <2>1. ~Has("call", o)
    <3>1. 1 \in DOMAIN todo
      BY <1>1, <1>2, Shapes, EmptySeq DEF TypeOK
    <3> QED BY <1>1, <1>2, <1>4, <3>1 DEF Underway, Has
  <2>2. history' = Appended(o)
    BY <1>4, <1>6, <2>1 DEF Take
  <2>3. /\ There(o)'
        /\ \A j : There(j) => There(j)'
    BY <1>1, <1>2, <1>3, <1>4, <2>2, ThereAppended
  <2>4. There(todo[1])'
    BY <1>1, <1>2, <1>4, <2>3 DEF There
  <2>5. "ack" \in EventKinds /\ "ack" \notin {"item", "filler", "call"}
    BY DEF EventKinds
  <2>6. Tell("ack", o) /\ o \in 0..MaxItems
    BY <1>2, <1>4, <1>6
  <2>7. HistoryLive'
    BY <1>1, <1>3, <1>5, <2>3, <2>4, <2>5, <2>6, HistoryTold
  <2> QED BY <1>1, <2>7 DEF HistoryInv
<1>7. CASE Tell("refused", sent) /\ UNCHANGED serviceVars
  <2>1. \A j : There(j) => There(j)'
    BY <1>1, <1>3, <1>7, ThereStays DEF serviceVars
  <2>2. "refused" \in EventKinds /\ "refused" \notin {"item", "filler", "call"}
    BY DEF EventKinds
  <2>3. Tell("refused", o) /\ o \in 0..MaxItems
    BY <1>2, <1>4, <1>7
  <2>4. HistoryLive'
    BY <1>1, <1>3, <1>5, <2>1, <2>2, <2>3, HistoryTold
  <2> QED BY <1>1, <2>4 DEF HistoryInv
<1> QED BY <1>6, <1>7 DEF ServiceTakes

\* ServiceCalls: a call is owed to nobody.
LEMMA CallsHistory ==
  ASSUME IInv, HistoryInv, ServiceCalls
  PROVE  HistoryInv'
<1>1. /\ TypeOK /\ Fresh /\ HistoryLive /\ link = "live" /\ link' = "live"
      /\ Len(made) < MaxItems /\ made' = Made("call", None) /\ Tell("call", Newest)
      /\ UNCHANGED <<ctx, invalid, unplayed, todo, waiter, history>>
  BY DEF IInv, HistoryInv, ServiceCalls, pluginVars
<1>2. PICK o : o = Newest
  OBVIOUS
<1>3. Lasting /\ o \in 0..MaxItems /\ made'[o].kind = "call"
  <2>1. "call" \in Kinds
    BY DEF Kinds
  <2>2. Lasting /\ Newest \in Nat /\ Newest <= MaxItems /\ made'[Newest].kind = "call"
    BY <1>1, <2>1, OneMade
  <2> QED BY <1>2, <2>2, ContextAssumption DEF ContextAssumption
<1>4. ~Has("message", o)'
  BY <1>3 DEF Has
<1>5. \A j : There(j) => There(j)'
  BY <1>1, <1>3, ThereStays
<1>6. PICK last : last = Len(events) + 1
  OBVIOUS
<1>7. "call" \in EventKinds /\ "call" # "ack" /\ Tell("call", o)
  BY <1>1, <1>2 DEF EventKinds
<1>8. HistoryLive'
  BY <1>1, <1>3, <1>4, <1>5, <1>6, <1>7, HistoryTold
<1> QED BY <1>1, <1>8 DEF HistoryInv

\* SpeechStarts changes nothing of it.
LEMMA StartHistory ==
  ASSUME IInv, HistoryInv, SpeechStarts
  PROVE  HistoryInv'
<1>1. /\ TypeOK /\ Fresh /\ HistoryLive /\ link = "live" /\ link' = "live"
      /\ Tell("speech", None)
      /\ UNCHANGED <<made, ctx, invalid, unplayed, todo, waiter, history>>
  BY DEF IInv, HistoryInv, SpeechStarts, pluginVars
<1>2. Lasting /\ None \in 0..MaxItems
  BY <1>1, NothingMade, ContextAssumption DEF ContextAssumption, None
<1>3. \A j : There(j) => There(j)'
  BY <1>1, <1>2, ThereStays
<1>4. PICK last : last = Len(events) + 1
  OBVIOUS
<1>5. "speech" \in EventKinds /\ "speech" \notin {"item", "filler", "call", "ack"}
  BY DEF EventKinds
<1>6. HistoryLive'
  BY <1>1, <1>2, <1>3, <1>4, <1>5, HistoryTold
<1> QED BY <1>1, <1>6 DEF HistoryInv

\* While a call is pending at the service, the plugin hears what is said next with
\* the call open.
LEMMA CoveredNewest ==
  ASSUME TypeOK, Pending, pendingCall # None, Lasting, UNCHANGED <<ctx, todo, waiter>>,
         NEW k \in EventKinds, NEW o \in 0..MaxItems, Tell(k, o),
         NEW last, last = Len(events) + 1
  PROVE  Covered(last)'
<1>1. /\ DOMAIN events = 1..Len(events) /\ DOMAIN events' = 1..last /\ Len(events) \in Nat
      /\ \A m \in DOMAIN events : events'[m] = events[m]
  BY Told
<1>2. PICK c : c = pendingCall
  OBVIOUS
<1>3. c \in Known /\ c \in Known' /\ Dangling' = Dangling
  BY <1>2, DanglingStays DEF TypeOK, Lasting
<1>4. c \in Dangling' \/ \E m \in Calls' : m < last /\ events'[m].of = c
  <2>1. CASE Open(pendingCall)
    BY <1>2, <1>3, <2>1 DEF Open
  <2>2. CASE \E n \in Calls : Announced(pendingCall, n)
    <3>1. PICK n \in Calls : Announced(pendingCall, n)
      BY <2>2
    <3>2. n \in DOMAIN events /\ events[n].kind = "call" /\ events[n].of = c
      BY <1>2, <3>1 DEF Announced, Calls
    <3>3. n \in DOMAIN events' /\ n < last /\ events'[n] = events[n]
      BY <1>1, <3>2
    <3> QED BY <3>2, <3>3 DEF Calls
  <2> QED BY <2>1, <2>2 DEF Pending
<1>5. Waits(c, last)'
  <2>1. SUFFICES ASSUME todo # <<>>, OutputOf(todo[1], c)'
                 PROVE  waiter' # "acked" /\ \A m \in DOMAIN events' : m < last => events'[m].kind # "ack"
    BY DEF Waits
  <2>2. todo[1] \in Known
    BY <2>1, Shorter DEF TypeOK
  <2>3. OutputOf(todo[1], c)
    BY <2>1, <2>2 DEF OutputOf, Has, Lasting
  <2>4. waiter # "acked" /\ \A m \in DOMAIN events : events[m].kind # "ack"
    BY <1>2, <2>1, <2>3 DEF Pending, Acked
  <2> QED BY <1>1, <2>4
<1> QED BY <1>3, <1>4, <1>5 DEF Covered

\* ServiceAdds and ServiceFills: what the conversation lacks is a transcript, or a
\* filler beside a pending call.
LEMMA AddsHistory ==
  ASSUME IInv, PendInv, HistoryInv, ServiceAdds \/ ServiceFills
  PROVE  HistoryInv'
<1>1. /\ TypeOK /\ Fresh /\ HistoryLive /\ Pending /\ link = "live" /\ link' = "live"
      /\ Len(made) < MaxItems
      /\ UNCHANGED <<ctx, invalid, unplayed, todo, waiter>>
  BY DEF IInv, PendInv, HistoryInv, ServiceAdds, ServiceFills, pluginVars
<1>2. PICK o : o = Newest
  OBVIOUS
<1>3. PICK kind \in {"said", "message"}, k \in {"item", "filler"} :
        /\ made' = Made(kind, None) /\ Tell(k, o)
        /\ \/ history' = Appended(o)
           \/ history' = history /\ (kind = "message" => k = "filler" /\ pendingCall # None)
  BY <1>2 DEF ServiceAdds, ServiceFills
<1>4. k \in EventKinds /\ k # "ack"
  BY DEF EventKinds
<1>5. /\ Lasting /\ Known' = Known \cup {o} /\ o \in 0..MaxItems
      /\ made'[o].kind = kind
  <2>1. kind \in Kinds
    BY DEF Kinds
  <2>2. /\ Lasting /\ Known' = Known \cup {Newest} /\ Newest \in Nat /\ Newest <= MaxItems
        /\ made'[Newest].kind = kind
    BY <1>1, <1>3, <2>1, OneMade
  <2> QED BY <1>2, <2>2, ContextAssumption DEF ContextAssumption
<1>6. PICK last : last = Len(events) + 1
  OBVIOUS
<1>7. CASE history' = Appended(o)
  <2>1. o \in Known' /\ \A j \in Known' \ Known : made'[j].kind # "output"
    BY <1>5
  <2>2. /\ There(o)'
        /\ \A j : There(j) => There(j)'
    BY <1>1, <1>5, <1>7, <2>1, ThereAppended
  <2>3. HistoryLive'
    BY <1>1, <1>3, <1>4, <1>5, <1>6, <2>2, HistoryTold
  <2> QED BY <1>1, <2>3 DEF HistoryInv
<1>8. CASE history' = history /\ (kind = "message" => k = "filler" /\ pendingCall # None)
  <2>1. \A j : There(j) => There(j)'
    BY <1>1, <1>5, <1>8, ThereStays
  <2>2. Has("message", o)' => k = "filler" /\ pendingCall # None
    BY <1>5, <1>8 DEF Has
  <2>3. pendingCall # None => Covered(last)'
    BY <1>1, <1>3, <1>4, <1>5, <1>6, CoveredNewest
  <2>4. HistoryLive'
    BY <1>1, <1>3, <1>4, <1>5, <1>6, <2>1, <2>2, <2>3, HistoryTold
  <2> QED BY <1>1, <2>4 DEF HistoryInv
<1> QED BY <1>3, <1>7, <1>8

\* At the start there is no connection.
LEMMA HistoryStart == Init => HistoryInv
BY DEF Init, HistoryInv

\* Every step keeps it.
LEMMA HistoryStep ==
  ASSUME ~BootUpdates
  PROVE  IInv /\ PendInv /\ HistoryInv /\ [Next]_vars => HistoryInv'
<1> SUFFICES ASSUME IInv, PendInv, HistoryInv, [Next]_vars PROVE HistoryInv'
  OBVIOUS
<1>1. CASE Update
  BY <1>1, UpdateHistory
<1>2. CASE Resume
  BY <1>2, ResumeHistory
<1>3. CASE AckTimeout
  BY <1>3 DEF AckTimeout, HistoryInv
<1>4. CASE Send
  BY <1>4, SendHistory
<1>5. CASE BootBegins
  BY <1>5, BootHistory
<1>6. CASE ReplayItem
  BY <1>6, ReplayHistory
<1>7. CASE BootEnds
  BY <1>7, BootEndHistory
<1>8. CASE Lose
  BY <1>8 DEF Lose, Disconnected, HistoryInv
<1>9. CASE HearsAnswer("ack", "acked") \/ HearsAnswer("refused", "failed")
  BY <1>9, AnswerHistory
<1>10. CASE HearsItem
  <2>1. PICK k \in {"item", "call"} : Hears(k)
    BY <1>10 DEF HearsItem
  <2>2. /\ ctx' = Append(ctx, Head(events).of) /\ UNCHANGED <<invalid, waiter>>
        /\ unplayed \subseteq unplayed'
    BY <1>10 DEF HearsItem
  <2> QED BY <2>1, <2>2, ItemHistory
<1>11. CASE HearsFiller
  BY <1>11, ItemHistory DEF HearsFiller
<1>12. CASE HearsSpeech
  BY <1>12, SpeechHistory
<1>13. CASE ServiceTakes
  BY <1>13, TakeHistory
<1>14. CASE ServiceAdds \/ ServiceFills
  BY <1>14, AddsHistory
<1>15. CASE ServiceCalls
  BY <1>15, CallsHistory
<1>16. CASE SpeechStarts
  BY <1>16, StartHistory
<1>17. CASE UNCHANGED vars
  <2>1. UNCHANGED <<made, ctx, invalid, unplayed, link, replay, todo, waiter, events, history>>
    BY <1>17 DEF vars, pluginVars, serviceVars
  <2> QED BY <2>1 DEF HistoryInv, HistoryLive, HistoryBoot, Replayed, Skipped, CallOf, Owed, Has, Adds,
                      There, Full, Size, Exchanges, Known, Covered, Waits, OutputOf, Calls, Dangling, Answered
<1> QED BY <1>1, <1>2, <1>3, <1>4, <1>5, <1>6, <1>7, <1>8, <1>9, <1>10, <1>11, <1>12, <1>13,
           <1>14, <1>15, <1>16, <1>17 DEF Next, Plugin, Receives, Service

\* It holds from the start on.
LEMMA HistoryInvAlways ==
  ASSUME ~BootUpdates
  PROVE  Spec => []HistoryInv
<1>1. IInv /\ PendInv /\ HistoryInv /\ [Next]_vars => HistoryInv'
  BY HistoryStep
<1> QED BY <1>1, HistoryStart, IInvAlways, PendInvAlways, PTL DEF Spec

\* ContextAgrees: connected, with nothing on its way, the service answers from every
\* message and every exchange that the plugin has confirmed or would replay, unless
\* the conversation has had to drop its oldest (_create_conversation_item,
\* _finish_response, _run_speech, _connection_cycle, Conversation._trim). An update
\* during a replay breaks it, speech and turns of any kind do not.
THEOREM ContextAgreesAlways ==
  ASSUME ~BootUpdates
  PROVE  Spec => []ContextAgrees
<1>1. HistoryInv => ContextAgrees
  <2>1. SUFFICES ASSUME HistoryInv, Quiet, NEW i \in Missing PROVE Full
    BY DEF ContextAgrees, Full
  <2>2. i \in Replayed /\ Owed(i) /\ i \notin ToSet(history)
    BY DEF Missing, Owed, Has
  <2> QED BY <2>1, <2>2 DEF HistoryInv, Quiet, HistoryLive, There
<1> QED BY <1>1, HistoryInvAlways, PTL
=============================================================================
