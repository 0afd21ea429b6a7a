---------------------------- MODULE TimelineProofs ----------------------------
(***************************************************************************)
(* Theorems of Timeline for every set of users, requests and kinds: the    *)
(* types, the pins of a user (OnePin, PinsReadable), what a feed holds     *)
(* (FeedExact) and what it marks as hidden (HiddenMarked).                 *)
(***************************************************************************)
EXTENDS Timeline, FiniteSetTheorems, WellFoundedInduction, TLAPS

-------------------------------------------------------------------------------
(* Types *)

Item == [kind : EventKinds \cup {"pin"}, id : Nat, user : Users, to : SUBSET Users, created : Nat]

HiddenRow == [user : Users, kind : EventKinds \cup {"pin"}, id : Nat, created : Nat]

FeedRow ==
    [kind : EventKinds \cup {"pin", "follow"}, id : Nat \cup {None}, user : Users,
     to : SUBSET Users, created : Nat]

HideRequest == [op : {"hide"}, user : Users, row : Item, start : 1..now]
InsertRequest == [op : {"thanks", "personal"}, user : Users, to : SUBSET Users, start : 1..now]
Found == (SUBSET Nat) \cup {None}
PinRequest ==
    [op : {"pin"}, user : Users, len : Lengths, found : Found, stale : BOOLEAN, start : 1..now]
UnpinRequest == [op : {"unpin"}, user : Users, found : Found, stale : BOOLEAN, start : 1..now]
AnyRequest == {Idle} \cup HideRequest \cup InsertRequest \cup PinRequest \cup UnpinRequest

Feed ==
    [at : {"reading", "answered"}, user : Users, max : Nat, todo : SUBSET Kinds,
     rows : SUBSET FeedRow, cut : SUBSET FeedRow, users : SUBSET Users, failed : SUBSET Kinds,
     marked : SUBSET FeedRow, there : SUBSET Item, hid : SUBSET HiddenRow]

FollowsOK == follows \in SUBSET [from : live, to : live, created : 0..now]
EventsOK == events \in SUBSET EventRow /\ \A e \in events : e.id <= last.event
PinsOK ==
    /\ pins \in SUBSET [id : 1..last.pin, user : live, created : 1..now, until : Nat]
    /\ \A p, q \in pins : p.id = q.id => p = q
HiddenOK == hidden \in SUBSET [user : live, kind : EventKinds \cup {"pin"}, id : Nat, created : 1..now]

TablesOK ==
    /\ live \subseteq Users /\ FollowsOK /\ EventsOK /\ PinsOK /\ HiddenOK
    /\ last \in [event : Nat, pin : Nat]
    /\ now \in Nat

RequestsOK == req \in [Handlers -> AnyRequest]

TypeInv == TablesOK /\ RequestsOK /\ feed \in Feed \cup {NoFeed}

LEMMA TypeInvImplies == TypeInv => TypeOK
  <1> SUFFICES ASSUME TypeInv PROVE TypeOK
    OBVIOUS
  <1>1. \A h \in Handlers : req[h] = Idle \/ req[h].start \in 1..now
    BY DEF TypeInv, RequestsOK, AnyRequest, HideRequest, InsertRequest, PinRequest, UnpinRequest
  <1> QED
    BY <1>1 DEF TypeInv, TypeOK, TablesOK, FollowsOK, EventsOK, PinsOK, HiddenOK

LEMMA TypeInit == Init => TypeInv
  <1> SUFFICES ASSUME Init PROVE TypeInv
    OBVIOUS
  <1>1. follows \in SUBSET [from : live, to : live, created : 0..now]
    BY DEF Init
  <1>2. TablesOK
    BY <1>1 DEF Init, TablesOK, FollowsOK, EventsOK, PinsOK, HiddenOK
  <1> QED
    BY <1>2 DEF Init, TypeInv, RequestsOK, AnyRequest

\* A request that is on its way is one when time goes on.
LEMMA RequestsLater ==
    ASSUME TypeInv, now' \in Nat, now <= now'
    PROVE  AnyRequest \subseteq AnyRequest'
  BY DEF TypeInv, TablesOK, AnyRequest, HideRequest, InsertRequest, PinRequest, UnpinRequest

\* The requests of one statement, and the feed's first one.
OneStatement(u) ==
    \/ \E v \in Users : follow_user(u, v) \/ unfollow_user(u, v)
    \/ create_user_recording_recommendation_event(u)
    \/ create_user_notification_event(u)
    \/ delete_feed_events(u)
    \/ delete_pin_for_user(u)
    \/ unhide_user_timeline_event(u)
    \/ delete_user(u)

LEMMA RowsType ==
    ASSUME TypeInv
    PROVE  Rows \in SUBSET Item
  BY DEF TypeInv, TablesOK, EventsOK, EventRow, PinsOK, Rows, Item

LEMMA NewEventType ==
    ASSUME TypeInv, NEW kind \in EventKinds, NEW u \in live, NEW R \in SUBSET Users,
           NEW start \in Nat, NewEvent(kind, u, R, start), live' = live
    PROVE  EventsOK' /\ last' \in [event : Nat, pin : Nat] /\ last'.pin = last.pin
  <1>1. last'.event = last.event + 1 /\ last'.pin = last.pin /\ last' \in [event : Nat, pin : Nat]
    BY DEF NewEvent, TypeInv, TablesOK
  <1>2. \A e \in events' : e \in EventRow /\ e.id <= last.event + 1
    <2>1. \A e \in events : e \in EventRow /\ e.id <= last.event /\ e.id \in Nat
      BY DEF TypeInv, TablesOK, EventsOK, EventRow
    <2>2. last.event \in Nat
      BY DEF TypeInv, TablesOK
    <2> QED
      BY <2>1, <2>2 DEF NewEvent, EventRow
  <1> QED
    BY <1>1, <1>2 DEF EventsOK, EventRow

LEMMA OneStatementType ==
    ASSUME TypeInv, NEW u \in Users, OneStatement(u)
    PROVE  TypeInv'
  <1>1. now' = now + 1 /\ now' \in Nat /\ now <= now' /\ u \in live /\ req' = req /\ feed' = feed
    BY DEF OneStatement, Request, others, follow_user, unfollow_user,
           create_user_recording_recommendation_event, create_user_notification_event,
           delete_feed_events, delete_pin_for_user, unhide_user_timeline_event, delete_user,
           TypeInv, TablesOK
  <1>2. RequestsOK'
    BY <1>1, RequestsLater DEF TypeInv, RequestsOK
  <1>3. CASE \E v \in Users : follow_user(u, v) \/ unfollow_user(u, v)
    <2>1. UNCHANGED <<live, events, pins, hidden, last>>
      BY <1>3 DEF follow_user, unfollow_user
    <2>2. FollowsOK'
      BY <1>1, <1>3, <2>1 DEF TypeInv, TablesOK, FollowsOK, follow_user, unfollow_user
    <2>3. PinsOK' /\ HiddenOK' /\ EventsOK'
      BY <1>1, <2>1 DEF TypeInv, TablesOK, PinsOK, HiddenOK, EventsOK, EventRow
    <2> QED
      BY <1>1, <1>2, <2>1, <2>2, <2>3 DEF TypeInv, TablesOK
  <1>4. CASE create_user_recording_recommendation_event(u) \/ create_user_notification_event(u)
    <2>1. UNCHANGED <<live, follows, pins, hidden>>
      BY <1>4 DEF create_user_recording_recommendation_event, create_user_notification_event
    <2>2. EventsOK' /\ last' \in [event : Nat, pin : Nat] /\ last'.pin = last.pin
      <3>1. \E kind \in EventKinds : NewEvent(kind, u, {}, now')
        BY <1>4 DEF create_user_recording_recommendation_event, create_user_notification_event,
                    EventKinds
      <3> QED
        BY <1>1, <2>1, <3>1, NewEventType
    <2>3. PinsOK' /\ HiddenOK' /\ FollowsOK'
      BY <1>1, <2>1, <2>2 DEF TypeInv, TablesOK, PinsOK, HiddenOK, FollowsOK
    <2> QED
      BY <1>1, <1>2, <2>1, <2>2, <2>3 DEF TypeInv, TablesOK
  <1>5. CASE delete_feed_events(u) \/ delete_pin_for_user(u) \/ unhide_user_timeline_event(u)
    <2>1. /\ UNCHANGED <<live, follows, last>>
          /\ events' \subseteq events /\ pins' \subseteq pins /\ hidden' \subseteq hidden
      BY <1>5 DEF delete_feed_events, delete_pin_for_user, unhide_user_timeline_event
    <2>2. EventsOK' /\ PinsOK' /\ HiddenOK' /\ FollowsOK'
      BY <1>1, <2>1 DEF TypeInv, TablesOK, EventsOK, EventRow, PinsOK, HiddenOK, FollowsOK
    <2> QED
      BY <1>1, <1>2, <2>1, <2>2 DEF TypeInv, TablesOK
  <1>6. CASE delete_user(u)
    <2>1. live' \subseteq Users /\ last' = last
      BY <1>6 DEF delete_user, TypeInv, TablesOK
    <2>2. FollowsOK'
      BY <1>1, <1>6 DEF delete_user, TypeInv, TablesOK, FollowsOK
    <2>3. EventsOK'
      BY <1>1, <1>6 DEF delete_user, TypeInv, TablesOK, EventsOK, EventRow
    <2>4. PinsOK'
      BY <1>1, <1>6 DEF delete_user, TypeInv, TablesOK, PinsOK
    <2>5. HiddenOK'
      BY <1>1, <1>6 DEF delete_user, TypeInv, TablesOK, HiddenOK
    <2> QED
      BY <1>1, <1>2, <2>1, <2>2, <2>3, <2>4, <2>5 DEF TypeInv, TablesOK
  <1> QED
    BY <1>3, <1>4, <1>5, <1>6 DEF OneStatement

\* The tables as they are, a little later.
LEMMA TablesLater ==
    ASSUME TypeInv, UNCHANGED tables, now' \in Nat, now <= now'
    PROVE  TablesOK'
  <1>1. UNCHANGED <<live, follows, events, pins, hidden, last>>
    BY DEF tables
  <1> QED
    BY <1>1 DEF TypeInv, TablesOK, FollowsOK, EventsOK, EventRow, PinsOK, HiddenOK

\* The requests of several statements begin.
BeginsRequest(h, u) ==
    \/ hide_user_timeline_event(h, u)
    \/ create_thanks_event(h, u)
    \/ create_personal_recommendation_event(h, u)
    \/ pin_recording_for_user(h, u)
    \/ unpin_recording_for_user(h, u)

\* A request of u as it begins at t.
FreshRequest(u, t) ==
    [op : {"hide"}, user : {u}, row : Item, start : {t}]
    \cup [op : {"thanks", "personal"}, user : {u}, to : SUBSET Users, start : {t}]
    \cup [op : {"pin"}, user : {u}, len : Lengths, found : {None}, stale : {FALSE}, start : {t}]
    \cup [op : {"unpin"}, user : {u}, found : {None}, stale : {FALSE}, start : {t}]

LEMMA FreshStart ==
    ASSUME NEW u, NEW r \in FreshRequest(u, 0), NEW t
    PROVE  [r EXCEPT !.start = t] \in FreshRequest(u, t)
  <1>1. CASE r \in [op : {"hide"}, user : {u}, row : Item, start : {0}]
    BY <1>1 DEF FreshRequest
  <1>2. CASE r \in [op : {"thanks", "personal"}, user : {u}, to : SUBSET Users, start : {0}]
    BY <1>2 DEF FreshRequest
  <1>3. CASE r \in [op : {"pin"}, user : {u}, len : Lengths, found : {None}, stale : {FALSE}, start : {0}]
    BY <1>3 DEF FreshRequest
  <1>4. CASE r \in [op : {"unpin"}, user : {u}, found : {None}, stale : {FALSE}, start : {0}]
    BY <1>4 DEF FreshRequest
  <1> QED
    BY <1>1, <1>2, <1>3, <1>4 DEF FreshRequest

LEMMA BeginsType ==
    ASSUME TypeInv, NEW h \in Handlers, NEW u \in Users, BeginsRequest(h, u)
    PROVE  /\ TypeInv'
           /\ now' = now + 1 /\ u \in live /\ req[h] = Idle
           /\ req'[h] \in FreshRequest(u, now + 1)
           /\ req'[h].op = "hide" => req'[h].row \in Rows
           /\ \A g \in Handlers \ {h} : req'[g] = req[g]
           /\ UNCHANGED <<tables, feed, failures, twins, crossed>>
  <1>1. PICK r \in FreshRequest(u, 0) : Begin(h, u, r) /\ (r.op = "hide" => r.row \in Rows)
    <2>1. CASE hide_user_timeline_event(h, u)
      <3>1. PICK row \in Rows : Begin(h, u, [op |-> "hide", user |-> u, row |-> row, start |-> 0])
        BY <2>1 DEF hide_user_timeline_event
      <3>2. [op |-> "hide", user |-> u, row |-> row, start |-> 0] \in FreshRequest(u, 0)
        BY RowsType DEF FreshRequest
      <3> QED
        BY <3>1, <3>2
    <2>2. CASE create_thanks_event(h, u)
      <3>1. PICK row \in Rows :
               Begin(h, u, [op |-> "thanks", user |-> u, to |-> {row.user}, start |-> 0])
        BY <2>2 DEF create_thanks_event
      <3>2. {row.user} \in SUBSET Users
        BY RowsType DEF Item
      <3>3. [op |-> "thanks", user |-> u, to |-> {row.user}, start |-> 0] \in FreshRequest(u, 0)
        BY <3>2 DEF FreshRequest
      <3> QED
        BY <3>1, <3>3
    <2>3. CASE create_personal_recommendation_event(h, u)
      <3>1. PICK R \in SUBSET live :
               Begin(h, u, [op |-> "personal", user |-> u, to |-> R, start |-> 0])
        BY <2>3 DEF create_personal_recommendation_event
      <3>2. R \in SUBSET Users
        BY DEF TypeInv, TablesOK
      <3>3. [op |-> "personal", user |-> u, to |-> R, start |-> 0] \in FreshRequest(u, 0)
        BY <3>2 DEF FreshRequest
      <3> QED
        BY <3>1, <3>3
    <2>4. CASE pin_recording_for_user(h, u)
      <3>1. PICK len \in Lengths :
               Begin(h, u, [op |-> "pin", user |-> u, len |-> len, found |-> None, stale |-> FALSE,
                            start |-> 0])
        BY <2>4 DEF pin_recording_for_user
      <3>2. [op |-> "pin", user |-> u, len |-> len, found |-> None, stale |-> FALSE, start |-> 0]
               \in FreshRequest(u, 0)
        BY DEF FreshRequest
      <3> QED
        BY <3>1, <3>2
    <2>5. CASE unpin_recording_for_user(h, u)
      <3>1. [op |-> "unpin", user |-> u, found |-> None, stale |-> FALSE, start |-> 0]
               \in FreshRequest(u, 0)
        BY DEF FreshRequest
      <3> QED
        BY <2>5, <3>1 DEF unpin_recording_for_user
    <2> QED
      BY <2>1, <2>2, <2>3, <2>4, <2>5 DEF BeginsRequest
  <1>2. /\ now' = now + 1 /\ now \in Nat /\ now' \in Nat /\ now <= now' /\ now' \in 1..now'
        /\ u \in live /\ req[h] = Idle
        /\ UNCHANGED <<tables, feed, failures, twins, crossed>>
        /\ req' = [req EXCEPT ![h] = [r EXCEPT !.start = now']]
    BY <1>1 DEF Begin, Request, TypeInv, TablesOK
  <1>3. [r EXCEPT !.start = now'] \in FreshRequest(u, now')
    BY FreshStart
  <1>4. FreshRequest(u, now') \subseteq AnyRequest'
    <2>1. /\ [op : {"hide"}, user : {u}, row : Item, start : {now'}] \subseteq HideRequest'
          /\ [op : {"thanks", "personal"}, user : {u}, to : SUBSET Users, start : {now'}]
                \subseteq InsertRequest'
      BY <1>2 DEF HideRequest, InsertRequest
    <2>2. [op : {"pin"}, user : {u}, len : Lengths, found : {None}, stale : {FALSE}, start : {now'}]
             \subseteq PinRequest'
      BY <1>2 DEF PinRequest, Found
    <2>3. [op : {"unpin"}, user : {u}, found : {None}, stale : {FALSE}, start : {now'}]
             \subseteq UnpinRequest'
      BY <1>2 DEF UnpinRequest, Found
    <2> QED
      BY <2>1, <2>2, <2>3 DEF FreshRequest, AnyRequest
  <1>5. DOMAIN req = Handlers
    BY DEF TypeInv, RequestsOK
  <1>6. RequestsOK'
    BY <1>2, <1>3, <1>4, RequestsLater DEF TypeInv, RequestsOK
  <1>7. TablesOK'
    BY <1>2, TablesLater
  <1>8. [r EXCEPT !.start = now'].op = r.op /\ (r.op = "hide" => [r EXCEPT !.start = now'].row = r.row)
    BY DEF FreshRequest
  <1> QED
    BY <1>1, <1>2, <1>3, <1>5, <1>6, <1>7, <1>8 DEF TypeInv

\* The statement that hides an event or inserts one.
LEMMA HideType ==
    ASSUME TypeInv, NEW h \in Handlers, Hide(h)
    PROVE  /\ TypeInv' /\ req' = [req EXCEPT ![h] = Idle]
           /\ \A x \in hidden' : x \in hidden \/ (x.kind = req[h].row.kind /\ x.id = req[h].row.id)
  <1>1. req[h] \in HideRequest
    BY DEF Hide, Doing, TypeInv, RequestsOK, AnyRequest, Idle, InsertRequest, PinRequest, UnpinRequest
  <1> DEFINE x == [user |-> req[h].user, kind |-> req[h].row.kind, id |-> req[h].row.id,
                   created |-> req[h].start]
  <1>2. x \in [user : Users, kind : EventKinds \cup {"pin"}, id : Nat, created : 1..now]
    BY <1>1 DEF HideRequest, Item
  <1>3. (x.user \in live /\ hidden' = hidden \cup {x}) \/ hidden' = hidden
    BY DEF Hide
  <1>4. HiddenOK'
    BY <1>2, <1>3 DEF Hide, TypeInv, TablesOK, HiddenOK
  <1>5. UNCHANGED <<live, follows, events, pins, last, now, feed>> /\ req' = [req EXCEPT ![h] = Idle]
    BY DEF Hide, Done
  <1>6. TablesOK'
    BY <1>4, <1>5 DEF TypeInv, TablesOK, FollowsOK, EventsOK, EventRow, PinsOK
  <1>7. RequestsOK'
    BY <1>5 DEF TypeInv, RequestsOK, AnyRequest, HideRequest, InsertRequest, PinRequest, UnpinRequest
  <1> QED
    BY <1>3, <1>5, <1>6, <1>7 DEF TypeInv

LEMMA InsertType ==
    ASSUME TypeInv, NEW h \in Handlers, Insert(h)
    PROVE  TypeInv' /\ req' = [req EXCEPT ![h] = Idle]
  <1>1. req[h] \in InsertRequest
    BY DEF Insert, TypeInv, RequestsOK, AnyRequest, Idle, HideRequest, PinRequest, UnpinRequest
  <1>2. UNCHANGED <<live, follows, pins, hidden, now, feed>> /\ req' = [req EXCEPT ![h] = Idle]
    BY DEF Insert, Done
  <1>3. EventsOK' /\ last' \in [event : Nat, pin : Nat] /\ last'.pin = last.pin
    <2>1. CASE req[h].user \in live
      <3>1. PICK R \in SUBSET Users : NewEvent(req[h].op, req[h].user, R, req[h].start)
        BY <1>1, <2>1 DEF Insert, InsertRequest
      <3>2. req[h].op \in EventKinds /\ req[h].start \in Nat
        BY <1>1 DEF InsertRequest, EventKinds, TypeInv, TablesOK
      <3> QED
        BY <1>2, <2>1, <3>1, <3>2, NewEventType
    <2>2. CASE req[h].user \notin live
      BY <1>2, <2>2 DEF Insert, TypeInv, TablesOK, EventsOK, EventRow
    <2> QED
      BY <2>1, <2>2
  <1>4. TablesOK'
    BY <1>2, <1>3 DEF TypeInv, TablesOK, FollowsOK, PinsOK, HiddenOK
  <1>5. RequestsOK'
    BY <1>2 DEF TypeInv, RequestsOK, AnyRequest, HideRequest, InsertRequest, PinRequest, UnpinRequest
  <1> QED
    BY <1>2, <1>4, <1>5 DEF TypeInv

-------------------------------------------------------------------------------
(* Pins *)

PinsOf(h) == req[h] \in PinRequest \cup UnpinRequest

LEMMA PinningType ==
    ASSUME TypeInv, NEW h \in Handlers
    PROVE  /\ Pinning(h) <=> PinsOf(h)
           /\ Doing(h, "pin") <=> req[h] \in PinRequest
           /\ Doing(h, "unpin") <=> req[h] \in UnpinRequest
  BY DEF Pinning, PinsOf, Doing, TypeInv, RequestsOK, AnyRequest, Idle, HideRequest, InsertRequest,
         PinRequest, UnpinRequest

\* What the UPDATE makes of the pins: those that it found and that have not ended end with its start.
LEMMA UnpinnedIs ==
    ASSUME TypeInv, NEW h \in Handlers, PinsOf(h), NEW q \in Unpinned(h)
    PROVE  \E p \in pins : /\ q.id = p.id /\ q.user = p.user /\ q.created = p.created
                           /\ q.until \in Nat /\ q.until <= p.until
                           /\ \/ q = p /\ (p.id \notin req[h].found \/ p.until < req[h].start)
                              \/ /\ p.id \in req[h].found /\ p.until >= req[h].start
                                 /\ q = [p EXCEPT !.until = req[h].start]
                                 /\ q.until = req[h].start
                           /\ q \in [id : 1..last.pin, user : live, created : 1..now, until : Nat]
  <1>1. PICK p \in pins :
           q = IF p.id \in req[h].found /\ p.until >= req[h].start
               THEN [p EXCEPT !.until = req[h].start] ELSE p
    BY DEF Unpinned
  <1>2. p \in [id : 1..last.pin, user : live, created : 1..now, until : Nat]
    BY DEF TypeInv, TablesOK, PinsOK
  <1>3. req[h].start \in Nat
    BY DEF PinsOf, PinRequest, UnpinRequest, TypeInv, TablesOK
  <1>4. CASE p.id \in req[h].found /\ p.until >= req[h].start
    <2>1. q = [p EXCEPT !.until = req[h].start]
      BY <1>1, <1>4
    <2>2. /\ q \in [id : 1..last.pin, user : live, created : 1..now, until : Nat]
          /\ q.id = p.id /\ q.user = p.user /\ q.created = p.created /\ q.until = req[h].start
      BY <1>2, <1>3, <2>1
    <2> QED
      BY <1>2, <1>4, <2>1, <2>2
  <1>5. CASE ~ (p.id \in req[h].found /\ p.until >= req[h].start)
    <2>1. q = p
      BY <1>1, <1>5
    <2>2. p.until \in Nat
      BY <1>2
    <2> QED
      BY <1>2, <1>3, <1>5, <2>1, <2>2
  <1> QED
    BY <1>4, <1>5

LEMMA UnpinnedType ==
    ASSUME TypeInv, NEW h \in Handlers, PinsOf(h)
    PROVE  /\ Unpinned(h) \in SUBSET [id : 1..last.pin, user : live, created : 1..now, until : Nat]
           /\ \A p, q \in Unpinned(h) : p.id = q.id => p = q
  <1>1. \A q \in Unpinned(h) : q \in [id : 1..last.pin, user : live, created : 1..now, until : Nat]
    BY UnpinnedIs
  <1>2. ASSUME NEW q \in Unpinned(h), NEW y \in Unpinned(h), q.id = y.id PROVE q = y
    <2>1. PICK p \in pins :
             /\ q.id = p.id
             /\ \/ q = p /\ (p.id \notin req[h].found \/ p.until < req[h].start)
                \/ /\ p.id \in req[h].found /\ p.until >= req[h].start
                   /\ q = [p EXCEPT !.until = req[h].start]
      BY UnpinnedIs
    <2>2. PICK x \in pins :
             /\ y.id = x.id
             /\ \/ y = x /\ (x.id \notin req[h].found \/ x.until < req[h].start)
                \/ /\ x.id \in req[h].found /\ x.until >= req[h].start
                   /\ y = [x EXCEPT !.until = req[h].start]
      BY UnpinnedIs
    <2>3. p = x
      BY <1>2, <2>1, <2>2 DEF TypeInv, TablesOK, PinsOK
    <2>4. p.until \in Nat /\ req[h].start \in Nat
      BY DEF TypeInv, TablesOK, PinsOK, PinsOf, PinRequest, UnpinRequest
    <2> QED
      BY <2>1, <2>2, <2>3, <2>4
  <1> QED
    BY <1>1, <1>2

LEMMA FindPinsType ==
    ASSUME TypeInv, NEW h \in Handlers, FindPins(h)
    PROVE  /\ TypeInv' /\ PinsOf(h) /\ UNCHANGED <<tables, now, feed, failures, twins, crossed>>
           /\ \A g \in Handlers \ {h} : req'[g] = req[g]
           /\ req'[h].op = req[h].op /\ req'[h].user = req[h].user /\ req'[h].start = req[h].start
           /\ req'[h].found = {p.id : p \in {q \in pins : q.user = req[h].user /\ q.until >= req[h].start}}
  <1> DEFINE F == {p.id : p \in {q \in pins : q.user = req[h].user /\ q.until >= req[h].start}}
  <1>1. F \in SUBSET Nat
    BY DEF TypeInv, TablesOK, PinsOK
  <1>2. /\ req' = [req EXCEPT ![h] = [req[h] EXCEPT !.found = F]]
        /\ UNCHANGED <<tables, now, feed, failures, twins, crossed>>
    BY DEF FindPins
  <1>3. PinsOf(h)
    BY PinningType DEF FindPins
  <1> HIDE DEF F
  <1>4. /\ [req[h] EXCEPT !.found = F] \in PinRequest \cup UnpinRequest
        /\ [req[h] EXCEPT !.found = F].found = F
        /\ [req[h] EXCEPT !.found = F].op = req[h].op
        /\ [req[h] EXCEPT !.found = F].user = req[h].user
        /\ [req[h] EXCEPT !.found = F].start = req[h].start
    <2>1. CASE req[h] \in PinRequest
      BY <1>1, <2>1 DEF PinRequest, Found
    <2>2. CASE req[h] \in UnpinRequest
      BY <1>1, <2>2 DEF UnpinRequest, Found
    <2> QED
      BY <1>3, <2>1, <2>2 DEF PinsOf
  <1>5. DOMAIN req = Handlers
    BY DEF TypeInv, RequestsOK
  <1>6. now' = now /\ TablesOK'
    BY <1>2, TablesLater DEF TypeInv, TablesOK
  <1>7. RequestsOK'
    BY <1>2, <1>4, <1>6
       DEF TypeInv, RequestsOK, AnyRequest, HideRequest, InsertRequest, PinRequest, UnpinRequest
  <1> QED
    BY <1>2, <1>3, <1>4, <1>5, <1>6, <1>7 DEF TypeInv, F

\* A pin is committed: the others who pin for the same user have looked before.
LEMMA PinType ==
    ASSUME TypeInv, NEW h \in Handlers, pin(h)
    PROVE  /\ TypeInv' /\ req[h] \in PinRequest /\ req'[h] = Idle
           /\ \A g \in Handlers \ {h} :
                 /\ req'[g] \in {req[g], [req[g] EXCEPT !.stale = TRUE]}
                 /\ Pinning(g) => /\ Pinning(g)'
                                  /\ req'[g].op = req[g].op /\ req'[g].user = req[g].user
                                  /\ req'[g].start = req[g].start /\ req'[g].found = req[g].found
                                  /\ req[g].user = req[h].user /\ req[g].found # None
                                        => req'[g].stale
                                  /\ req[g].stale => req'[g].stale
                 /\ ~ Pinning(g) => req'[g] = req[g]
  <1>1. req[h] \in PinRequest /\ PinsOf(h)
    BY PinningType DEF pin, PinsOf
  <1>2. last' = [last EXCEPT !.pin = @ + 1] /\ UNCHANGED <<live, follows, events, hidden, now, feed>>
    BY DEF pin
  <1>3. last'.pin = last.pin + 1 /\ last'.event = last.event /\ last' \in [event : Nat, pin : Nat]
        /\ last.pin \in Nat
    BY <1>2 DEF TypeInv, TablesOK
  <1> DEFINE new == [id |-> last.pin + 1, user |-> req[h].user, created |-> req[h].start,
                     until |-> req[h].start + req[h].len]
  <1>4. pins' = Unpinned(h) \cup {new}
    BY DEF pin
  <1>5. new \in [id : 1..last'.pin, user : live, created : 1..now, until : Nat] /\ new.id = last.pin + 1
    <2>1. req[h].user \in live
      BY DEF pin
    <2>2. req[h].start \in 1..now /\ req[h].len \in Nat /\ now \in Nat
      BY <1>1, LengthsAssumption DEF PinRequest, TypeInv, TablesOK
    <2> QED
      BY <1>3, <2>1, <2>2
  <1>6. PinsOK'
    <2>1. \A q \in Unpinned(h) : q \in [id : 1..last'.pin, user : live, created : 1..now, until : Nat]
                                 /\ q.id # new.id
      <3>1. \A i \in 1..last.pin : i \in 1..last'.pin /\ i # new.id
        BY <1>3, <1>5
      <3> HIDE DEF new
      <3> QED
        BY <1>1, <3>1, UnpinnedType
    <2> HIDE DEF new
    <2> QED
      BY <1>1, <1>2, <1>4, <1>5, <2>1, UnpinnedType DEF PinsOK
  <1>7. TablesOK'
    BY <1>2, <1>3, <1>6 DEF TypeInv, TablesOK, FollowsOK, EventsOK, EventRow, HiddenOK
  <1>8. req' = [g \in Handlers |->
                  IF g = h THEN Idle
                  ELSE IF g \in Rivals(h) /\ req[g].found # None THEN [req[g] EXCEPT !.stale = TRUE]
                  ELSE req[g]]
    BY DEF pin
  <1>9. ASSUME NEW g \in Handlers, Pinning(g)
        PROVE  /\ [req[g] EXCEPT !.stale = TRUE] \in AnyRequest
               /\ [req[g] EXCEPT !.stale = TRUE].stale
               /\ [req[g] EXCEPT !.stale = TRUE].op = req[g].op
               /\ [req[g] EXCEPT !.stale = TRUE].user = req[g].user
               /\ [req[g] EXCEPT !.stale = TRUE].start = req[g].start
               /\ [req[g] EXCEPT !.stale = TRUE].found = req[g].found
    <2>1. CASE req[g] \in PinRequest
      BY <2>1 DEF PinRequest, AnyRequest
    <2>2. CASE req[g] \in UnpinRequest
      BY <2>2 DEF UnpinRequest, AnyRequest
    <2> QED
      BY <1>9, <2>1, <2>2, PinningType DEF PinsOf
  <1>10. RequestsOK'
    <2>1. AnyRequest' = AnyRequest
      BY <1>2 DEF AnyRequest, HideRequest, InsertRequest, PinRequest, UnpinRequest
    <2>2. \A g \in Handlers : req'[g] \in AnyRequest
      BY <1>8, <1>9 DEF TypeInv, RequestsOK, AnyRequest, Rivals
    <2> QED
      BY <1>8, <2>1, <2>2 DEF RequestsOK
  <1>11. ASSUME NEW g \in Handlers \ {h}, Pinning(g)
         PROVE  /\ Pinning(g)'
                /\ req'[g].op = req[g].op /\ req'[g].user = req[g].user
                /\ req'[g].start = req[g].start /\ req'[g].found = req[g].found
                /\ req[g].user = req[h].user /\ req[g].found # None => req'[g].stale
                /\ req[g].stale => req'[g].stale
    BY <1>8, <1>9, <1>11 DEF Rivals, Pinning
  <1> QED
    BY <1>1, <1>2, <1>7, <1>8, <1>10, <1>11 DEF TypeInv, Rivals

LEMMA UnpinType ==
    ASSUME TypeInv, NEW h \in Handlers, unpin(h)
    PROVE  TypeInv' /\ req[h] \in UnpinRequest /\ req' = [req EXCEPT ![h] = Idle]
  <1>1. req[h] \in UnpinRequest /\ PinsOf(h)
    BY PinningType DEF unpin, PinsOf
  <1>2. UNCHANGED <<live, follows, events, hidden, last, now, feed>> /\ pins' = Unpinned(h)
        /\ req' = [req EXCEPT ![h] = Idle]
    BY DEF unpin, Done
  <1>3. PinsOK'
    BY <1>1, <1>2, UnpinnedType DEF PinsOK
  <1>4. TablesOK'
    BY <1>2, <1>3 DEF TypeInv, TablesOK, FollowsOK, EventsOK, EventRow, HiddenOK
  <1>5. RequestsOK'
    BY <1>2 DEF TypeInv, RequestsOK, AnyRequest, HideRequest, InsertRequest, PinRequest, UnpinRequest
  <1> QED
    BY <1>1, <1>2, <1>4, <1>5 DEF TypeInv

LEMMA PinFailsType ==
    ASSUME TypeInv, NEW h \in Handlers, PinFails(h)
    PROVE  TypeInv' /\ req' = [req EXCEPT ![h] = Idle]
  <1>1. UNCHANGED <<tables, now, feed>> /\ req' = [req EXCEPT ![h] = Idle]
    BY DEF PinFails, Done
  <1>2. TablesOK'
    BY <1>1, TablesLater DEF TypeInv, TablesOK
  <1>3. RequestsOK'
    BY <1>1 DEF TypeInv, RequestsOK, AnyRequest, HideRequest, InsertRequest, PinRequest, UnpinRequest
  <1> QED
    BY <1>1, <1>2, <1>3 DEF TypeInv

-------------------------------------------------------------------------------
(* The feed *)

\* What the query of a kind selects concerns the user.
LEMMA SelectedRows ==
    ASSUME TypeInv, feed \in Feed, NEW kind \in Kinds, NEW r \in Selected(kind)
    PROVE  r \in FeedRow /\ Mine(r) /\ (r.kind # "follow" => r \in Rows)
  <1>1. \A e \in events : e \in FeedRow /\ e.kind \in EventKinds /\ e \in Rows
    BY DEF TypeInv, TablesOK, EventsOK, EventRow, FeedRow, EventKinds, Rows
  <1>2. kind \in {"recommendation", "personal", "thanks", "notification", "pin", "follow"}
    BY KindsAssumption
  <1>3. CASE kind = "follow"
    <2>1. PICK f \in follows : /\ f.from \in feed.users
                               /\ r = [kind |-> "follow", id |-> None, user |-> f.from, to |-> {f.to},
                                       created |-> f.created]
      BY <1>3 DEF Selected
    <2>2. f \in [from : Users, to : Users, created : Nat]
      BY DEF TypeInv, TablesOK, FollowsOK
    <2> QED
      BY <2>1, <2>2 DEF FeedRow, Mine
  <1>4. CASE kind = "pin"
    <2>1. r \in Rows /\ r.kind = "pin" /\ r.user \in feed.users
      BY <1>4 DEF Selected
    <2>2. r \in Item
      BY <2>1, RowsType
    <2> QED
      BY <2>1, <2>2 DEF FeedRow, Item, Mine
  <1>5. CASE kind = "recommendation"
    <2>1. r \in events /\ r.kind = "recommendation" /\ r.user \in feed.users
      BY <1>5 DEF Selected, OfKind
    <2> QED
      BY <1>1, <2>1 DEF Mine
  <1>6. CASE kind = "notification"
    <2>1. r \in events /\ r.kind = "notification" /\ r.user = feed.user
      BY <1>6 DEF Selected, OfKind
    <2> QED
      BY <1>1, <2>1 DEF Mine
  <1>7. CASE kind = "thanks"
    <2>1. r \in events /\ r.kind = "thanks" /\ (r.user = feed.user \/ feed.user \in r.to)
      BY <1>7 DEF Selected, OfKind
    <2> QED
      BY <1>1, <2>1 DEF Mine
  <1>8. CASE kind = "personal"
    <2>1. r \in events /\ r.kind = "personal" /\ (r.user = feed.user \/ feed.user \in r.to)
      BY <1>8 DEF Selected
    <2> QED
      BY <1>1, <2>1 DEF Mine
  <1> QED
    BY <1>2, <1>3, <1>4, <1>5, <1>6, <1>7, <1>8

LEMMA NewestSubset ==
    ASSUME NEW S, NEW n
    PROVE  Newest(S, n) \subseteq S
  BY DEF Newest

LEMMA UserFeedType ==
    ASSUME TypeInv, NEW u \in Users, user_feed(u)
    PROVE  /\ TypeInv' /\ UNCHANGED <<tables, req, failures, twins, crossed>> /\ now' = now + 1
           /\ feed' \in Feed /\ feed'.at = "reading" /\ feed'.rows = {} /\ feed'.cut = {}
           /\ feed'.todo = Kinds /\ feed'.there = Rows /\ feed'.user = u
           /\ feed'.hid = {x \in hidden : x.user = u}
  <1>1. /\ UNCHANGED <<tables, req, failures, twins, crossed>>
        /\ now' = now + 1 /\ now' \in Nat /\ now \in Nat /\ now <= now'
    BY DEF user_feed, Request, TypeInv, TablesOK
  <1>2. PICK max \in 1..now' :
          feed' = [at |-> "reading", user |-> u, max |-> max, todo |-> Kinds, rows |-> {}, cut |-> {},
                   users |-> {u} \cup {v \in Users : Follows(u, v)},
                   failed |-> {}, marked |-> {},
                   there |-> Rows, hid |-> {x \in hidden : x.user = u}]
    BY DEF user_feed
  <1>3. {x \in hidden : x.user = u} \in SUBSET HiddenRow
    BY DEF TypeInv, TablesOK, HiddenOK, HiddenRow
  <1>4. feed' \in Feed
    BY <1>1, <1>2, <1>3, RowsType DEF Feed
  <1>5. TablesOK'
    BY <1>1, TablesLater
  <1>6. RequestsOK'
    BY <1>1, RequestsLater DEF TypeInv, RequestsOK
  <1> QED
    BY <1>1, <1>2, <1>4, <1>5, <1>6 DEF TypeInv

LEMMA ReadKindType ==
    ASSUME TypeInv, NEW kind \in Kinds, ReadKind(kind)
    PROVE  /\ TypeInv' /\ UNCHANGED <<tables, now, req, twins, crossed>>
           /\ feed \in Feed /\ feed' \in Feed /\ feed.at = "reading" /\ feed'.at = "reading"
           /\ feed'.user = feed.user /\ feed'.users = feed.users /\ feed'.there = feed.there
           /\ feed'.hid = feed.hid /\ feed'.max = feed.max /\ feed'.todo = feed.todo \ {kind}
           /\ feed.failed \subseteq feed'.failed
           /\ LET page == Newest(Selected(kind), Count) IN
              \/ /\ feed'.failed = feed.failed
                 /\ feed'.rows = feed.rows \cup page /\ feed'.cut = feed.cut \cup (Selected(kind) \ page)
              \/ /\ feed'.failed = feed.failed \cup {kind}
                 /\ feed'.rows = feed.rows /\ feed'.cut = feed.cut
  <1> DEFINE page == Newest(Selected(kind), Count)
  <1>1. UNCHANGED <<tables, now, req, twins, crossed>> /\ feed.at = "reading"
    BY DEF ReadKind
  <1>2. feed \in Feed
    BY <1>1 DEF TypeInv, NoFeed
  <1>3. page \subseteq Selected(kind) /\ Selected(kind) \subseteq FeedRow
    BY <1>2, NewestSubset, SelectedRows
  <1>4. \/ feed' = [feed EXCEPT !.todo = @ \ {kind}, !.rows = @ \cup page,
                                !.cut = @ \cup (Selected(kind) \ page)]
        \/ feed' = [feed EXCEPT !.todo = @ \ {kind}, !.failed = @ \cup {kind}]
    BY DEF ReadKind
  <1> HIDE DEF page
  <1>5. /\ feed' \in Feed
        /\ feed'.at = "reading" /\ feed'.user = feed.user /\ feed'.users = feed.users
        /\ feed'.there = feed.there /\ feed'.hid = feed.hid /\ feed'.max = feed.max
        /\ feed'.todo = feed.todo \ {kind} /\ feed.failed \subseteq feed'.failed
        /\ \/ /\ feed'.failed = feed.failed
              /\ feed'.rows = feed.rows \cup page /\ feed'.cut = feed.cut \cup (Selected(kind) \ page)
           \/ /\ feed'.failed = feed.failed \cup {kind}
              /\ feed'.rows = feed.rows /\ feed'.cut = feed.cut
    <2>1. CASE feed' = [feed EXCEPT !.todo = @ \ {kind}, !.rows = @ \cup page,
                                    !.cut = @ \cup (Selected(kind) \ page)]
      BY <1>1, <1>2, <1>3, <2>1 DEF Feed
    <2>2. CASE feed' = [feed EXCEPT !.todo = @ \ {kind}, !.failed = @ \cup {kind}]
      BY <1>1, <1>2, <2>2 DEF Feed
    <2> QED
      BY <1>4, <2>1, <2>2
  <1>6. TablesOK'
    BY <1>1, TablesLater DEF TypeInv, TablesOK
  <1>7. RequestsOK'
    BY <1>1 DEF TypeInv, RequestsOK, AnyRequest, HideRequest, InsertRequest, PinRequest, UnpinRequest
  <1> QED
    BY <1>1, <1>2, <1>5, <1>6, <1>7 DEF TypeInv, page

LEMMA AnswerType ==
    ASSUME TypeInv, get_feed_events_for_user
    PROVE  /\ TypeInv' /\ UNCHANGED <<tables, now, req, twins, crossed>>
           /\ feed \in Feed /\ feed' \in Feed /\ feed.todo = {}
           /\ feed.at = "reading" /\ feed'.at = "answered"
           /\ feed'.user = feed.user /\ feed'.users = feed.users /\ feed'.there = feed.there
           /\ feed'.rows = Newest(feed.rows, Count)
           /\ feed'.cut = feed.cut \cup (feed.rows \ Newest(feed.rows, Count))
           /\ feed'.marked = {r \in Newest(feed.rows, Count) : r.id \in get_hidden_timeline_event_ids}
  <1> DEFINE page == Newest(feed.rows, Count)
             marks == {r \in page : r.id \in get_hidden_timeline_event_ids}
  <1>1. UNCHANGED <<tables, now, req, twins, crossed>> /\ feed.at = "reading" /\ feed.todo = {}
        /\ feed' = [feed EXCEPT !.at = "answered", !.rows = page, !.cut = @ \cup (feed.rows \ page),
                                !.marked = marks]
    BY DEF get_feed_events_for_user
  <1>2. feed \in Feed
    BY <1>1 DEF TypeInv, NoFeed
  <1>3. page \subseteq feed.rows /\ marks \subseteq page /\ feed.rows \subseteq FeedRow
    BY <1>2, NewestSubset DEF Feed
  <1> HIDE DEF page, marks
  <1>4. /\ feed' \in Feed /\ feed'.at = "answered"
        /\ feed'.user = feed.user /\ feed'.users = feed.users /\ feed'.there = feed.there
        /\ feed'.rows = page /\ feed'.cut = feed.cut \cup (feed.rows \ page) /\ feed'.marked = marks
    BY <1>1, <1>2, <1>3 DEF Feed
  <1>6. TablesOK'
    BY <1>1, TablesLater DEF TypeInv, TablesOK
  <1>7. RequestsOK'
    BY <1>1 DEF TypeInv, RequestsOK, AnyRequest, HideRequest, InsertRequest, PinRequest, UnpinRequest
  <1> QED
    BY <1>1, <1>2, <1>4, <1>6, <1>7 DEF TypeInv, page, marks

LEMMA StutterType ==
    ASSUME TypeInv, UNCHANGED vars
    PROVE  TypeInv'
  <1>1. TablesOK'
    BY TablesLater DEF TypeInv, TablesOK, vars
  <1> QED
    BY <1>1 DEF vars, TypeInv, RequestsOK, AnyRequest, HideRequest, InsertRequest, PinRequest, UnpinRequest

LEMMA TypeStep == TypeInv /\ [Next]_vars => TypeInv'
  <1> SUFFICES ASSUME TypeInv, [Next]_vars PROVE TypeInv'
    OBVIOUS
  <1>1. CASE \E u \in Users : OneStatement(u) \/ user_feed(u)
    BY <1>1, OneStatementType, UserFeedType
  <1>2. CASE \E h \in Handlers, u \in Users : BeginsRequest(h, u)
    BY <1>2, BeginsType
  <1>3. CASE \E h \in Handlers : Hide(h) \/ Insert(h) \/ FindPins(h) \/ pin(h) \/ unpin(h) \/ PinFails(h)
    BY <1>3, HideType, InsertType, FindPinsType, PinType, UnpinType, PinFailsType
  <1>4. CASE \E kind \in Kinds : ReadKind(kind)
    BY <1>4, ReadKindType
  <1>5. CASE get_feed_events_for_user
    BY <1>5, AnswerType
  <1>6. CASE UNCHANGED vars
    BY <1>6, StutterType
  <1> QED
    BY <1>1, <1>2, <1>3, <1>4, <1>5, <1>6 DEF Next, OneStatement, BeginsRequest

\* Type correctness: rows belong to users that are there, however deletions of accounts and the
\* statements of other requests interleave, and no id of a pin is used twice.
THEOREM TypeCorrect == Spec => []TypeOK
  <1> QED
    BY TypeInit, TypeStep, TypeInvImplies, PTL DEF Spec

-------------------------------------------------------------------------------
(* Pins: the inductive invariant *)

\* A pin of the user that was not there when the request began was committed while it was on its way.
CrossedKnown ==
    \A h \in Handlers : Pinning(h) =>
        \A p \in pins : p.user = req[h].user /\ p.id \notin crossed => p.created < req[h].start

\* What the UPDATE looks at belongs to the user, and is all that is active unless another pin has been
\* committed since.
FoundKnown ==
    \A h \in Handlers : Pinning(h) /\ req[h].found # None =>
        /\ req[h].found \subseteq 1..last.pin
        /\ \A p \in pins : p.id \in req[h].found => p.user = req[h].user
        /\ ~ req[h].stale =>
              \A p \in pins : p.user = req[h].user /\ p.until >= req[h].start => p.id \in req[h].found

\* OnePin without counting.
SinglePin ==
    \A p, q \in pins : /\ p.user = q.user /\ p.user \notin twins
                       /\ p.until > now /\ q.until > now
                       => p = q

PinInv == CrossedKnown /\ FoundKnown /\ SinglePin /\ PinsReadable

LEMMA SinglePinCounts == SinglePin => OnePin
  <1> SUFFICES ASSUME SinglePin, NEW u \in Users \ twins
               PROVE  Cardinality({p \in Active : p.user = u}) <= 1
    BY DEF OnePin
  <1> DEFINE S == {p \in Active : p.user = u}
  <1>1. \A p, q \in S : p = q
    BY DEF SinglePin, Active
  <1>2. CASE S = {}
    BY <1>2, FS_EmptySet
  <1>3. CASE S # {}
    <2>1. PICK p \in S : S = {p}
      BY <1>1, <1>3
    <2> HIDE DEF S
    <2>2. Cardinality(S) = 1
      BY <2>1, FS_Singleton
    <2> QED
      BY <2>2 DEF S
  <1> QED
    BY <1>2, <1>3

\* Requests that do not pin, and time: pins only go, and who pins goes on as before.
LEMMA PinsKept ==
    ASSUME TypeInv, TypeInv', PinInv, pins' \subseteq pins, last'.pin = last.pin, now' \in {now, now + 1},
           UNCHANGED <<twins, crossed>>,
           \A g \in Handlers : Pinning(g)' => req'[g] = req[g]
    PROVE  PinInv'
  <1>1. now \in Nat
    BY DEF TypeInv, TablesOK
  <1>2. \A p \in pins : p.until \in Nat
    BY DEF TypeInv, TablesOK, PinsOK
  <1>3. \A g \in Handlers : Pinning(g)' => Pinning(g)
    BY DEF Pinning
  <1>4. CrossedKnown'
    BY <1>3 DEF PinInv, CrossedKnown
  <1>5. FoundKnown'
    BY <1>3 DEF PinInv, FoundKnown
  <1>6. SinglePin'
    BY <1>1, <1>2 DEF PinInv, SinglePin
  <1>7. PinsReadable'
    BY DEF PinInv, PinsReadable
  <1> QED
    BY <1>4, <1>5, <1>6, <1>7 DEF PinInv

LEMMA BeginsPins ==
    ASSUME TypeInv, PinInv, NEW h \in Handlers, NEW u \in Users, BeginsRequest(h, u)
    PROVE  PinInv'
  <1>1. /\ now' = now + 1 /\ now \in Nat /\ req'[h] \in FreshRequest(u, now + 1)
        /\ \A g \in Handlers \ {h} : req'[g] = req[g]
        /\ UNCHANGED <<pins, last, twins, crossed>>
    BY BeginsType DEF tables, TypeInv, TablesOK
  <1>2. \A p \in pins : p.until \in Nat /\ p.created \in 1..now
    BY DEF TypeInv, TablesOK, PinsOK
  <1>3. Pinning(h)' => req'[h].start = now + 1 /\ req'[h].found = None
    BY <1>1 DEF Pinning, FreshRequest
  <1>4. CrossedKnown'
    <2> SUFFICES ASSUME NEW g \in Handlers, Pinning(g)', NEW p \in pins, p.user = req'[g].user,
                        p.id \notin crossed
                 PROVE  p.created < req'[g].start
      BY <1>1 DEF CrossedKnown
    <2>1. CASE g = h
      BY <1>1, <1>2, <1>3, <2>1
    <2>2. CASE g # h
      BY <1>1, <2>2 DEF PinInv, CrossedKnown, Pinning
    <2> QED
      BY <2>1, <2>2
  <1>5. FoundKnown'
    <2> SUFFICES ASSUME NEW g \in Handlers, Pinning(g)', req'[g].found # None
                 PROVE  g # h /\ req'[g] = req[g] /\ Pinning(g)
      BY <1>1 DEF PinInv, FoundKnown
    <2> QED
      BY <1>1, <1>3 DEF Pinning
  <1>6. SinglePin'
    BY <1>1, <1>2 DEF PinInv, SinglePin
  <1>7. PinsReadable'
    BY <1>1 DEF PinInv, PinsReadable
  <1> QED
    BY <1>4, <1>5, <1>6, <1>7 DEF PinInv

LEMMA FindPinsPins ==
    ASSUME TypeInv, PinInv, NEW h \in Handlers, FindPins(h)
    PROVE  PinInv'
  <1>1. /\ UNCHANGED <<pins, last, now, twins, crossed>> /\ \A g \in Handlers \ {h} : req'[g] = req[g]
        /\ req'[h].op = req[h].op /\ req'[h].user = req[h].user /\ req'[h].start = req[h].start
        /\ req'[h].found = {p.id : p \in {q \in pins : q.user = req[h].user /\ q.until >= req[h].start}}
    BY FindPinsType DEF tables
  <1>2. \A g \in Handlers : Pinning(g)' <=> Pinning(g)
    BY <1>1 DEF Pinning
  <1>3. CrossedKnown' /\ SinglePin' /\ PinsReadable'
    BY <1>1, <1>2 DEF PinInv, CrossedKnown, SinglePin, PinsReadable
  <1>4. FoundKnown'
    <2> SUFFICES ASSUME NEW g \in Handlers, Pinning(g), req'[g].found # None
                 PROVE  /\ req'[g].found \subseteq 1..last.pin
                        /\ \A p \in pins : p.id \in req'[g].found => p.user = req'[g].user
                        /\ ~ req'[g].stale =>
                              \A p \in pins : p.user = req'[g].user /\ p.until >= req'[g].start
                                                  => p.id \in req'[g].found
      BY <1>1, <1>2 DEF FoundKnown
    <2>1. CASE g = h
      <3>1. \A p \in pins : p.id \in 1..last.pin /\ \A q \in pins : q.id = p.id => q = p
        BY DEF TypeInv, TablesOK, PinsOK
      <3> QED
        BY <1>1, <2>1, <3>1
    <2>2. CASE g # h
      BY <1>1, <2>2 DEF PinInv, FoundKnown
    <2> QED
      BY <2>1, <2>2
  <1> QED
    BY <1>3, <1>4 DEF PinInv

\* What the UPDATE leaves of the pins is as good as they were; if nothing was committed since it looked,
\* none of the user's pins is active any more.
LEMMA UnpinnedKeeps ==
    ASSUME TypeInv, PinInv, NEW h \in Handlers, PinsOf(h), req[h].found # None
    PROVE  /\ \A p, q \in Unpinned(h) : /\ p.user = q.user /\ p.user \notin twins
                                        /\ p.until > now /\ q.until > now
                                        => p = q
           /\ \A p \in Unpinned(h) : p.id \notin crossed => p.until > p.created
           /\ ~ req[h].stale => \A p \in Unpinned(h) : p.user = req[h].user => ~ (p.until > now)
           /\ \A g \in Handlers, p \in Unpinned(h) : Pinning(g) =>
                 /\ p.user = req[g].user /\ p.id \notin crossed => p.created < req[g].start
                 /\ req[g].found # None =>
                       /\ p.id \in req[g].found => p.user = req[g].user
                       /\ ~ req[g].stale /\ p.user = req[g].user /\ p.until >= req[g].start
                             => p.id \in req[g].found
  <1>1. Pinning(h) /\ now \in Nat /\ req[h].start \in 1..now
    BY PinningType DEF PinsOf, PinRequest, UnpinRequest, TypeInv, TablesOK
  <1>2. \A p \in pins : p.until \in Nat /\ p.created \in 1..now
    BY DEF TypeInv, TablesOK, PinsOK
  <1>3. ASSUME NEW q \in Unpinned(h)
        PROVE  \E p \in pins : /\ q.id = p.id /\ q.user = p.user /\ q.created = p.created
                               /\ q.until \in Nat /\ q.until <= p.until
                               /\ \/ q = p /\ (p.id \notin req[h].found \/ p.until < req[h].start)
                                  \/ p.id \in req[h].found /\ q.until = req[h].start
    BY <1>3, UnpinnedIs
  <1>4. ASSUME NEW p \in Unpinned(h), NEW q \in Unpinned(h), p.user = q.user, p.user \notin twins,
               p.until > now, q.until > now
        PROVE  p = q
    <2>1. PICK x \in pins : p.id = x.id /\ p.user = x.user /\ p.until \in Nat /\ p.until <= x.until
      BY <1>3
    <2>2. PICK y \in pins : q.id = y.id /\ q.user = y.user /\ q.until \in Nat /\ q.until <= y.until
      BY <1>3
    <2>3. x.until > now /\ y.until > now
      BY <1>1, <1>2, <1>4, <2>1, <2>2
    <2>4. x = y
      BY <1>4, <2>1, <2>2, <2>3 DEF PinInv, SinglePin
    <2> QED
      BY <2>1, <2>2, <2>4, UnpinnedType
  <1>5. ASSUME NEW q \in Unpinned(h), q.id \notin crossed
        PROVE  q.until > q.created
    <2>1. PICK p \in pins : /\ q.id = p.id /\ q.user = p.user /\ q.created = p.created
                            /\ q = p \/ (p.id \in req[h].found /\ q.until = req[h].start)
      BY <1>3
    <2>2. CASE q = p
      BY <1>5, <2>2 DEF PinInv, PinsReadable
    <2>3. CASE p.id \in req[h].found /\ q.until = req[h].start
      <3>1. p.user = req[h].user
        BY <1>1, <2>3 DEF PinInv, FoundKnown
      <3>2. p.created < req[h].start
        BY <1>1, <1>5, <2>1, <3>1 DEF PinInv, CrossedKnown
      <3> QED
        BY <1>1, <1>2, <2>1, <2>3, <3>2
    <2> QED
      BY <2>1, <2>2, <2>3
  <1>6. ASSUME ~ req[h].stale, NEW q \in Unpinned(h), q.user = req[h].user
        PROVE  ~ (q.until > now)
    <2>1. PICK p \in pins : /\ q.user = p.user
                            /\ \/ q = p /\ (p.id \notin req[h].found \/ p.until < req[h].start)
                               \/ p.id \in req[h].found /\ q.until = req[h].start
      BY <1>3
    <2>2. CASE q = p /\ (p.id \notin req[h].found \/ p.until < req[h].start)
      <3>1. p.until < req[h].start
        <4>1. p.user = req[h].user /\ p.until \in Nat
          BY <1>2, <1>6, <2>1
        <4>2. p.id \notin req[h].found => ~ (p.until >= req[h].start)
          BY <1>1, <1>6, <4>1 DEF PinInv, FoundKnown
        <4> QED
          BY <1>1, <2>2, <4>1, <4>2
      <3> QED
        BY <1>1, <1>2, <2>2, <3>1
    <2>3. CASE p.id \in req[h].found /\ q.until = req[h].start
      BY <1>1, <2>3
    <2> QED
      BY <2>1, <2>2, <2>3
  <1>7. ASSUME NEW g \in Handlers, NEW q \in Unpinned(h), Pinning(g)
        PROVE  /\ q.user = req[g].user /\ q.id \notin crossed => q.created < req[g].start
               /\ req[g].found # None =>
                     /\ q.id \in req[g].found => q.user = req[g].user
                     /\ ~ req[g].stale /\ q.user = req[g].user /\ q.until >= req[g].start
                           => q.id \in req[g].found
    <2>1. PICK p \in pins : /\ q.id = p.id /\ q.user = p.user /\ q.created = p.created
                            /\ q.until \in Nat /\ q.until <= p.until
      BY <1>3
    <2>2. req[g].start \in Nat
      BY <1>7, PinningType DEF PinsOf, PinRequest, UnpinRequest, TypeInv, TablesOK
    <2>3. q.until >= req[g].start => p.until >= req[g].start
      BY <1>2, <2>1, <2>2
    <2> QED
      BY <1>7, <2>1, <2>3 DEF PinInv, CrossedKnown, FoundKnown
  <1> QED
    BY <1>4, <1>5, <1>6, <1>7

LEMMA UnpinPins ==
    ASSUME TypeInv, PinInv, NEW h \in Handlers, unpin(h)
    PROVE  PinInv'
  <1>1. /\ pins' = Unpinned(h) /\ UNCHANGED <<last, now, crossed>> /\ req' = [req EXCEPT ![h] = Idle]
        /\ twins' = IF req[h].stale THEN twins ELSE twins \ {req[h].user}
        /\ req[h].found # None /\ PinsOf(h)
    BY UnpinType DEF unpin, PinsOf
  <1>2. \A g \in Handlers : Pinning(g)' => Pinning(g) /\ req'[g] = req[g]
    BY <1>1 DEF Pinning, Idle, TypeInv, RequestsOK
  <1>3. CrossedKnown'
    BY <1>1, <1>2, UnpinnedKeeps DEF CrossedKnown
  <1>4. FoundKnown'
    <2> SUFFICES ASSUME NEW g \in Handlers, Pinning(g), req'[g] = req[g], req[g].found # None
                 PROVE  /\ req[g].found \subseteq 1..last.pin
                        /\ \A p \in Unpinned(h) : p.id \in req[g].found => p.user = req[g].user
                        /\ ~ req[g].stale =>
                              \A p \in Unpinned(h) : p.user = req[g].user /\ p.until >= req[g].start
                                                  => p.id \in req[g].found
      BY <1>1, <1>2 DEF FoundKnown
    <2> QED
      BY <1>1, UnpinnedKeeps DEF PinInv, FoundKnown
  <1>5. SinglePin'
    BY <1>1, UnpinnedKeeps DEF SinglePin
  <1>6. PinsReadable'
    BY <1>1, UnpinnedKeeps DEF PinsReadable
  <1> QED
    BY <1>3, <1>4, <1>5, <1>6 DEF PinInv

LEMMA PinPins ==
    ASSUME TypeInv, PinInv, NEW h \in Handlers, pin(h)
    PROVE  PinInv'
  <1> DEFINE new == [id |-> last.pin + 1, user |-> req[h].user, created |-> req[h].start,
                     until |-> req[h].start + req[h].len]
  <1>1. /\ pins' = Unpinned(h) \cup {new} /\ last'.pin = last.pin + 1 /\ now' = now
        /\ twins' = (IF req[h].stale THEN twins \cup {req[h].user} ELSE twins \ {req[h].user})
        /\ crossed' = (IF Rivals(h) = {} THEN crossed ELSE crossed \cup {last.pin + 1})
        /\ req[h].found # None /\ PinsOf(h) /\ last.pin \in Nat
    BY PinType DEF pin, PinsOf, TypeInv, TablesOK
  <1>2. /\ req[h] \in PinRequest /\ req'[h] = Idle
        /\ \A g \in Handlers \ {h} :
              /\ Pinning(g) => /\ req'[g].user = req[g].user
                               /\ req'[g].start = req[g].start /\ req'[g].found = req[g].found
                               /\ req[g].user = req[h].user /\ req[g].found # None
                                     => req'[g].stale
                               /\ req[g].stale => req'[g].stale
              /\ ~ Pinning(g) => req'[g] = req[g]
    BY PinType
  <1>3. req[h].start \in 1..now /\ req[h].len \in Nat \ {0} /\ now \in Nat
    BY <1>2, LengthsAssumption DEF PinRequest, TypeInv, TablesOK
  <1>4. \A g \in Handlers : Pinning(g)' => Pinning(g) /\ g # h
    BY <1>2 DEF Pinning, Idle
  <1>5. /\ new.id = last.pin + 1 /\ new.user = req[h].user /\ new.created = req[h].start
        /\ new.until > new.created
    BY <1>3
  <1>6. \A p \in Unpinned(h) : p.id \in 1..last.pin
    BY <1>1, UnpinnedType
  <1>7. CrossedKnown'
    <2> SUFFICES ASSUME NEW g \in Handlers, Pinning(g), g # h, NEW p \in pins', p.user = req[g].user,
                        p.id \notin crossed'
                 PROVE  p.created < req[g].start
      BY <1>2, <1>4 DEF CrossedKnown
    <2>1. CASE p \in Unpinned(h)
      BY <1>1, <2>1, UnpinnedKeeps
    <2>2. CASE p = new
      <3>1. g \in Rivals(h)
        BY <1>5, <2>2 DEF Rivals
      <3> QED
        BY <1>1, <1>5, <2>2, <3>1
    <2> QED
      BY <1>1, <2>1, <2>2
  <1>8. FoundKnown'
    <2> SUFFICES ASSUME NEW g \in Handlers, Pinning(g), g # h, req[g].found # None
                 PROVE  /\ req[g].found \subseteq 1..last'.pin
                        /\ \A p \in pins' : p.id \in req[g].found => p.user = req[g].user
                        /\ ~ req'[g].stale =>
                              \A p \in pins' : p.user = req[g].user /\ p.until >= req[g].start
                                                  => p.id \in req[g].found
      BY <1>2, <1>4 DEF FoundKnown
    <2>1. req[g].found \subseteq 1..last.pin
      BY DEF PinInv, FoundKnown
    <2>2. req[g].found \subseteq 1..last'.pin /\ new.id \notin req[g].found
      BY <1>1, <1>5, <2>1
    <2>3. \A p \in Unpinned(h) : p.id \in req[g].found => p.user = req[g].user
      BY <1>1, UnpinnedKeeps
    <2>4. ASSUME ~ req'[g].stale, NEW p \in pins', p.user = req[g].user, p.until >= req[g].start
          PROVE  p.id \in req[g].found
      <3>1. ~ req[g].stale /\ p # new
        BY <1>2, <1>5, <2>4
      <3> QED
        BY <1>1, <2>4, <3>1, UnpinnedKeeps
    <2> HIDE DEF new
    <2> QED
      BY <1>1, <2>2, <2>3, <2>4
  <1>9. SinglePin'
    <2> SUFFICES ASSUME NEW p \in pins', NEW q \in pins', p.user = q.user, p.user \notin twins',
                        p.until > now, q.until > now
                 PROVE  p = q
      BY <1>1 DEF SinglePin
    <2>1. CASE p.user = req[h].user
      <3>1. ~ req[h].stale
        BY <1>1, <2>1
      <3>2. p \notin Unpinned(h) /\ q \notin Unpinned(h)
        BY <1>1, <2>1, <3>1, UnpinnedKeeps
      <3> QED
        BY <1>1, <3>2
    <2>2. CASE p.user # req[h].user
      <3>1. p \in Unpinned(h) /\ q \in Unpinned(h) /\ p.user \notin twins
        <4> HIDE DEF new
        <4> QED
          BY <1>1, <1>5, <2>2
      <3> QED
        BY <1>1, <3>1, UnpinnedKeeps
    <2> QED
      BY <2>1, <2>2
  <1>10. PinsReadable'
    <2> SUFFICES ASSUME NEW p \in pins', p.id \notin crossed' PROVE p.until > p.created
      BY DEF PinsReadable
    <2>1. CASE p \in Unpinned(h)
      BY <1>1, <2>1, UnpinnedKeeps
    <2> QED
      BY <1>1, <1>5, <2>1
  <1> QED
    BY <1>7, <1>8, <1>9, <1>10 DEF PinInv

LEMMA PinStep ==
    ASSUME TypeInv, TypeInv', PinInv, [Next]_vars
    PROVE  PinInv'
  <1>1. CASE \E u \in Users : OneStatement(u) \/ user_feed(u)
    <2>1. /\ pins' \subseteq pins /\ last'.pin = last.pin /\ now' = now + 1 /\ req' = req
          /\ UNCHANGED <<twins, crossed>>
      <3>1. PICK u \in Users : OneStatement(u) \/ user_feed(u)
        BY <1>1
      <3>2. CASE user_feed(u)
        BY <3>2, UserFeedType DEF tables
      <3>3. CASE create_user_recording_recommendation_event(u) \/ create_user_notification_event(u)
        BY <3>3 DEF create_user_recording_recommendation_event, create_user_notification_event,
                    NewEvent, Request, others, TypeInv, TablesOK
      <3>4. CASE \/ \E v \in Users : follow_user(u, v) \/ unfollow_user(u, v)
                 \/ delete_feed_events(u) \/ delete_pin_for_user(u)
                 \/ unhide_user_timeline_event(u) \/ delete_user(u)
        BY <3>4 DEF follow_user, unfollow_user, delete_feed_events, delete_pin_for_user,
                    unhide_user_timeline_event, delete_user, Request, others
      <3> QED
        BY <3>1, <3>2, <3>3, <3>4 DEF OneStatement
    <2> QED
      BY <2>1, PinsKept
  <1>2. CASE \E h \in Handlers, u \in Users : BeginsRequest(h, u)
    BY <1>2, BeginsPins
  <1>3. CASE \E h \in Handlers : Hide(h) \/ Insert(h) \/ PinFails(h)
    <2>1. PICK h \in Handlers : Hide(h) \/ Insert(h) \/ PinFails(h)
      BY <1>3
    <2>2. req' = [req EXCEPT ![h] = Idle]
      BY <2>1, HideType, InsertType, PinFailsType
    <2>3. pins' = pins /\ now' = now /\ UNCHANGED <<twins, crossed>>
      BY <2>1 DEF Hide, Insert, PinFails, tables
    <2>4. last'.pin = last.pin
      <3>1. CASE Insert(h)
        BY <3>1 DEF Insert, NewEvent, TypeInv, TablesOK
      <3> QED
        BY <2>1, <3>1 DEF Hide, PinFails, tables
    <2>5. \A g \in Handlers : Pinning(g)' => req'[g] = req[g]
      BY <2>2 DEF Pinning, Idle, TypeInv, RequestsOK
    <2> QED
      BY <2>3, <2>4, <2>5, PinsKept
  <1>4. CASE \E h \in Handlers : FindPins(h) \/ pin(h) \/ unpin(h)
    BY <1>4, FindPinsPins, PinPins, UnpinPins
  <1>5. CASE get_feed_events_for_user \/ (\E kind \in Kinds : ReadKind(kind)) \/ UNCHANGED vars
    <2>1. UNCHANGED <<pins, last, now, req, twins, crossed>>
      BY <1>5, ReadKindType, AnswerType DEF tables, vars
    <2> QED
      BY <2>1, PinsKept
  <1> QED
    BY <1>1, <1>2, <1>3, <1>4, <1>5 DEF Next, OneStatement, BeginsRequest

LEMMA PinInit == Init => PinInv
  <1> SUFFICES ASSUME Init PROVE PinInv
    OBVIOUS
  <1>1. \A h \in Handlers : ~ Pinning(h)
    BY DEF Init, Pinning, Idle
  <1> QED
    BY <1>1 DEF Init, PinInv, CrossedKnown, FoundKnown, SinglePin, PinsReadable

LEMMA PinInvCorrect == Spec => [](TypeInv /\ PinInv)
  <1>1. Init => TypeInv /\ PinInv
    BY TypeInit, PinInit
  <1>2. TypeInv /\ PinInv /\ [Next]_vars => (TypeInv /\ PinInv)'
    BY TypeStep, PinStep
  <1> QED
    BY <1>1, <1>2, PTL DEF Spec

\* A user has one active pin at most, unless another pin was committed after the UPDATE that came with
\* the latest one had looked: for any number of users and of requests that pin and unpin at the same time.
THEOREM OnePinCorrect == Spec => []OnePin
  <1>1. TypeInv /\ PinInv => OnePin
    BY SinglePinCounts DEF PinInv
  <1> QED
    BY <1>1, PinInvCorrect, PTL

\* Every pin ends after it was created unless another request of the user was on its way when it was.
THEOREM PinsReadableCorrect == Spec => []PinsReadable
  <1>1. TypeInv /\ PinInv => PinsReadable
    BY DEF PinInv
  <1> QED
    BY <1>1, PinInvCorrect, PTL

-------------------------------------------------------------------------------
(* What the steps add to the tables *)

FiniteTables == IsFiniteSet(follows) /\ IsFiniteSet(events) /\ IsFiniteSet(pins)

LEMMA ImageFinite ==
    ASSUME NEW S, IsFiniteSet(S), NEW f, DOMAIN f = S
    PROVE  IsFiniteSet({f[x] : x \in S})
  <1> DEFINE T == {f[x] : x \in S}
             g == [x \in S |-> f[x]]
  <1>1. g \in Surjection(S, T)
    BY DEF Surjection
  <1> HIDE DEF g, T
  <1>2. IsFiniteSet(T)
    BY <1>1, FS_Surjection
  <1> QED
    BY <1>2 DEF T

LEMMA UnpinnedFinite ==
    ASSUME IsFiniteSet(pins), NEW h \in Handlers
    PROVE  IsFiniteSet(Unpinned(h))
  <1> DEFINE f == [p \in pins |-> IF p.id \in req[h].found /\ p.until >= req[h].start
                                  THEN [p EXCEPT !.until = req[h].start] ELSE p]
  <1>1. Unpinned(h) = {f[p] : p \in pins}
    BY DEF Unpinned
  <1>2. DOMAIN f = pins
    OBVIOUS
  <1> HIDE DEF f
  <1> QED
    BY <1>1, <1>2, ImageFinite

\* Ids are counted upwards, and what is new has a new one.
NewIds ==
    /\ last'.event >= last.event /\ last'.pin >= last.pin
    /\ \A e \in events' : e \in events \/ (e.id = last.event + 1 /\ last'.event = last.event + 1)
    /\ \A e, d \in events' : e \notin events /\ d \notin events => e = d
    /\ \A r \in Rows' : r \in Rows \/ (IF r.kind = "pin" THEN r.id > last.pin ELSE r.id > last.event)
    /\ FiniteTables => FiniteTables'

LEMMA FewerRows ==
    ASSUME TypeInv, events' \subseteq events, pins' \subseteq pins, last' = last,
           IsFiniteSet(follows) => IsFiniteSet(follows')
    PROVE  NewIds
  <1>1. last.event \in Nat /\ last.pin \in Nat
    BY DEF TypeInv, TablesOK
  <1>2. Rows' \subseteq Rows
    BY DEF Rows
  <1>3. FiniteTables => FiniteTables'
    BY FS_Subset DEF FiniteTables
  <1> QED
    BY <1>1, <1>2, <1>3 DEF NewIds

LEMMA EventAdded ==
    ASSUME TypeInv, UNCHANGED <<follows, pins>>, NEW kind, NEW u, NEW R, NEW start,
           NewEvent(kind, u, R, start), kind \in EventKinds
    PROVE  NewIds
  <1> DEFINE e == [kind |-> kind, id |-> last.event + 1, user |-> u, to |-> R, created |-> start]
  <1>1. last.event \in Nat /\ last.pin \in Nat /\ last'.event = last.event + 1 /\ last'.pin = last.pin
        /\ events' = events \cup {e}
    BY DEF NewEvent, TypeInv, TablesOK
  <1>2. e.id = last.event + 1 /\ e.kind # "pin"
    BY DEF EventKinds
  <1> HIDE DEF e
  <1>3. Rows' \subseteq Rows \cup {e}
    BY <1>1 DEF Rows
  <1>4. FiniteTables => FiniteTables'
    BY <1>1, FS_AddElement DEF FiniteTables
  <1> QED
    BY <1>1, <1>2, <1>3, <1>4 DEF NewIds

LEMMA PinsWritten ==
    ASSUME TypeInv, NEW h \in Handlers, pin(h) \/ unpin(h)
    PROVE  NewIds
  <1>1. PinsOf(h) /\ events' = events /\ follows' = follows
    BY PinType, UnpinType DEF pin, unpin, PinsOf
  <1>2. last.event \in Nat /\ last.pin \in Nat
    BY DEF TypeInv, TablesOK
  <1>3. \E new : /\ pins' \subseteq Unpinned(h) \cup {new}
                 /\ new.id = last.pin + 1
                 /\ last'.event = last.event /\ last'.pin >= last.pin
    <2>1. CASE pin(h)
      <3>1. last'.event = last.event /\ last'.pin >= last.pin
        BY <1>2, <2>1 DEF pin, TypeInv, TablesOK
      <3> DEFINE new == [id |-> last.pin + 1, user |-> req[h].user, created |-> req[h].start,
                         until |-> req[h].start + req[h].len]
      <3>2. pins' \subseteq Unpinned(h) \cup {new} /\ new.id = last.pin + 1
        BY <2>1 DEF pin
      <3> HIDE DEF new
      <3> QED
        BY <3>1, <3>2
    <2>2. CASE unpin(h)
      <3> DEFINE new == [id |-> last.pin + 1]
      <3>1. pins' \subseteq Unpinned(h) \cup {new} /\ new.id = last.pin + 1 /\ last' = last
        BY <2>2 DEF unpin
      <3>2. last'.event = last.event /\ last'.pin >= last.pin
        BY <1>2, <3>1
      <3> HIDE DEF new
      <3> QED
        BY <3>1, <3>2
    <2> QED
      BY <2>1, <2>2
  <1>4. PICK new : /\ pins' \subseteq Unpinned(h) \cup {new} /\ new.id = last.pin + 1
                   /\ last'.event = last.event /\ last'.pin >= last.pin
    BY <1>3
  <1>5. ASSUME NEW r \in Rows', r \notin Rows PROVE r.kind = "pin" /\ r.id > last.pin
    <2>1. PICK q \in pins' :
             r = [kind |-> "pin", id |-> q.id, user |-> q.user, to |-> {}, created |-> q.created]
      BY <1>1, <1>5 DEF Rows
    <2>2. q \notin Unpinned(h)
      <3> SUFFICES ASSUME q \in Unpinned(h) PROVE FALSE
        OBVIOUS
      <3>1. PICK p \in pins : q.id = p.id /\ q.user = p.user /\ q.created = p.created
        BY <1>1, UnpinnedIs
      <3> QED
        BY <1>5, <2>1, <3>1 DEF Rows
    <2> QED
      BY <1>2, <1>4, <2>1, <2>2
  <1>6. FiniteTables => FiniteTables'
    BY <1>1, <1>4, UnpinnedFinite, FS_AddElement, FS_Subset DEF FiniteTables
  <1> QED
    BY <1>1, <1>2, <1>4, <1>5, <1>6 DEF NewIds

LEMMA NewIdsStep ==
    ASSUME TypeInv, [Next]_vars
    PROVE  NewIds
  <1>1. CASE \E u \in Users : OneStatement(u)
    <2>1. PICK u \in Users : OneStatement(u)
      BY <1>1
    <2>2. CASE \E v \in Users : follow_user(u, v)
      BY <2>2, FewerRows, FS_AddElement DEF follow_user
    <2>3. CASE \/ \E v \in Users : unfollow_user(u, v)
               \/ delete_feed_events(u) \/ delete_pin_for_user(u)
               \/ unhide_user_timeline_event(u) \/ delete_user(u)
      <3>1. events' \subseteq events /\ pins' \subseteq pins /\ last' = last /\ follows' \subseteq follows
        BY <2>3 DEF unfollow_user, delete_feed_events, delete_pin_for_user, unhide_user_timeline_event,
                    delete_user
      <3> QED
        BY <3>1, FewerRows, FS_Subset
    <2>4. CASE create_user_recording_recommendation_event(u) \/ create_user_notification_event(u)
      <3>1. UNCHANGED <<follows, pins>> /\ \E kind \in EventKinds : NewEvent(kind, u, {}, now')
        BY <2>4 DEF create_user_recording_recommendation_event, create_user_notification_event,
                    EventKinds
      <3> QED
        BY <3>1, EventAdded
    <2> QED
      BY <2>1, <2>2, <2>3, <2>4 DEF OneStatement
  <1>2. CASE \E h \in Handlers : Insert(h)
    <2>1. PICK h \in Handlers : Insert(h)
      BY <1>2
    <2>2. UNCHANGED <<follows, pins>> /\ req[h].op \in EventKinds
      BY <2>1 DEF Insert, EventKinds
    <2>3. \/ \E R : NewEvent(req[h].op, req[h].user, R, req[h].start)
          \/ UNCHANGED <<events, last>>
      BY <2>1 DEF Insert
    <2> QED
      BY <2>2, <2>3, EventAdded, FewerRows
  <1>3. CASE \E h \in Handlers : pin(h) \/ unpin(h)
    BY <1>3, PinsWritten
  <1>4. CASE \/ \E h \in Handlers, u \in Users : BeginsRequest(h, u)
             \/ \E h \in Handlers : Hide(h) \/ FindPins(h) \/ PinFails(h)
             \/ \E u \in Users : user_feed(u)
             \/ \E kind \in Kinds : ReadKind(kind)
             \/ get_feed_events_for_user \/ UNCHANGED vars
    <2>1. UNCHANGED <<follows, events, pins, last>>
      BY <1>4, BeginsType DEF Hide, FindPins, PinFails, user_feed, ReadKind, get_feed_events_for_user,
                              vars, tables
    <2> QED
      BY <2>1, FewerRows
  <1> QED
    BY <1>1, <1>2, <1>3, <1>4 DEF Next, OneStatement, BeginsRequest

-------------------------------------------------------------------------------
(* What a feed holds *)

Newer(S, c) == {y \in S : y.created > c.created}

\* Where Count rows or more are newer than a row, Count of the newest rows are.
LEMMA NewestEnough ==
    ASSUME NEW S, IsFiniteSet(S), \A y \in S : y.created \in Nat, NEW c, c.created \in Nat,
           ~ (Cardinality(Newer(S, c)) < Count)
    PROVE  ~ (Cardinality(Newer(Newest(S, Count), c)) < Count)
  <1> DEFINE N == Newest(S, Count)
             Y == Newer(S, c)
             B == Y \ N
  <1>1. /\ \A x \in S : Newer(S, x) \in SUBSET S /\ IsFiniteSet(Newer(S, x))
                        /\ Cardinality(Newer(S, x)) \in Nat
        /\ N \in SUBSET S /\ IsFiniteSet(N) /\ IsFiniteSet(Newer(N, c))
        /\ Cardinality(Newer(N, c)) \in Nat
    <2>1. \A T \in SUBSET S : IsFiniteSet(T) /\ Cardinality(T) \in Nat
      BY FS_Subset, FS_CardinalityType
    <2>2. N \in SUBSET S
      BY NewestSubset
    <2> QED
      BY <2>1, <2>2 DEF Newer
  <1>2. CASE B = {}
    <2>1. Newer(N, c) = Y
      BY <1>1, <1>2 DEF Newer
    <2> QED
      BY <2>1
  <1>3. CASE B # {}
    <2> DEFINE K == {Cardinality(Newer(S, x)) : x \in B}
               R == OpToRel(<, Nat)
    <2>1. K \in SUBSET Nat /\ K # {}
      BY <1>1, <1>3 DEF Newer
    <2>2. PICK n \in K : \A m \in K : ~ (m < n)
      <3>1. \A i, j \in Nat : j < i => <<j, i>> \in R
        BY DEF OpToRel
      <3>2. IsWellFoundedOn(R, Nat)
        BY NatLessThanWellFounded
      <3> HIDE DEF K, R
      <3>3. PICK n \in K : \A m \in K : ~ (<<m, n>> \in R)
        BY <2>1, <3>2, WFMin
      <3> QED
        BY <2>1, <3>1, <3>3
    <2>3. PICK x \in B : n = Cardinality(Newer(S, x))
      BY <2>2
    <2>4. x \in S /\ x \notin N /\ x.created > c.created /\ x.created \in Nat
      BY <2>3 DEF Newer
    <2>5. ASSUME NEW y \in Newer(S, x), y \notin N PROVE FALSE
      <3>1. y \in S /\ y.created > x.created /\ y.created \in Nat
        BY <2>5 DEF Newer
      <3>2. y \in B
        BY <2>4, <2>5, <3>1 DEF Newer
      <3>3. Newer(S, y) \subseteq Newer(S, x) /\ Newer(S, y) # Newer(S, x)
        <4>1. Newer(S, y) \subseteq Newer(S, x)
          BY <2>4, <3>1 DEF Newer
        <4>2. y \notin Newer(S, y)
          BY <3>1 DEF Newer
        <4> QED
          BY <2>5, <4>1, <4>2
      <3>4. /\ Cardinality(Newer(S, y)) <= Cardinality(Newer(S, x))
            /\ Cardinality(Newer(S, y)) # Cardinality(Newer(S, x))
        BY <1>1, <2>4, <3>3, FS_Subset
      <3>5. Cardinality(Newer(S, y)) < n /\ Cardinality(Newer(S, y)) \in K
        BY <1>1, <2>3, <2>4, <3>1, <3>2, <3>4
      <3> QED
        BY <2>2, <3>5
    <2>6. Newer(S, x) \subseteq Newer(N, c)
      BY <2>4, <2>5 DEF Newer
    <2>7. ~ (Cardinality(Newer(S, x)) < Count)
      BY <2>4 DEF Newest, Newer
    <2>8. Cardinality(Newer(S, x)) <= Cardinality(Newer(N, c))
      BY <1>1, <2>6, FS_Subset
    <2> QED
      BY <1>1, <2>4, <2>7, <2>8, CountAssumption
  <1> QED
    BY <1>2, <1>3

LEMMA RowsFinite ==
    ASSUME FiniteTables
    PROVE  IsFiniteSet(Rows)
  <1> DEFINE f == [p \in pins |-> [kind |-> "pin", id |-> p.id, user |-> p.user, to |-> {},
                                   created |-> p.created]]
  <1>1. Rows = events \cup {f[p] : p \in pins} /\ DOMAIN f = pins
    BY DEF Rows
  <1> HIDE DEF f
  <1>2. IsFiniteSet({f[p] : p \in pins})
    BY <1>1, ImageFinite DEF FiniteTables
  <1> QED
    BY <1>1, <1>2, FS_Union DEF FiniteTables

LEMMA SelectedFinite ==
    ASSUME TypeInv, feed \in Feed, FiniteTables, NEW kind \in Kinds
    PROVE  IsFiniteSet(Selected(kind))
  <1>1. CASE kind = "follow"
    <2> DEFINE S == {g \in follows : g.from \in feed.users /\ InWindow(g)}
               f == [g \in S |-> [kind |-> "follow", id |-> None, user |-> g.from, to |-> {g.to},
                                  created |-> g.created]]
    <2>1. Selected(kind) = {f[g] : g \in S}
      BY <1>1 DEF Selected
    <2>2. IsFiniteSet(S)
      BY FS_Subset DEF FiniteTables
    <2>3. DOMAIN f = S
      OBVIOUS
    <2> HIDE DEF f, S
    <2> QED
      BY <2>1, <2>2, <2>3, ImageFinite
  <1>2. CASE kind # "follow"
    <2>1. Selected(kind) \subseteq Rows
      BY <1>2, KindsAssumption DEF Selected, OfKind, Rows
    <2> QED
      BY <2>1, RowsFinite, FS_Subset
  <1> QED
    BY <1>1, <1>2

\* A row that is there is selected with its kind.
LEMMA SelectedAll ==
    ASSUME TypeInv, feed \in Feed, NEW r \in Rows, r.kind \in Kinds, Mine(r), InWindow(r)
    PROVE  r \in Selected(r.kind)
  <1>1. r \in Item
    BY RowsType
  <1>2. CASE r.kind = "pin"
    BY <1>2 DEF Selected, Mine
  <1>3. CASE r.kind # "pin"
    <2>1. r \in events
      BY <1>3 DEF Rows
    <2>2. r \in OfKind(r.kind)
      BY <2>1 DEF OfKind
    <2>3. r.kind \in {"recommendation", "notification", "personal", "thanks"}
      BY <1>1, <1>3 DEF Item, EventKinds
    <2>4. CASE r.kind = "recommendation"
      BY <2>2, <2>4 DEF Selected, Mine
    <2>5. CASE r.kind = "notification"
      BY <2>2, <2>5 DEF Selected, Mine
    <2>6. CASE r.kind = "personal"
      BY <2>1, <2>6 DEF Selected, Mine
    <2>7. CASE r.kind = "thanks"
      BY <2>2, <2>7 DEF Selected, Mine
    <2> QED
      BY <2>3, <2>4, <2>5, <2>6, <2>7
  <1> QED
    BY <1>2, <1>3

\* Whom a row concerns and whether it is in the window is asked of the feed alone.
LEMMA SameFeed ==
    ASSUME feed'.user = feed.user, feed'.users = feed.users, feed'.max = feed.max, NEW r
    PROVE  (Mine(r)' <=> Mine(r)) /\ (InWindow(r)' <=> InWindow(r))
  BY DEF Mine, InWindow

RowsAreMine == \A r \in feed.rows : Mine(r)

\* The kinds that have been read are complete.
KindsRead ==
    \A r \in feed.there \cap Rows :
       Mine(r) /\ InWindow(r) /\ r.kind \in Kinds \ (feed.todo \cup feed.failed) =>
           r \in feed.rows \cup feed.cut

\* A row that was there when the request began has no id that is still to be given.
ThereBefore == \A r \in feed.there : IF r.kind = "pin" THEN r.id <= last.pin ELSE r.id <= last.event

\* What did not fit is older than Count of the rows.
CutOlder == \A c \in feed.cut : ~ (Cardinality(Newer(feed.rows, c)) < Count)

FollowsNameless == \A r \in feed.rows : r.kind = "follow" => r.id = None

HidMine == \A x \in feed.hid : x.user = feed.user

FeedInv ==
    /\ FiniteTables
    /\ feed.at = "reading" =>
          /\ RowsAreMine /\ KindsRead /\ ThereBefore /\ CutOlder /\ FollowsNameless /\ HidMine
          /\ IsFiniteSet(feed.rows)

\* Other requests change the tables while the feed is read.
LEMMA TablesChange ==
    ASSUME TypeInv, TypeInv', FeedInv, NewIds, feed' = feed
    PROVE  FeedInv'
  <1>1. FiniteTables'
    BY DEF FeedInv, NewIds
  <1>2. SUFFICES ASSUME feed.at = "reading"
                 PROVE  /\ RowsAreMine' /\ KindsRead' /\ ThereBefore' /\ CutOlder' /\ FollowsNameless'
                        /\ HidMine' /\ IsFiniteSet(feed'.rows)
    BY <1>1 DEF FeedInv
  <1>3. RowsAreMine /\ KindsRead /\ ThereBefore /\ CutOlder /\ FollowsNameless /\ HidMine
        /\ IsFiniteSet(feed.rows)
    BY <1>2 DEF FeedInv
  <1>4. RowsAreMine' /\ CutOlder' /\ FollowsNameless' /\ HidMine' /\ IsFiniteSet(feed'.rows)
    BY <1>3 DEF RowsAreMine, CutOlder, FollowsNameless, HidMine, Mine, Newer
  <1>5. \A r \in feed.there : r.id \in Nat
    BY <1>2 DEF TypeInv, NoFeed, Feed, Item
  <1>6. /\ last'.event >= last.event /\ last'.pin >= last.pin
        /\ last.event \in Nat /\ last.pin \in Nat /\ last'.event \in Nat /\ last'.pin \in Nat
    BY DEF TypeInv, TablesOK, NewIds
  <1>7. ThereBefore'
    BY <1>3, <1>5, <1>6 DEF ThereBefore
  <1>8. ASSUME NEW r \in feed'.there \cap Rows', Mine(r)', InWindow(r)',
               r.kind \in Kinds \ (feed'.todo \cup feed'.failed)
        PROVE  r \in feed'.rows \cup feed'.cut
    <2>1. r \in Rows
      <3>1. IF r.kind = "pin" THEN r.id <= last.pin ELSE r.id <= last.event
        BY <1>3, <1>8 DEF ThereBefore
      <3>2. r.id \in Nat
        BY <1>5, <1>8
      <3> QED
        BY <1>6, <1>8, <3>1, <3>2 DEF NewIds
    <2>2. Mine(r) /\ InWindow(r)
      BY <1>8 DEF Mine, InWindow
    <2> QED
      BY <1>3, <1>8, <2>1, <2>2 DEF KindsRead
  <1>9. KindsRead'
    BY <1>8 DEF KindsRead
  <1> QED
    BY <1>4, <1>7, <1>9

LEMMA UserFeedFeed ==
    ASSUME TypeInv, FeedInv, NEW u \in Users, user_feed(u)
    PROVE  FeedInv'
  <1>1. /\ UNCHANGED tables /\ feed'.rows = {} /\ feed'.cut = {} /\ feed'.todo = Kinds
        /\ feed'.there = Rows /\ feed'.hid = {x \in hidden : x.user = u} /\ feed'.user = u
    BY UserFeedType
  <1>2. FiniteTables'
    BY <1>1 DEF FeedInv, FiniteTables, tables
  <1>3. ThereBefore'
    <2>1. last' = last
      BY <1>1 DEF tables
    <2>2. \A r \in Rows : IF r.kind = "pin" THEN r.id <= last.pin ELSE r.id <= last.event
      <3>1. \A e \in events : e.kind # "pin" /\ e.id <= last.event
        BY DEF TypeInv, TablesOK, EventsOK, EventRow, EventKinds
      <3>2. last.pin \in Nat /\ \A p \in pins : p.id \in 1..last.pin
        BY DEF TypeInv, TablesOK, PinsOK
      <3> QED
        BY <3>1, <3>2 DEF Rows
    <2> QED
      BY <1>1, <2>1, <2>2 DEF ThereBefore
  <1>4. RowsAreMine' /\ CutOlder' /\ FollowsNameless' /\ HidMine' /\ IsFiniteSet(feed'.rows)
    BY <1>1, FS_EmptySet DEF RowsAreMine, CutOlder, FollowsNameless, HidMine
  <1>5. KindsRead'
    BY <1>1 DEF KindsRead
  <1> QED
    BY <1>2, <1>3, <1>4, <1>5 DEF FeedInv

\* A follow that a feed holds has no id of an event.
LEMMA SelectedNameless ==
    ASSUME TypeInv, NEW kind \in Kinds, NEW r \in Selected(kind), r.kind = "follow"
    PROVE  r.id = None
  <1>1. CASE kind = "follow"
    BY <1>1 DEF Selected
  <1>2. CASE kind # "follow"
    <2>1. r \in Rows
      BY <1>2, KindsAssumption DEF Selected, OfKind, Rows
    <2> QED
      BY <2>1, RowsType DEF Item, EventKinds
  <1> QED
    BY <1>1, <1>2

LEMMA ReadKindFeed ==
    ASSUME TypeInv, TypeInv', FeedInv, NEW kind \in Kinds, ReadKind(kind)
    PROVE  FeedInv'
  <1> DEFINE chosen == Selected(kind)
             page == Newest(chosen, Count)
  <1>1. /\ UNCHANGED tables /\ feed \in Feed /\ feed' \in Feed /\ feed.at = "reading"
        /\ feed'.user = feed.user /\ feed'.users = feed.users /\ feed'.there = feed.there
        /\ feed'.hid = feed.hid /\ feed'.max = feed.max /\ feed'.todo = feed.todo \ {kind}
        /\ feed.failed \subseteq feed'.failed
        /\ \/ /\ feed'.failed = feed.failed
              /\ feed'.rows = feed.rows \cup page /\ feed'.cut = feed.cut \cup (chosen \ page)
           \/ /\ feed'.failed = feed.failed \cup {kind}
              /\ feed'.rows = feed.rows /\ feed'.cut = feed.cut
    BY ReadKindType
  <1>2. RowsAreMine /\ KindsRead /\ ThereBefore /\ CutOlder /\ FollowsNameless /\ HidMine
        /\ IsFiniteSet(feed.rows) /\ FiniteTables
    BY <1>1 DEF FeedInv
  <1>3. /\ page \subseteq chosen /\ IsFiniteSet(chosen)
        /\ \A r \in chosen : /\ r \in FeedRow /\ Mine(r) /\ r.created \in Nat
                             /\ r.kind = "follow" => r.id = None
    BY <1>1, <1>2, NewestSubset, SelectedFinite, SelectedRows, SelectedNameless DEF FeedRow
  <1>4. \A c \in chosen \ page : ~ (Cardinality(Newer(page, c)) < Count)
    <2> TAKE c \in chosen \ page
    <2>1. ~ (Cardinality(Newer(chosen, c)) < Count)
      BY DEF Newest, Newer
    <2> HIDE DEF chosen
    <2> QED
      BY <1>3, <2>1, NewestEnough
  <1>5. \A r \in Rows : r.kind = kind /\ Mine(r) /\ InWindow(r) => r \in chosen
    BY <1>1, SelectedAll
  <1> HIDE DEF chosen, page
  <1>6. FiniteTables' /\ Rows' = Rows /\ last' = last
    BY <1>1, <1>2 DEF FiniteTables, tables, Rows
  <1>7. feed.rows \subseteq feed'.rows /\ feed.cut \subseteq feed'.cut
        /\ feed'.rows \subseteq feed.rows \cup chosen /\ IsFiniteSet(feed'.rows)
    <2>1. IsFiniteSet(page)
      BY <1>3, FS_Subset
    <2>2. IsFiniteSet(feed.rows \cup page)
      BY <1>2, <2>1, FS_Union
    <2>3. feed'.rows = feed.rows \/ feed'.rows = feed.rows \cup page
      BY <1>1
    <2>4. IsFiniteSet(feed'.rows)
      BY <1>2, <2>2, <2>3
    <2>5. feed.rows \subseteq feed'.rows /\ feed'.rows \subseteq feed.rows \cup chosen
      BY <1>3, <2>3
    <2>6. feed.cut \subseteq feed'.cut
      BY <1>1
    <2> QED
      BY <2>4, <2>5, <2>6
  <1>8. RowsAreMine'
    <2> SUFFICES ASSUME NEW r \in feed'.rows PROVE Mine(r)'
      BY DEF RowsAreMine
    <2>1. Mine(r)
      BY <1>2, <1>3, <1>7 DEF RowsAreMine
    <2> QED
      BY <1>1, <2>1, SameFeed
  <1>9. KindsRead'
    <2> SUFFICES ASSUME NEW r \in feed'.there \cap Rows', Mine(r)', InWindow(r)',
                        r.kind \in Kinds \ (feed'.todo \cup feed'.failed)
                 PROVE  r \in feed'.rows \cup feed'.cut
      BY DEF KindsRead
    <2>1. Mine(r) /\ InWindow(r) /\ r \in feed.there \cap Rows
      BY <1>1, <1>6, SameFeed
    <2>2. CASE r.kind = kind
      BY <1>1, <1>5, <2>1, <2>2
    <2>3. CASE r.kind # kind
      <3>1. r \in feed.rows \cup feed.cut
        BY <1>1, <1>2, <2>1, <2>3 DEF KindsRead
      <3> QED
        BY <1>7, <3>1
    <2> QED
      BY <2>2, <2>3
  <1>10. ThereBefore' /\ HidMine'
    BY <1>1, <1>2, <1>6 DEF ThereBefore, HidMine
  <1>11. FollowsNameless'
    BY <1>2, <1>3, <1>7 DEF FollowsNameless
  <1>12. CutOlder'
    <2> SUFFICES ASSUME NEW c \in feed'.cut PROVE ~ (Cardinality(Newer(feed'.rows, c)) < Count)
      BY DEF CutOlder, Newer
    <2>1. PICK T \in SUBSET feed'.rows : ~ (Cardinality(Newer(T, c)) < Count)
      <3>1. CASE c \in feed.cut
        BY <1>2, <1>7, <3>1 DEF CutOlder
      <3>2. CASE c \notin feed.cut
        BY <1>1, <1>4, <3>2
      <3> QED
        BY <3>1, <3>2
    <2>2. Newer(T, c) \subseteq Newer(feed'.rows, c) /\ IsFiniteSet(Newer(feed'.rows, c))
      BY <1>7, FS_Subset DEF Newer
    <2>3. /\ Cardinality(Newer(T, c)) <= Cardinality(Newer(feed'.rows, c))
          /\ Cardinality(Newer(T, c)) \in Nat /\ Cardinality(Newer(feed'.rows, c)) \in Nat
      BY <2>2, FS_Subset, FS_CardinalityType
    <2> QED
      BY <2>1, <2>3, CountAssumption
  <1> QED
    BY <1>6, <1>7, <1>8, <1>9, <1>10, <1>11, <1>12 DEF FeedInv

LEMMA FeedStep ==
    ASSUME TypeInv, TypeInv', FeedInv, [Next]_vars
    PROVE  FeedInv'
  <1>1. NewIds
    BY NewIdsStep
  <1>2. CASE \E u \in Users : user_feed(u)
    BY <1>2, UserFeedFeed
  <1>3. CASE \E kind \in Kinds : ReadKind(kind)
    BY <1>3, ReadKindFeed
  <1>4. CASE get_feed_events_for_user
    <2>1. feed'.at = "answered" /\ FiniteTables'
      BY <1>1, <1>4, AnswerType DEF FeedInv, NewIds
    <2> QED
      BY <2>1 DEF FeedInv
  <1>5. CASE \/ \E u \in Users : OneStatement(u)
             \/ \E h \in Handlers, u \in Users : BeginsRequest(h, u)
             \/ \E h \in Handlers : Hide(h) \/ Insert(h) \/ FindPins(h) \/ pin(h) \/ unpin(h) \/ PinFails(h)
             \/ UNCHANGED vars
    <2>1. CASE \E u \in Users : OneStatement(u)
      <3>1. feed' = feed
        BY <2>1 DEF OneStatement, others, follow_user, unfollow_user,
                    create_user_recording_recommendation_event, create_user_notification_event,
                    delete_feed_events, delete_pin_for_user, unhide_user_timeline_event, delete_user
      <3> QED
        BY <1>1, <3>1, TablesChange
    <2>2. CASE \E h \in Handlers, u \in Users : BeginsRequest(h, u)
      BY <1>1, <2>2, BeginsType, TablesChange
    <2>3. CASE \E h \in Handlers : Hide(h) \/ Insert(h) \/ FindPins(h) \/ pin(h) \/ unpin(h) \/ PinFails(h)
      <3>1. feed' = feed
        BY <2>3 DEF Hide, Insert, FindPins, pin, unpin, PinFails
      <3> QED
        BY <1>1, <3>1, TablesChange
    <2>4. CASE UNCHANGED vars
      BY <1>1, <2>4, TablesChange DEF vars
    <2> QED
      BY <1>5, <2>1, <2>2, <2>3, <2>4
  <1> QED
    BY <1>2, <1>3, <1>4, <1>5 DEF Next, OneStatement, BeginsRequest

LEMMA FeedInit == Init => FeedInv
  <1> SUFFICES ASSUME Init PROVE FeedInv
    OBVIOUS
  <1> DEFINE All == {f \in [from : Users, to : Users, created : {0}] : f.from # f.to}
             Pairs == Users \X Users
             edge == [q \in Pairs |-> [from |-> q[1], to |-> q[2], created |-> 0]]
             Edges == {edge[q] : q \in Pairs}
  <1>1. IsFiniteSet(Pairs)
    BY UsersAssumption, FS_Product
  <1>2. All \subseteq Edges
    <2> SUFFICES ASSUME NEW f \in All PROVE f \in Edges
      OBVIOUS
    <2>1. <<f.from, f.to>> \in Pairs
      OBVIOUS
    <2>2. f = edge[<<f.from, f.to>>]
      BY <2>1
    <2> QED
      BY <2>1, <2>2
  <1>3. IsFiniteSet(Edges)
    <2>1. DOMAIN edge = Pairs
      OBVIOUS
    <2> HIDE DEF edge, Pairs
    <2> QED
      BY <1>1, <2>1, ImageFinite
  <1>4. follows \subseteq Edges
    BY <1>2 DEF Init
  <1> HIDE DEF All, Edges
  <1>5. FiniteTables
    BY <1>3, <1>4, FS_Subset, FS_EmptySet DEF Init, FiniteTables
  <1> QED
    BY <1>5 DEF Init, FeedInv, NoFeed

\* A feed is answered by one action.
LEMMA AnswersAnswer ==
    ASSUME TypeInv, [Next]_vars, Answers
    PROVE  get_feed_events_for_user
  <1>1. CASE \E u \in Users : OneStatement(u)
    <2>1. feed' = feed
      BY <1>1 DEF OneStatement, others, follow_user, unfollow_user,
                  create_user_recording_recommendation_event, create_user_notification_event,
                  delete_feed_events, delete_pin_for_user, unhide_user_timeline_event, delete_user
    <2> QED
      BY <2>1 DEF Answers
  <1>2. CASE \E h \in Handlers, u \in Users : BeginsRequest(h, u)
    BY <1>2, BeginsType DEF Answers
  <1>3. CASE \E h \in Handlers : Hide(h) \/ Insert(h) \/ FindPins(h) \/ pin(h) \/ unpin(h) \/ PinFails(h)
    BY <1>3 DEF Answers, Hide, Insert, FindPins, pin, unpin, PinFails
  <1>4. CASE \E u \in Users : user_feed(u)
    BY <1>4, UserFeedType DEF Answers
  <1>5. CASE \E kind \in Kinds : ReadKind(kind)
    BY <1>5, ReadKindType DEF Answers
  <1>6. CASE UNCHANGED vars
    BY <1>6 DEF vars, Answers
  <1> QED
    BY <1>1, <1>2, <1>3, <1>4, <1>5, <1>6 DEF Next, OneStatement, BeginsRequest

\* The answer is complete but for kinds that failed and for what is older than all of it.
LEMMA AnswerExact ==
    ASSUME TypeInv, FeedInv, [Next]_vars, Answers
    PROVE  /\ \A r \in feed'.rows : Mine(r)
           /\ \A r \in feed.there \cap Rows :
                 Mine(r) /\ InWindow(r) /\ r.kind \in Kinds \ feed.failed =>
                     r \in feed'.rows \cup feed'.cut
           /\ \A r \in feed'.rows, c \in feed'.cut : c.created < r.created
  <1>1. get_feed_events_for_user
    BY AnswersAnswer
  <1>2. /\ feed \in Feed /\ feed.todo = {}
        /\ feed'.rows = Newest(feed.rows, Count)
        /\ feed'.cut = feed.cut \cup (feed.rows \ Newest(feed.rows, Count))
    BY <1>1, AnswerType
  <1>3. RowsAreMine /\ KindsRead /\ CutOlder /\ IsFiniteSet(feed.rows)
    BY DEF FeedInv, Answers
  <1>4. feed'.rows \subseteq feed.rows
    BY <1>2, NewestSubset
  <1>5. \A r \in feed'.rows : Mine(r)
    BY <1>3, <1>4 DEF RowsAreMine
  <1>6. \A r \in feed.there \cap Rows :
           Mine(r) /\ InWindow(r) /\ r.kind \in Kinds \ feed.failed => r \in feed'.rows \cup feed'.cut
    BY <1>2, <1>3 DEF KindsRead
  <1>7. ASSUME NEW r \in feed'.rows, NEW c \in feed'.cut PROVE c.created < r.created
    <2>1. r \in feed.rows /\ r.created \in Nat /\ c.created \in Nat
      BY <1>2, <1>4 DEF Feed, FeedRow
    <2>2. Cardinality(Newer(feed.rows, r)) < Count
      BY <1>2 DEF Newest, Newer
    <2>3. ~ (Cardinality(Newer(feed.rows, c)) < Count)
      BY <1>2, <1>3 DEF CutOlder, Newest, Newer
    <2>4. SUFFICES ASSUME c.created >= r.created PROVE FALSE
      BY <2>1
    <2>5. Newer(feed.rows, c) \subseteq Newer(feed.rows, r) /\ IsFiniteSet(Newer(feed.rows, r))
      <3>1. \A y \in feed.rows : y.created \in Nat
        BY <1>2 DEF Feed, FeedRow
      <3> QED
        BY <1>3, <2>1, <2>4, <3>1, FS_Subset DEF Newer
    <2>6. /\ Cardinality(Newer(feed.rows, c)) <= Cardinality(Newer(feed.rows, r))
          /\ Cardinality(Newer(feed.rows, c)) \in Nat /\ Cardinality(Newer(feed.rows, r)) \in Nat
      BY <2>5, FS_Subset, FS_CardinalityType
    <2> QED
      BY <2>2, <2>3, <2>6, CountAssumption
  <1> QED
    BY <1>5, <1>6, <1>7

LEMMA FeedInvCorrect == Spec => [](TypeInv /\ FeedInv)
  <1>1. Init => TypeInv /\ FeedInv
    BY TypeInit, FeedInit
  <1>2. TypeInv /\ FeedInv /\ [Next]_vars => (TypeInv /\ FeedInv)'
    BY TypeStep, FeedStep
  <1> QED
    BY <1>1, <1>2, PTL DEF Spec

\* A feed holds what concerns the user only, and all of that that was there while it was read, but for
\* kinds that could not be read and for what is older than every row of the page: whatever other requests
\* do in between, and for any length of the page.
THEOREM FeedExactCorrect == Spec => FeedExact
  <1>1. TypeInv /\ FeedInv /\ [Next]_vars =>
           [Answers =>
              /\ \A r \in feed'.rows : Mine(r)
              /\ \A r \in feed.there \cap Rows :
                    Mine(r) /\ InWindow(r) /\ r.kind \in Kinds \ feed.failed =>
                        r \in feed'.rows \cup feed'.cut
              /\ \A r \in feed'.rows, c \in feed'.cut : c.created < r.created]_vars
    BY AnswerExact
  <1> QED
    BY <1>1, FeedInvCorrect, PTL DEF Spec, FeedExact

-------------------------------------------------------------------------------
(* What a feed marks *)

\* The events that somebody speaks of by kind and id: those that are there, those that are hidden or
\* about to be, and those that the feed holds, deleted ones included.
Spoken(r) ==
    /\ r.kind # "pin"
    /\ \/ r \in events
       \/ r \in hidden
       \/ \E h \in Handlers : req[h].op = "hide" /\ r = req[h].row
       \/ feed.at = "reading" /\ r.kind # "follow" /\ r \in feed.rows

\* An id stands for one event, whose kind does not change: ids are not given again.
KindById ==
    /\ \A r : Spoken(r) => r.id \in 1..last.event
    /\ \A r, s : Spoken(r) /\ Spoken(s) /\ r.id = s.id => r.kind = s.kind

\* Requests to hide name rows that are there when they begin.
LEMMA HideRequests ==
    ASSUME TypeInv, TypeInv', [Next]_vars, NEW h \in Handlers, req'[h].op = "hide"
    PROVE  req'[h] = req[h] \/ req'[h].row \in Rows
  <1> DOMAIN req = Handlers
    BY DEF TypeInv, RequestsOK
  <1>1. CASE \E g \in Handlers, u \in Users : BeginsRequest(g, u)
    BY <1>1, BeginsType
  <1>2. CASE \E g \in Handlers : Hide(g) \/ Insert(g) \/ PinFails(g) \/ unpin(g)
    BY <1>2 DEF Hide, Insert, PinFails, unpin, Done, Idle
  <1>3. CASE \E g \in Handlers : FindPins(g)
    <2>1. PICK g \in Handlers : FindPins(g)
      BY <1>3
    <2>2. CASE g = h
      <3>1. req[h].op # "hide"
        BY <2>1, <2>2 DEF FindPins, Pinning
      <3>2. req[h] \in PinRequest \cup UnpinRequest
        BY <2>1, <2>2, PinningType DEF FindPins, PinsOf
      <3>3. req'[h].op = req[h].op
        BY <2>1, <2>2, <3>2 DEF FindPins, PinRequest, UnpinRequest
      <3> QED
        BY <3>1, <3>3
    <2>3. CASE g # h
      BY <2>1, <2>3 DEF FindPins
    <2> QED
      BY <2>2, <2>3
  <1>4. CASE \E g \in Handlers : pin(g)
    <2>1. PICK g \in Handlers : pin(g)
      BY <1>4
    <2>2. req'[h] = Idle \/ req'[h] = req[h] \/ (Pinning(h) /\ req'[h] = [req[h] EXCEPT !.stale = TRUE])
      BY <2>1 DEF pin, Rivals
    <2>3. CASE Pinning(h) /\ req'[h] = [req[h] EXCEPT !.stale = TRUE]
      <3>1. req[h] \in PinRequest \cup UnpinRequest
        BY <2>3, PinningType DEF PinsOf
      <3> QED
        BY <2>3, <3>1 DEF PinRequest, UnpinRequest
    <2> QED
      BY <2>2, <2>3 DEF Idle
  <1>5. CASE \/ \E u \in Users : OneStatement(u) \/ user_feed(u)
             \/ \E kind \in Kinds : ReadKind(kind)
             \/ get_feed_events_for_user \/ UNCHANGED vars
    <2>1. req' = req
      BY <1>5 DEF OneStatement, others, follow_user, unfollow_user,
                  create_user_recording_recommendation_event, create_user_notification_event,
                  delete_feed_events, delete_pin_for_user, unhide_user_timeline_event, delete_user,
                  user_feed, ReadKind, get_feed_events_for_user, vars
    <2> QED
      BY <2>1
  <1> QED
    BY <1>1, <1>2, <1>3, <1>4, <1>5 DEF Next, OneStatement, BeginsRequest

LEMMA HiddenRows ==
    ASSUME TypeInv, [Next]_vars, NEW x \in hidden', x \notin hidden
    PROVE  \E h \in Handlers : req[h].op = "hide" /\ x.kind = req[h].row.kind /\ x.id = req[h].row.id
  <1>1. CASE \E h \in Handlers : Hide(h)
    <2>1. PICK h \in Handlers : Hide(h)
      BY <1>1
    <2> QED
      BY <2>1, HideType DEF Hide, Doing
  <1>2. CASE \/ \E u \in Users : OneStatement(u)
             \/ \E h \in Handlers : Insert(h) \/ FindPins(h) \/ pin(h) \/ unpin(h) \/ PinFails(h)
             \/ UNCHANGED vars
    BY <1>2 DEF OneStatement, follow_user, unfollow_user,
                create_user_recording_recommendation_event, create_user_notification_event,
                delete_feed_events, delete_pin_for_user, unhide_user_timeline_event, delete_user,
                Insert, FindPins, pin, unpin, PinFails, vars, tables
  <1>3. CASE \/ \E h \in Handlers, u \in Users : BeginsRequest(h, u)
             \/ \E u \in Users : user_feed(u)
             \/ \E kind \in Kinds : ReadKind(kind)
             \/ get_feed_events_for_user
    BY <1>3, BeginsType DEF user_feed, ReadKind, get_feed_events_for_user, tables
  <1> QED
    BY <1>1, <1>2, <1>3 DEF Next, OneStatement, BeginsRequest

LEMMA FeedRows ==
    ASSUME TypeInv, [Next]_vars, feed'.at = "reading", NEW r \in feed'.rows
    PROVE  (feed.at = "reading" /\ r \in feed.rows) \/ r.kind = "follow" \/ r \in Rows
  <1>1. CASE \E kind \in Kinds : ReadKind(kind)
    <2>1. PICK kind \in Kinds : ReadKind(kind)
      BY <1>1
    <2>2. /\ feed \in Feed /\ feed.at = "reading"
          /\ feed'.rows = feed.rows \/ feed'.rows = feed.rows \cup Newest(Selected(kind), Count)
      BY <2>1, ReadKindType
    <2> QED
      BY <2>2, NewestSubset, SelectedRows
  <1>2. CASE \E u \in Users : user_feed(u)
    BY <1>2, UserFeedType
  <1>3. CASE get_feed_events_for_user
    BY <1>3, AnswerType
  <1>4. CASE \/ \E u \in Users : OneStatement(u)
             \/ \E h \in Handlers : Hide(h) \/ Insert(h) \/ FindPins(h) \/ pin(h) \/ unpin(h) \/ PinFails(h)
             \/ UNCHANGED vars
    BY <1>4 DEF OneStatement, others, follow_user, unfollow_user,
                create_user_recording_recommendation_event, create_user_notification_event,
                delete_feed_events, delete_pin_for_user, unhide_user_timeline_event, delete_user,
                Hide, Insert, FindPins, pin, unpin, PinFails, vars
  <1>5. CASE \E h \in Handlers, u \in Users : BeginsRequest(h, u)
    BY <1>5, BeginsType
  <1> QED
    BY <1>1, <1>2, <1>3, <1>4, <1>5 DEF Next, OneStatement, BeginsRequest

\* What a step adds to what is spoken of is named as before, or is the step's new event.
LEMMA SpokenStep ==
    ASSUME TypeInv, TypeInv', [Next]_vars, NEW r, Spoken(r)'
    PROVE  \/ \E s : Spoken(s) /\ s.kind = r.kind /\ s.id = r.id
           \/ r \in events' \ events
  <1>1. \A s \in Rows : s.kind # "pin" => Spoken(s)
    BY DEF Rows, Spoken
  <1>2. CASE r \in hidden' /\ r \notin hidden
    <2>1. PICK h \in Handlers : req[h].op = "hide" /\ r.kind = req[h].row.kind /\ r.id = req[h].row.id
      BY <1>2, HiddenRows
    <2>2. Spoken(req[h].row)
      BY <2>1 DEF Spoken
    <2> QED
      BY <2>1, <2>2
  <1>3. CASE \E h \in Handlers : req'[h].op = "hide" /\ r = req'[h].row
    <2>1. PICK h \in Handlers : req'[h].op = "hide" /\ r = req'[h].row
      BY <1>3
    <2>2. req'[h] = req[h] \/ req'[h].row \in Rows
      BY <2>1, HideRequests
    <2>3. Spoken(r)
      BY <1>1, <2>1, <2>2 DEF Spoken
    <2> QED
      BY <2>3
  <1>4. CASE feed'.at = "reading" /\ r.kind # "follow" /\ r \in feed'.rows
    <2>1. Spoken(r)
      BY <1>1, <1>4, FeedRows DEF Spoken
    <2> QED
      BY <2>1
  <1>5. CASE r \in events \/ r \in hidden
    BY <1>5 DEF Spoken
  <1> QED
    BY <1>2, <1>3, <1>4, <1>5 DEF Spoken

LEMMA KindByIdStep ==
    ASSUME TypeInv, TypeInv', KindById, [Next]_vars
    PROVE  KindById'
  <1>1. /\ last'.event >= last.event /\ last.event \in Nat /\ last'.event \in Nat
        /\ \A e \in events' : e \in events \/ (e.id = last.event + 1 /\ last'.event = last.event + 1)
        /\ \A e, d \in events' : e \notin events /\ d \notin events => e = d
    BY NewIdsStep DEF NewIds, TypeInv, TablesOK
  <1>2. ASSUME NEW r, Spoken(r)'
        PROVE  r.id \in 1..last'.event
    <2>1. CASE \E s : Spoken(s) /\ s.kind = r.kind /\ s.id = r.id
      BY <1>1, <2>1 DEF KindById
    <2>2. CASE r \in events' \ events
      BY <1>1, <2>2
    <2> QED
      BY <1>2, <2>1, <2>2, SpokenStep
  <1>3. ASSUME NEW r, NEW s, Spoken(r)', Spoken(s)', r.id = s.id
        PROVE  r.kind = s.kind
    <2>1. CASE r \in events' \ events /\ s \in events' \ events
      BY <1>1, <2>1
    <2>2. CASE \E q : Spoken(q) /\ q.kind = r.kind /\ q.id = r.id
      <3>1. PICK q : Spoken(q) /\ q.kind = r.kind /\ q.id = r.id
        BY <2>2
      <3>2. s \notin events' \ events
        BY <1>1, <1>3, <3>1 DEF KindById
      <3>3. PICK t : Spoken(t) /\ t.kind = s.kind /\ t.id = s.id
        BY <1>3, <3>2, SpokenStep
      <3> QED
        BY <1>3, <3>1, <3>3 DEF KindById
    <2>3. CASE \E q : Spoken(q) /\ q.kind = s.kind /\ q.id = s.id
      <3>1. PICK q : Spoken(q) /\ q.kind = s.kind /\ q.id = s.id
        BY <2>3
      <3>2. r \notin events' \ events
        BY <1>1, <1>3, <3>1 DEF KindById
      <3>3. PICK t : Spoken(t) /\ t.kind = r.kind /\ t.id = r.id
        BY <1>3, <3>2, SpokenStep
      <3> QED
        BY <1>3, <3>1, <3>3 DEF KindById
    <2> QED
      BY <1>3, <2>1, <2>2, <2>3, SpokenStep
  <1> QED
    BY <1>2, <1>3 DEF KindById

LEMMA KindByIdInit == Init => KindById
  <1> SUFFICES ASSUME Init PROVE KindById
    OBVIOUS
  <1>1. \A r : ~ Spoken(r)
    BY DEF Init, Spoken, Idle, NoFeed
  <1> QED
    BY <1>1 DEF KindById

\* What is hidden is marked, and what is marked is hidden or a namesake.
LEMMA AnswerMarks ==
    ASSUME TypeInv, FeedInv, KindById, [Next]_vars, Answers, NEW r \in feed'.rows
    PROVE  /\ \A x \in feed.hid \cap hidden :
                 Hides(x, r) /\ Cardinality({y \in hidden : y.user = x.user /\ y.created > x.created}) < Count =>
                     r \in feed'.marked
           /\ r \in feed'.marked =>
                 \E x \in hidden : x.user = feed.user /\ (Hides(x, r) \/ Namesake(x, r))
  <1>1. get_feed_events_for_user
    BY AnswersAnswer
  <1>2. /\ feed \in Feed /\ feed.at = "reading"
        /\ feed'.rows = Newest(feed.rows, Count)
        /\ feed'.marked = {q \in Newest(feed.rows, Count) : q.id \in get_hidden_timeline_event_ids}
    BY <1>1, AnswerType
  <1>3. FollowsNameless /\ HidMine
    BY <1>2 DEF FeedInv
  <1>4. r \in feed.rows /\ r \in FeedRow
    BY <1>2, NewestSubset DEF Feed
  <1> DEFINE own == {y \in hidden : y.user = feed.user}
  <1>5. r \in feed'.marked <=> \E x \in Newest(own, Count) : x.id = r.id
    BY <1>2 DEF get_hidden_timeline_event_ids
  <1>6. ASSUME NEW x \in feed.hid \cap hidden, Hides(x, r),
               Cardinality({y \in hidden : y.user = x.user /\ y.created > x.created}) < Count
        PROVE  r \in feed'.marked
    <2>1. x \in own /\ x.id = r.id
      BY <1>3, <1>6 DEF HidMine, Hides
    <2>2. {y \in hidden : y.user = x.user /\ y.created > x.created} = {y \in own : y.created > x.created}
      BY <2>1
    <2>3. x \in Newest(own, Count)
      BY <1>6, <2>1, <2>2 DEF Newest
    <2> QED
      BY <1>5, <2>1, <2>3
  <1>7. ASSUME r \in feed'.marked
        PROVE  \E x \in hidden : x.user = feed.user /\ (Hides(x, r) \/ Namesake(x, r))
    <2>1. PICK x \in own : x.id = r.id
      BY <1>5, <1>7, NewestSubset
    <2>2. x.id \in Nat /\ x.kind \in EventKinds \cup {"pin"} /\ x \in hidden /\ x.user = feed.user
      BY <2>1 DEF TypeInv, TablesOK, HiddenOK
    <2>3. r.kind # "follow"
      BY <1>3, <1>4, <2>1, <2>2, NoneAssumption DEF FollowsNameless
    <2>4. CASE x.kind # "pin" /\ r.kind # "pin"
      <3>1. Spoken(x) /\ Spoken(r)
        BY <1>2, <1>4, <2>2, <2>3, <2>4 DEF Spoken
      <3>2. x.kind = r.kind
        BY <2>1, <3>1 DEF KindById
      <3> QED
        BY <2>1, <2>2, <3>2 DEF Hides
    <2>5. CASE ~ (x.kind # "pin" /\ r.kind # "pin")
      BY <2>1, <2>2, <2>5 DEF Hides, Namesake
    <2> QED
      BY <2>4, <2>5
  <1> QED
    BY <1>6, <1>7

LEMMA MarkInvCorrect == Spec => [](TypeInv /\ FeedInv /\ KindById)
  <1>1. Init => TypeInv /\ FeedInv /\ KindById
    BY TypeInit, FeedInit, KindByIdInit
  <1>2. TypeInv /\ FeedInv /\ KindById /\ [Next]_vars => (TypeInv /\ FeedInv /\ KindById)'
    BY TypeStep, FeedStep, KindByIdStep
  <1> QED
    BY <1>1, <1>2, PTL DEF Spec

\* The marks of a feed: what was hidden when it was asked for, and still is, is marked unless Count others
\* have been hidden since; and a mark stands for a hidden event with the row's id, which is the row unless
\* one of the two is a pin, since events of all kinds share their ids and none is given again.
THEOREM HiddenMarkedCorrect == Spec => HiddenMarked
  <1>1. TypeInv /\ FeedInv /\ KindById /\ [Next]_vars =>
           [Answers =>
              \A r \in feed'.rows :
                 /\ \A x \in feed.hid \cap hidden :
                   Hides(x, r) /\ Cardinality({y \in hidden : y.user = x.user /\ y.created > x.created}) < Count =>
                       r \in feed'.marked
                 /\ r \in feed'.marked =>
                       \E x \in hidden : x.user = feed.user /\ (Hides(x, r) \/ Namesake(x, r))]_vars
    BY AnswerMarks
  <1> QED
    BY <1>1, MarkInvCorrect, PTL DEF Spec, HiddenMarked
===============================================================================
