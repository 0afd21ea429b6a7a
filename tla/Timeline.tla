------------------------------- MODULE Timeline -------------------------------
(***************************************************************************)
(* Following, recommending, thanking, pinning, hiding: the requests that   *)
(* put events on the timelines of users, and the request that reads a      *)
(* feed.  A request is a transaction of which NOW() is the time of its     *)
(* first statement, which authorizes the user; what it checks and what it  *)
(* writes later are statements with snapshots of their own.  The kinds of  *)
(* a feed are read by threads with connections of their own.               *)
(*                                                                         *)
(* Clients name the kind of an event as it is.  Feeds start after the      *)
(* initial follows.  Reviews are left out: they are stored and read as     *)
(* recommendations are, but for the requests to CritiqueBrainz.            *)
(***************************************************************************)
EXTENDS Integers, FiniteSets

CONSTANTS
    Users,
    Handlers,       \* requests that may run at the same time
    Kinds,          \* of events that a feed consists of
    Lengths,        \* how long recordings are pinned
    Count,          \* of events that a feed is asked for
    MaxNow,         \* bound: requests
    MaxFailures,    \* bound: kinds that cannot be read
    None

ASSUME UsersAssumption == IsFiniteSet(Users)
ASSUME KindsAssumption ==
    Kinds \subseteq {"recommendation", "personal", "thanks", "notification", "pin", "follow"}
ASSUME CountAssumption == Count \in Nat /\ MaxNow \in Nat
ASSUME LengthsAssumption == Lengths \subseteq Nat \ {0}
ASSUME NoneAssumption == None \notin Nat

VARIABLES
    live,       \* users whose account exists
    follows,    \* user_relationship: [from, to, created]
    events,     \* user_timeline_event: [kind, id, user, to, created]
    pins,       \* pinned_recording: [id, user, created, until]
    hidden,     \* hide_user_timeline_event: [user, kind, id, created]
    last,       \* the last ids of events and pins
    now,        \* the time, which is the start of the latest request
    req,        \* req[h]: the request of a handler between two statements
    feed,       \* a feed that is being read or has been answered
    failures,
    twins,      \* history variable: users whose latest pin overlapped another request to pin
    crossed     \* history variable: pins created while another request of their user was on its way

tables == <<live, follows, events, pins, hidden, last>>
vars == <<tables, now, req, feed, failures, twins, crossed>>

Idle == [op |-> "idle"]
NoFeed == [at |-> "none"]

Init ==
    /\ live = Users
    /\ follows \in SUBSET {f \in [from : Users, to : Users, created : {0}] : f.from # f.to}
    /\ events = {} /\ pins = {} /\ hidden = {}
    /\ last = [event |-> 0, pin |-> 0]
    /\ now = 0
    /\ req = [h \in Handlers |-> Idle]
    /\ feed = NoFeed
    /\ failures = 0 /\ twins = {} /\ crossed = {}

Follows(u, v) == \E f \in follows : f.from = u /\ f.to = v

-------------------------------------------------------------------------------
(* Requests of one statement. *)

\* The user is authorized.
Request(u) == u \in live /\ now < MaxNow /\ now' = now + 1

others == <<req, feed, failures, twins, crossed>>

NewEvent(kind, u, R, start) ==
    /\ last' = [last EXCEPT !.event = @ + 1]
    /\ events' = events \cup {[kind |-> kind, id |-> last.event + 1, user |-> u, to |-> R, created |-> start]}

follow_user(u, v) ==
    /\ Request(u)
    /\ v \in live \ {u} /\ ~Follows(u, v)
    /\ follows' = follows \cup {[from |-> u, to |-> v, created |-> now']}
    /\ UNCHANGED <<live, events, pins, hidden, last, others>>

unfollow_user(u, v) ==
    /\ Request(u)
    /\ Follows(u, v)
    /\ follows' = {f \in follows : ~(f.from = u /\ f.to = v)}
    /\ UNCHANGED <<live, events, pins, hidden, last, others>>

create_user_recording_recommendation_event(u) ==
    /\ Request(u)
    /\ NewEvent("recommendation", u, {}, now')
    /\ UNCHANGED <<live, follows, pins, hidden, others>>

\* A bot posts a message: it is the user's own event.
create_user_notification_event(u) ==
    /\ Request(u)
    /\ NewEvent("notification", u, {}, now')
    /\ UNCHANGED <<live, follows, pins, hidden, others>>

delete_feed_events(u) ==
    /\ Request(u)
    /\ \E e \in events : e.user = u /\ e.kind # "thanks" /\ events' = events \ {e}
    /\ UNCHANGED <<live, follows, pins, hidden, last, others>>

delete_pin_for_user(u) ==
    /\ Request(u)
    /\ \E p \in pins : p.user = u /\ pins' = pins \ {p}
    /\ UNCHANGED <<live, follows, events, hidden, last, others>>

unhide_user_timeline_event(u) ==
    /\ Request(u)
    /\ \E x \in hidden : x.user = u /\ hidden' = hidden \ {x}
    /\ UNCHANGED <<live, follows, events, pins, last, others>>

\* The foreign keys delete the user's rows along.
delete_user(u) ==
    /\ Request(u)
    /\ live' = live \ {u}
    /\ follows' = {f \in follows : f.from # u /\ f.to # u}
    /\ events' = {e \in events : e.user # u}
    /\ pins' = {p \in pins : p.user # u}
    /\ hidden' = {x \in hidden : x.user # u}
    /\ UNCHANGED <<last, others>>

-------------------------------------------------------------------------------
(* Requests that check first and insert then. *)

Begin(h, u, r) ==
    /\ req[h] = Idle
    /\ Request(u)
    /\ req' = [req EXCEPT ![h] = [r EXCEPT !.start = now']]
    /\ UNCHANGED <<tables, feed, failures, twins, crossed>>

Doing(h, op) == req[h].op = op
Done(h) == req' = [req EXCEPT ![h] = Idle]

\* The rows that a client can name: events and pins, whose ids are counted separately.
Rows == events \cup {[kind |-> "pin", id |-> p.id, user |-> p.user, to |-> {}, created |-> p.created] : p \in pins}

MayHide(u, row) == IF row.kind = "notification" THEN row.user = u ELSE Follows(u, row.user)

hide_user_timeline_event(h, u) ==
    \E row \in Rows :
        /\ MayHide(u, row)
        /\ Begin(h, u, [op |-> "hide", user |-> u, row |-> row, start |-> 0])

\* ON CONFLICT DO NOTHING; an account that is gone violates the foreign key.
Hide(h) ==
    /\ Doing(h, "hide")
    /\ LET u == req[h].user
           x == [user |-> u, kind |-> req[h].row.kind, id |-> req[h].row.id, created |-> req[h].start]
       IN  IF u \in live /\ ~\E y \in hidden : y.user = u /\ y.kind = x.kind /\ y.id = x.id
           THEN hidden' = hidden \cup {x}
           ELSE UNCHANGED hidden
    /\ Done(h)
    /\ UNCHANGED <<live, follows, events, pins, last, now, feed, failures, twins, crossed>>

create_thanks_event(h, u) ==
    \E row \in Rows :
        /\ row.kind \in {"recommendation", "personal", "pin"} /\ Follows(u, row.user)
        /\ Begin(h, u, [op |-> "thanks", user |-> u, to |-> {row.user}, start |-> 0])

create_personal_recommendation_event(h, u) ==
    \E R \in SUBSET {v \in live : Follows(v, u)} :
        /\ R # {}
        /\ Begin(h, u, [op |-> "personal", user |-> u, to |-> R, start |-> 0])

\* The names of recipients are looked up when the event is inserted: without any, its list of users is
\* null.
Insert(h) ==
    /\ req[h].op \in {"thanks", "personal"}
    /\ LET u == req[h].user
           R == IF Doing(h, "personal") THEN req[h].to \cap live ELSE req[h].to
       IN  IF u \in live THEN NewEvent(req[h].op, u, R, req[h].start) ELSE UNCHANGED <<events, last>>
    /\ Done(h)
    /\ UNCHANGED <<live, follows, pins, hidden, now, feed, failures, twins, crossed>>

-------------------------------------------------------------------------------
(* Pins. *)

Active == {p \in pins : p.until > now}

pin_recording_for_user(h, u) ==
    \E len \in Lengths :
        Begin(h, u, [op |-> "pin", user |-> u, len |-> len, found |-> None, stale |-> FALSE, start |-> 0])

unpin_recording_for_user(h, u) ==
    Begin(h, u, [op |-> "unpin", user |-> u, found |-> None, stale |-> FALSE, start |-> 0])

Pinning(h) == req[h].op \in {"pin", "unpin"}

\* The snapshot of the UPDATE: pinned_until >= NOW().
FindPins(h) ==
    /\ Pinning(h) /\ req[h].found = None
    /\ req' = [req EXCEPT ![h].found = {p.id : p \in {q \in pins : q.user = req[h].user /\ q.until >= req[h].start}}]
    /\ UNCHANGED <<tables, now, feed, failures, twins, crossed>>

\* A variant that ends the newest of the pins only.
Unpinned_NewestOnly(h) ==
    {IF p.id \in req[h].found /\ \A i \in req[h].found : i <= p.id
     THEN [p EXCEPT !.until = req[h].start] ELSE p : p \in pins}

\* The rows found are looked at again once no other transaction has them locked.
Unpinned(h) ==
    {IF p.id \in req[h].found /\ p.until >= req[h].start THEN [p EXCEPT !.until = req[h].start] ELSE p : p \in pins}

Rivals(h) == {g \in Handlers \ {h} : Pinning(g) /\ req[g].user = req[h].user}

\* A variant with the INSERT before the UPDATE.
pin_InsertFirst(h) ==
    /\ Doing(h, "pin") /\ req[h].found # None
    /\ pins' = Unpinned(h) \cup
          {[id |-> last.pin + 1, user |-> req[h].user, created |-> req[h].start, until |-> req[h].start]}
    /\ last' = [last EXCEPT !.pin = @ + 1]
    /\ Done(h)
    /\ UNCHANGED <<live, follows, events, hidden, now, feed, failures, twins, crossed>>

\* UPDATE, INSERT and commit.
pin(h) ==
    /\ Doing(h, "pin") /\ req[h].found # None
    /\ req[h].user \in live
    /\ pins' = Unpinned(h) \cup
          {[id |-> last.pin + 1, user |-> req[h].user, created |-> req[h].start, until |-> req[h].start + req[h].len]}
    /\ last' = [last EXCEPT !.pin = @ + 1]
    /\ req' = [g \in Handlers |->
                  IF g = h THEN Idle
                  ELSE IF g \in Rivals(h) /\ req[g].found # None THEN [req[g] EXCEPT !.stale = TRUE]
                  ELSE req[g]]
    /\ twins' = IF req[h].stale THEN twins \cup {req[h].user} ELSE twins \ {req[h].user}
    /\ crossed' = IF Rivals(h) = {} THEN crossed ELSE crossed \cup {last.pin + 1}
    /\ UNCHANGED <<live, follows, events, hidden, now, feed, failures>>

unpin(h) ==
    /\ Doing(h, "unpin") /\ req[h].found # None
    /\ pins' = Unpinned(h)
    /\ twins' = IF req[h].stale THEN twins ELSE twins \ {req[h].user}
    /\ Done(h)
    /\ UNCHANGED <<live, follows, events, hidden, last, now, feed, failures, crossed>>

\* The account is gone: the insertion fails and the update is rolled back.
PinFails(h) ==
    /\ Doing(h, "pin") /\ req[h].found # None
    /\ req[h].user \notin live
    /\ Done(h)
    /\ UNCHANGED <<tables, now, feed, failures, twins, crossed>>

-------------------------------------------------------------------------------
(* The feed. *)

\* A variant with ORDER BY created ASC.
Newest_Oldest(S, n) == {x \in S : Cardinality({y \in S : y.created < x.created}) < n}

Newest(S, n) == {x \in S : Cardinality({y \in S : y.created > x.created}) < n}

user_feed(u) ==
    /\ feed.at # "reading"
    /\ Request(u)
    /\ \E max \in 1..now' :
          feed' = [at |-> "reading", user |-> u, max |-> max, todo |-> Kinds, rows |-> {}, cut |-> {},
                   users |-> {u} \cup {v \in Users : Follows(u, v)},
                   failed |-> {}, marked |-> {},
                   there |-> Rows, hid |-> {x \in hidden : x.user = u}]
    /\ UNCHANGED <<tables, req, failures, twins, crossed>>

InWindow(row) == 0 < row.created /\ row.created < feed.max

OfKind(kind) == {e \in events : e.kind = kind /\ InWindow(e)}

\* The rows that the query of a kind selects.  The recipients of a personal recommendation see it
\* whatever its time: OR binds less than AND.
Selected(kind) ==
    CASE kind = "follow" ->
           {[kind |-> "follow", id |-> None, user |-> f.from, to |-> {f.to}, created |-> f.created] :
                f \in {g \in follows : g.from \in feed.users /\ InWindow(g)}}
      [] kind = "recommendation" -> {e \in OfKind(kind) : e.user \in feed.users}
      [] kind = "notification" -> {e \in OfKind(kind) : e.user = feed.user}
      [] kind = "thanks" -> {e \in OfKind(kind) : e.user = feed.user \/ feed.user \in e.to}
      [] kind = "personal" ->
           {e \in events : e.kind = "personal" /\ (feed.user \in e.to \/ (e.user = feed.user /\ InWindow(e)))}
      [] kind = "pin" -> {r \in Rows : r.kind = "pin" /\ r.user \in feed.users /\ InWindow(r)}

\* A list of users that is null cannot be expanded; a pin that ends before it is created is not valid.
Unreadable(row) ==
    \/ row.kind = "personal" /\ row.to = {}
    \/ row.kind = "pin" /\ \E p \in pins : p.id = row.id /\ p.until <= p.created

\* One thread of get_feed_events_for_user: an error leaves its kind out.
ReadKind(kind) ==
    LET page == Newest(Selected(kind), Count) IN
    /\ feed.at = "reading" /\ kind \in feed.todo
    /\ \/ /\ \A r \in page : ~Unreadable(r)
          /\ feed' = [feed EXCEPT !.todo = @ \ {kind}, !.rows = @ \cup page,
                                  !.cut = @ \cup (Selected(kind) \ page)]
          /\ UNCHANGED failures
       \/ /\ feed' = [feed EXCEPT !.todo = @ \ {kind}, !.failed = @ \cup {kind}]
          /\ IF \E r \in page : Unreadable(r) THEN UNCHANGED failures
             ELSE failures < MaxFailures /\ failures' = failures + 1
    /\ UNCHANGED <<tables, now, req, twins, crossed>>

\* A variant without WHERE user_id.
get_hidden_timeline_event_ids_OfAnyone == {x.id : x \in Newest(hidden, Count)}

get_hidden_timeline_event_ids == {x.id : x \in Newest({y \in hidden : y.user = feed.user}, Count)}

\* Hidden events are told by their ids, and the page is cut to its length.
get_feed_events_for_user ==
    /\ feed.at = "reading" /\ feed.todo = {}
    /\ LET page == Newest(feed.rows, Count) IN
       feed' = [feed EXCEPT !.at = "answered", !.rows = page, !.cut = @ \cup (feed.rows \ page),
                            !.marked = {r \in page : r.id \in get_hidden_timeline_event_ids}]
    /\ UNCHANGED <<tables, now, req, failures, twins, crossed>>

-------------------------------------------------------------------------------

Next ==
    \/ \E u \in Users :
          \/ \E v \in Users : follow_user(u, v) \/ unfollow_user(u, v)
          \/ create_user_recording_recommendation_event(u)
          \/ create_user_notification_event(u)
          \/ delete_feed_events(u)
          \/ delete_pin_for_user(u)
          \/ unhide_user_timeline_event(u)
          \/ delete_user(u)
          \/ user_feed(u)
    \/ \E h \in Handlers :
          \/ \E u \in Users :
                \/ hide_user_timeline_event(h, u)
                \/ create_thanks_event(h, u)
                \/ create_personal_recommendation_event(h, u)
                \/ pin_recording_for_user(h, u)
                \/ unpin_recording_for_user(h, u)
          \/ Hide(h)
          \/ Insert(h)
          \/ FindPins(h)
          \/ pin(h)
          \/ unpin(h)
          \/ PinFails(h)
    \/ \E kind \in Kinds : ReadKind(kind)
    \/ get_feed_events_for_user

Spec == Init /\ [][Next]_vars

-------------------------------------------------------------------------------
(* Properties. *)

EventKinds == {"recommendation", "notification", "personal", "thanks"}

EventRow == [kind : EventKinds, id : Nat, user : live, to : SUBSET Users, created : Nat]

\* Rows belong to users that are there, ids are not used twice, and a handler deals with one request.
TypeOK ==
    /\ live \subseteq Users
    /\ follows \in SUBSET [from : live, to : live, created : 0..now]
    /\ events \in SUBSET EventRow /\ \A e \in events : e.id <= last.event
    /\ pins \in SUBSET [id : 1..last.pin, user : live, created : 1..now, until : Nat]
    /\ \A p, q \in pins : p.id = q.id => p = q
    /\ hidden \in SUBSET [user : live, kind : EventKinds \cup {"pin"}, id : Nat, created : 1..now]
    /\ \A h \in Handlers : req[h] = Idle \/ req[h].start \in 1..now

\* "If the user already has an active pinned recording, it will be unpinned before the new one is
\* pinned": a user has one active pin at most, unless another pin was committed after the UPDATE that
\* came with the latest one had looked.
OnePin == \A u \in Users \ twins : Cardinality({p \in Active : p.user = u}) <= 1

\* Every pin ends after it was created, as its model demands of each pin that is read, unless it was
\* created while another request of the user to pin or unpin was on its way.
PinsReadable == \A p \in pins : p.id \notin crossed => p.until > p.created

Mine(row) ==
    CASE row.kind \in {"recommendation", "pin", "follow"} -> row.user \in feed.users
      [] row.kind = "notification" -> row.user = feed.user
      [] row.kind \in {"thanks", "personal"} -> row.user = feed.user \/ feed.user \in row.to

Answers == feed.at = "reading" /\ feed'.at = "answered"

\* A feed holds what is the user's own, what those wrote whom the user followed when the request began,
\* and what is addressed to the user: all of it that was there all the time, but for kinds that could
\* not be read and for older events than the page has room for.
FeedExact ==
    [][Answers =>
          /\ \A r \in feed'.rows : Mine(r)
          /\ \A r \in feed.there \cap Rows :
                Mine(r) /\ InWindow(r) /\ r.kind \in Kinds \ feed.failed =>
                    r \in feed'.rows \cup feed'.cut
          /\ \A r \in feed'.rows, c \in feed'.cut : c.created < r.created]_vars

Hides(x, r) == x.kind = r.kind /\ x.id = r.id

\* The id of a pin may be that of an event, too.
Namesake(x, r) == x.id = r.id /\ (x.kind = "pin") # (r.kind = "pin")

\* An event that was hidden when the feed was asked for, and still is, is marked as hidden, unless the
\* user has hidden Count others since.  What is marked was hidden, or has the id of what was hidden in
\* the other table.
HiddenMarked ==
    [][Answers =>
          \A r \in feed'.rows :
             /\ \A x \in feed.hid \cap hidden :
                   Hides(x, r) /\ Cardinality({y \in hidden : y.user = x.user /\ y.created > x.created}) < Count =>
                       r \in feed'.marked
             /\ r \in feed'.marked =>
                   \E x \in hidden : x.user = feed.user /\ (Hides(x, r) \/ Namesake(x, r))]_vars

\* Without exceptions: one active pin.
AlwaysOnePin == \A u \in Users : Cardinality({p \in Active : p.user = u}) <= 1

\* "also must validate that pinned_until datetime greater than created"
AllPinsReadable == \A p \in pins : p.until > p.created

\* Only hidden events are marked.
OnlyHiddenMarked ==
    [][Answers => \A r \in feed'.marked : \E x \in hidden : x.user = feed.user /\ Hides(x, r)]_vars

\* Hidden events are marked however many there are.
AllHiddenMarked ==
    [][Answers => \A r \in feed'.rows : (\E x \in feed.hid \cap hidden : Hides(x, r)) => r \in feed'.marked]_vars

\* "If you specify a max_ts timestamp, events with timestamps less than the value will be returned."
PagesWithinWindow == [][Answers => \A r \in feed'.rows : InWindow(r)]_vars

===============================================================================
