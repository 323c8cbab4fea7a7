----------------------- MODULE BidiMessagingProtocol -----------------------
(***************************************************************************)
(* The message handlers of the BGS server: BidiMessagingProtocolImpl       *)
(* .process, with the state it reads and writes, the two user maps of      *)
(* ConnectionsImpl and the fields of the User objects.                     *)
(*                                                                         *)
(* One protocol object serves one connection, one message at a time;       *)
(* messages of different connections are handled concurrently, by at most  *)
(* NThreads threads, and no handler takes a lock.  Every handler therefore *)
(* is a scan, which reads the maps and decides, followed by the steps that *)
(* act on what the scan found; between two steps of one handler the other  *)
(* handlers may run.                                                       *)
(***************************************************************************)
EXTENDS Integers, Sequences, FiniteSetsExt

CONSTANTS
  Conn,       \* connection ids, handed out by the accepting thread
  Name,       \* the name-like strings clients type: usernames and parts of them
  Contains,   \* pairs <<a, b>> such that a.contains(b)
  FirstOf,    \* the name a map iteration meets first, for each set of keys
  LastOf,     \* ... and the one it meets last
  NoUser,     \* the null reference
  NoConn,     \* -1, the connId of a user that never logged in
  Ops,        \* the kinds of requests the clients send
  Texts,      \* the sets of name-like words a FOLLOW, UNFOLLOW, PM or BLOCK may hold
  Tags,       \* what follows each @ in the text of a POST, one after the other
  NThreads,   \* threads that run handlers
  MaxSerial,    \* bound: User objects put under one name; none is put beyond NThreads
  MaxPosts,     \* bound: POST requests accepted
  MaxShort      \* Short.MAX_VALUE

(***************************************************************************)
(* User objects are compared by identity.  One is identified by the name   *)
(* given to its constructor and by its position among the objects put into *)
(* UsersMap under that name.                                               *)
(***************************************************************************)
User == [username : Name, serial : 1..MaxSerial]

AllOps == {"REGISTER", "LOGIN", "LOGOUT", "FOLLOW", "UNFOLLOW", "POST", "PM",
           "LOGSTAT", "STAT", "BLOCK"}

ASSUME ConnAssumption == IsFiniteSet(Conn) /\ NoConn \notin Conn

ASSUME NameAssumption ==
  /\ Contains \subseteq Name \X Name
  /\ \A n \in Name : <<n, n>> \in Contains

ASSUME OrderAssumption ==
  \A S \in SUBSET Name : S # {} => FirstOf[S] \in S /\ LastOf[S] \in S

ASSUME ParameterAssumption ==
  /\ NoUser \notin User
  /\ Ops \subseteq AllOps
  /\ Texts \subseteq SUBSET Name
  /\ Tags \subseteq Seq(Name)
  /\ NThreads \in Nat \ {0}
  /\ MaxSerial \in Nat /\ MaxSerial >= NThreads
  /\ MaxPosts \in Nat
  /\ MaxShort \in Nat

VARIABLES
  \* ConnectionsImpl
  usersMap,        \* UsersMap: how many User objects were put under each name
  activeUsersMap,  \* ActiveUsersMap: key typed at LOGIN -> User, NoUser if absent
  \* User
  isActivated,
  connId,
  followers,       \* the queue "followers": the users this user follows, as a bag
  following,       \* the counter LOGSTAT publishes
  blockingUsers,
  awaitingPosts,   \* the authors of the posts kept for the user, oldest first
  \* handlers
  handler,         \* per connection: the local variables of the running handler
  frames,          \* what the last step passed to Connections.send
  posts,           \* POST requests accepted so far; bounded by MaxPosts
  \* history variables: no action reads them
  wrapped,         \* users whose counter "following" went past the range of a Short
  stale,           \* handler steps taken after what was found before had become false
  session,         \* users each connection was told it is logged in as
  pushed           \* posts of awaitingPosts sent in the user's latest session

maps    == <<usersMap, activeUsersMap>>
status  == <<isActivated, connId>>
counter == <<following, wrapped>>
graph   == <<followers, counter, blockingUsers>>
mail    == <<awaitingPosts, posts>>
history == <<stale, session, pushed>>
shared  == <<maps, status, graph, mail, history>>
vars    == <<shared, handler, frames>>

-----------------------------------------------------------------------------
(* Reading the maps *)

Has(a, b) == <<a, b>> \in Contains

Registered == {n \in Name : usersMap[n] > 0}

\* UsersMap.get(n), for a registered n
UserOf(n) == [username |-> n, serial |-> usersMap[n]]

\* registered users whose name contains the typed text (REGISTER, LOGIN, @tags)
Matching(text) == {n \in Registered : Has(n, text)}

\* registered users whose name occurs in the message (FOLLOW, PM, BLOCK)
Named(words) == {n \in Registered : \E w \in words : Has(w, n)}

Active == {k \in Name : activeUsersMap[k] # NoUser}

Mine(c) == {k \in Active : connId[activeUsersMap[k]] = c}

\* the user a handler takes for the sender of the message
Me(c) == IF Mine(c) = {} THEN NoUser ELSE activeUsersMap[FirstOf[Mine(c)]]

\* PM and LOGSTAT leave the loop on a match but do not record that there was one
MeOrLast(c) ==
  IF Mine(c) = {} /\ Active # {} THEN activeUsersMap[LastOf[Active]] ELSE Me(c)

-----------------------------------------------------------------------------
(* Handlers: their local variables, and what they send *)

Idle == [step |-> "idle"]

Steps == {"idle", "register", "activate", "setConn", "ackLogin", "drain", "sendKept",
          "deactivate", "follow", "unfollow", "count", "visit", "deliver", "sendPost",
          "pm", "sendPm", "block", "drop"}

\* a connId as getConnId returns it
ConnId == Conn \cup {NoConn}

\* following++ and following--: the int result is cast to short
Short(i) == ((i + MaxShort + 1) % (2 * MaxShort + 2)) - (MaxShort + 1)

ShortRange == -(MaxShort + 1) .. MaxShort

\* what a POST has still to do: the names whose users are looked at, and the queue
\* otherUsers, as a bag.  For the properties only: free, the users that were in the
\* queue and did not follow the author when it was filled, and due, how often each
\* user may still be addressed
Post == [left : SUBSET Name, tagged : [User -> Nat], free : SUBSET User, due : [User -> Nat]]

Handler ==
       {Idle}
  \cup [step : {"register"}, name : Name]
  \cup [step : {"activate"}, user : User, name : Name]
  \cup [step : {"setConn", "ackLogin", "deactivate"}, user : User]
  \cup [step : {"drain"}, user : User, next : Nat]
  \cup [step : {"sendKept"}, user : User, next : Nat, more : BOOLEAN, to : ConnId]
  \cup [step : {"follow", "unfollow", "pm", "block", "drop"}, user : User, other : User]
  \cup [step : {"sendPm"}, user : User, other : User, to : ConnId]
  \cup [step : {"count"}, user : User, read : ShortRange, by : {1, -1}]
  \cup [step : {"visit"}, user : User, post : Post]
  \cup [step : {"deliver"}, user : User, post : Post, other : User, online : BOOLEAN]
  \cup [step : {"sendPost"}, user : User, post : Post, other : User, online : BOOLEAN,
        to : ConnId]

Frame == [to : ConnId, kind : {"ACK", "ERROR", "NOTIFICATION"}, op : AllOps,
          from : User \cup {NoUser}, about : User \cup {NoUser}]

Reply(c, kind, op) ==
  [to |-> c, kind |-> kind, op |-> op, from |-> NoUser, about |-> NoUser]

\* connections.send(to, "09..."), where to was u's connId; NoConn has no handler: dropped
Notify(to, u, op, author) ==
  [to |-> to, kind |-> "NOTIFICATION", op |-> op, from |-> author, about |-> u]

Continue(c, h) == handler' = [handler EXCEPT ![c] = h] /\ frames' = {}

Finish(c, sent) == handler' = [handler EXCEPT ![c] = Idle] /\ frames' = sent

\* a thread of the server takes the next message of c
Ready(c, op) ==
  /\ op \in Ops
  /\ handler[c] = Idle
  /\ Cardinality({d \in Conn : handler[d] # Idle}) < NThreads

At(c, step) == handler[c].step = step

-----------------------------------------------------------------------------
(* What the scan of each handler found, evaluated now *)

LoggingIn(u) ==
  {d \in Conn :
     handler[d].step \in {"setConn", "ackLogin", "drain", "sendKept"} /\ handler[d].user = u}

Follows(u, v) == followers[u][v] > 0

CanFollow(u, v) == ~Follows(u, v) /\ u \notin blockingUsers[v]

CanMessage(u, v) == Follows(u, v) /\ u \notin blockingUsers[v]

\* mutant: what is not in the queue is removed all the same
DroppedUnchecked(f, u, v) == [f EXCEPT ![u][v] = @ - 1]

\* u.getFollowers().remove(v): one occurrence, if there is one
Dropped(f, u, v) == [f EXCEPT ![u][v] = IF @ > 0 THEN @ - 1 ELSE 0]

CheckHolds(c) ==
  LET h == handler[c] IN
    CASE h.step = "register"   -> Matching(h.name) = {}
      [] h.step = "activate"   -> ~isActivated[h.user] /\ LoggingIn(h.user) = {}
      [] h.step = "deactivate" -> connId[h.user] = c /\ LoggingIn(h.user) = {}
      [] h.step = "follow"     -> CanFollow(h.user, h.other)
      [] h.step = "unfollow"   -> Follows(h.user, h.other)
      [] h.step = "count"      -> following[h.user] = h.read
      [] h.step = "visit"      ->
           \A u \in h.post.free : h.post.tagged[u] > 0 => ~Follows(u, h.user)
      [] h.step = "deliver"    -> isActivated[h.other] = h.online
      [] h.step = "sendPost"   -> isActivated[h.other] = h.online /\ connId[h.other] = h.to
      [] h.step = "pm"         -> CanMessage(h.user, h.other)
      [] h.step = "sendPm"     -> connId[h.other] = h.to
      [] h.step = "block"      -> h.other \notin blockingUsers[h.user]
      [] OTHER -> TRUE

NoteStale(c, u, v) ==
  stale' = IF CheckHolds(c) THEN stale ELSE stale \cup {<<handler[c].step, u, v>>}

-----------------------------------------------------------------------------
(* REGISTER *)

\* mutant: the name is not looked up
RegisterScanUnchecked(c, n) ==
  /\ Ready(c, "REGISTER")
  /\ Continue(c, [step |-> "register", name |-> n])
  /\ UNCHANGED shared

RegisterScan(c, n) ==
  /\ Ready(c, "REGISTER")
  /\ \/ /\ Matching(n) = {}
        /\ Continue(c, [step |-> "register", name |-> n])
     \/ /\ Matching(n) # {}
        /\ Finish(c, {Reply(c, "ERROR", "REGISTER")})
  /\ UNCHANGED shared

RegisterPut(c) ==
  /\ At(c, "register")
  /\ LET n == handler[c].name
         u == [username |-> n, serial |-> usersMap[n] + 1]
     IN  /\ usersMap' = [usersMap EXCEPT ![n] = @ + 1]
         /\ NoteStale(c, u, u)
  /\ Finish(c, {Reply(c, "ACK", "REGISTER")})
  /\ UNCHANGED <<activeUsersMap, status, graph, mail, session, pushed>>

-----------------------------------------------------------------------------
(* LOGIN; valid: the password equals the found user's and the captcha is "1" *)

\* mutant: an activated user may log in again
LoginScanTwice(c, n, valid) ==
  /\ Ready(c, "LOGIN")
  /\ LET u == UserOf(FirstOf[Matching(n)])
         ok == Matching(n) # {} /\ valid
     IN  \/ ok /\ Continue(c, [step |-> "activate", user |-> u, name |-> n])
         \/ ~ok /\ Finish(c, {Reply(c, "ERROR", "LOGIN")})
  /\ UNCHANGED shared

LoginScan(c, n, valid) ==
  /\ Ready(c, "LOGIN")
  /\ LET u == UserOf(FirstOf[Matching(n)])
         ok == Matching(n) # {} /\ valid /\ ~isActivated[u]
     IN  \/ ok /\ Continue(c, [step |-> "activate", user |-> u, name |-> n])
         \/ ~ok /\ Finish(c, {Reply(c, "ERROR", "LOGIN")})
  /\ UNCHANGED shared

LoginActivate(c) ==
  /\ At(c, "activate")
  /\ LET u == handler[c].user
     IN  /\ activeUsersMap' = [activeUsersMap EXCEPT ![handler[c].name] = u]
         /\ isActivated' = [isActivated EXCEPT ![u] = TRUE]
         /\ pushed' = [pushed EXCEPT ![u] = 0]
         /\ NoteStale(c, u, u)
         /\ Continue(c, [step |-> "setConn", user |-> u])
  /\ UNCHANGED <<usersMap, connId, graph, mail, session>>

\* mutant: only the first connection of a user is stored
LoginSetConnOnce(c) ==
  /\ At(c, "setConn")
  /\ connId' = [connId EXCEPT ![handler[c].user] = IF @ = NoConn THEN c ELSE @]
  /\ Continue(c, [step |-> "ackLogin", user |-> handler[c].user])
  /\ UNCHANGED <<maps, isActivated, graph, mail, history>>

LoginSetConn(c) ==
  /\ At(c, "setConn")
  /\ connId' = [connId EXCEPT ![handler[c].user] = c]
  /\ Continue(c, [step |-> "ackLogin", user |-> handler[c].user])
  /\ UNCHANGED <<maps, isActivated, graph, mail, history>>

\* mutant: posts kept for the user are not sent
LoginAckOnly(c) ==
  /\ At(c, "ackLogin")
  /\ session' = [session EXCEPT ![c] = @ \cup {handler[c].user}]
  /\ Finish(c, {Reply(c, "ACK", "LOGIN")})
  /\ UNCHANGED <<maps, status, graph, mail, stale, pushed>>

LoginAck(c) ==
  /\ At(c, "ackLogin")
  /\ LET u == handler[c].user
     IN  /\ handler' = [handler EXCEPT ![c] =
                          IF awaitingPosts[u] = <<>> THEN Idle
                          ELSE [step |-> "drain", user |-> u, next |-> 1]]
         /\ session' = [session EXCEPT ![c] = @ \cup {u}]
  /\ frames' = {Reply(c, "ACK", "LOGIN")}
  /\ UNCHANGED <<maps, status, graph, mail, stale, pushed>>

\* The loop only reads awaitingPosts: nothing is ever taken out of the queue.  Its
\* iterator finds out whether there is another post before the body is run.
LoginDrain(c) ==
  /\ At(c, "drain")
  /\ LET u == handler[c].user
         i == handler[c].next
     IN  Continue(c, [step |-> "sendKept", user |-> u, next |-> i,
                      more |-> i < Len(awaitingPosts[u]), to |-> connId[u]])
  /\ UNCHANGED shared

LoginSend(c) ==
  /\ At(c, "sendKept")
  /\ LET h == handler[c]
     IN  /\ handler' = [handler EXCEPT ![c] =
                          IF h.more
                          THEN [step |-> "drain", user |-> h.user, next |-> h.next + 1] ELSE Idle]
         /\ frames' = {Notify(h.to, h.user, "POST", awaitingPosts[h.user][h.next])}
         /\ pushed' = [pushed EXCEPT ![h.user] = h.next]
  /\ UNCHANGED <<maps, status, graph, mail, stale, session>>

-----------------------------------------------------------------------------
(* LOGOUT *)

LogoutScan(c) ==
  /\ Ready(c, "LOGOUT")
  /\ \/ Me(c) # NoUser /\ Continue(c, [step |-> "deactivate", user |-> Me(c)])
     \/ Me(c) = NoUser /\ Finish(c, {Reply(c, "ERROR", "LOGOUT")})
  /\ UNCHANGED shared

\* mutant: every entry of the connection is removed
LogoutDeactivateAll(c) ==
  /\ At(c, "deactivate")
  /\ LET u == handler[c].user
     IN  /\ isActivated' = [isActivated EXCEPT ![u] = FALSE]
         /\ activeUsersMap' = [k \in Name |-> IF k \in Mine(c) THEN NoUser ELSE activeUsersMap[k]]
         /\ session' = [session EXCEPT ![c] = @ \ {u}]
         /\ NoteStale(c, u, u)
  /\ Finish(c, {Reply(c, "ACK", "LOGOUT")})
  /\ UNCHANGED <<usersMap, connId, graph, mail, pushed>>

\* getActiveUsersMap().remove(myUser) is given a User where the keys are Strings:
\* no entry is removed, and the user keeps its connId.
LogoutDeactivate(c) ==
  /\ At(c, "deactivate")
  /\ LET u == handler[c].user
     IN  /\ isActivated' = [isActivated EXCEPT ![u] = FALSE]
         /\ NoteStale(c, u, u)
  /\ session' = [session EXCEPT ![c] = @ \ {handler[c].user}]
  /\ Finish(c, {Reply(c, "ACK", "LOGOUT")})
  /\ UNCHANGED <<maps, connId, graph, mail, pushed>>

-----------------------------------------------------------------------------
(* FOLLOW and UNFOLLOW; words: the name-like strings the message contains *)

FollowRequest(c, words, step, op) ==
  /\ Ready(c, op)
  /\ LET me == Me(c)
         found == Named(words) # {}
         other == UserOf(FirstOf[Named(words)])
         heard == me # NoUser /\ isActivated[me]
         allowed == IF step = "follow" THEN CanFollow(me, other) ELSE Follows(me, other)
     IN  \/ /\ found /\ heard /\ allowed
            /\ Continue(c, [step |-> step, user |-> me, other |-> other])
         \/ /\ found /\ heard /\ ~allowed
            /\ Finish(c, {Reply(c, "ERROR", op)})
         \/ /\ found /\ ~heard
            /\ Finish(c, {})                        \* no answer is sent
         \/ /\ ~found
            /\ Finish(c, {Reply(c, "ERROR", op)})
  /\ UNCHANGED shared

FollowScan(c, words) == FollowRequest(c, words, "follow", "FOLLOW")

UnfollowScan(c, words) == FollowRequest(c, words, "unfollow", "UNFOLLOW")

\* addFollower and removeFollower act on a queue, whatever it holds by now
FollowAdd(c) ==
  /\ At(c, "follow")
  /\ LET u == handler[c].user
         v == handler[c].other
     IN  /\ followers' = [followers EXCEPT ![u][v] = @ + 1]
         /\ NoteStale(c, u, v)
         /\ Continue(c, [step |-> "count", user |-> u, read |-> following[u], by |-> 1])
  /\ UNCHANGED <<maps, status, counter, blockingUsers, mail, session, pushed>>

UnfollowRemove(c) ==
  /\ At(c, "unfollow")
  /\ LET u == handler[c].user
         v == handler[c].other
     IN  /\ followers' = Dropped(followers, u, v)
         /\ NoteStale(c, u, v)
         /\ Continue(c, [step |-> "count", user |-> u, read |-> following[u], by |-> -1])
  /\ UNCHANGED <<maps, status, counter, blockingUsers, mail, session, pushed>>

\* following++ and following-- read the boxed Short, then store a new one
FollowCount(c) ==
  /\ At(c, "count")
  /\ LET u == handler[c].user
         sum == handler[c].read + handler[c].by
     IN  /\ following' = [following EXCEPT ![u] = Short(sum)]
         /\ wrapped' = IF sum \in ShortRange THEN wrapped ELSE wrapped \cup {u}
         /\ NoteStale(c, u, u)
  /\ Finish(c, {Reply(c, "ACK", IF handler[c].by = 1 THEN "FOLLOW" ELSE "UNFOLLOW")})
  /\ UNCHANGED <<maps, status, followers, blockingUsers, mail, session, pushed>>

-----------------------------------------------------------------------------
(* POST *)

\* otherUsers as the text fills it: a user once for each tag its name contains
Tagged(tags) ==
  [u \in User |-> Cardinality({i \in DOMAIN tags : \E n \in Matching(tags[i]) : u = UserOf(n)})]

\* mutant: tagged users who follow the author are not left out
PostScanUnfiltered(c, tags) ==
  /\ Ready(c, "POST")
  /\ posts < MaxPosts
  /\ LET free == {u \in User : Tagged(tags)[u] > 0 /\ ~Follows(u, Me(c))}
     IN  /\ Me(c) # NoUser
         /\ Continue(c, [step |-> "visit", user |-> Me(c),
                         post |-> [left |-> Registered, tagged |-> Tagged(tags), free |-> free,
                                   due |-> [u \in User |-> IF u \in free THEN Tagged(tags)[u]
                                                           ELSE 1]]])
  /\ posts' = posts + 1
  /\ UNCHANGED <<maps, status, graph, awaitingPosts, history>>

\* The tagged users, without those the loop over the followers will reach: of one
\* that follows, every entry is removed.
PostScan(c, tags) ==
  /\ Ready(c, "POST")
  /\ posts < MaxPosts
  /\ LET me == Me(c)
         free == {u \in User : Tagged(tags)[u] > 0 /\ ~Follows(u, me)}
     IN  \/ /\ me = NoUser
            /\ Finish(c, {Reply(c, "ERROR", "POST")})
         \/ /\ me # NoUser
            /\ Continue(c, [step |-> "visit", user |-> me,
                            post |-> [left |-> Registered, free |-> free,
                              tagged |-> [u \in User |-> IF u \in free THEN Tagged(tags)[u] ELSE 0],
                              due |-> [u \in User |-> IF u \in free THEN Tagged(tags)[u] ELSE 1]]])
  /\ posts' = posts + 1
  /\ UNCHANGED <<maps, status, graph, awaitingPosts, history>>

\* getIsActivated of one addressee, with what remains to be done after it
Deliver(c, u, post) ==
  Continue(c, [step |-> "deliver", user |-> handler[c].user, post |-> post,
               other |-> u, online |-> isActivated[u]])

\* one turn of the loop over all users, then of the loop over the tagged ones
PostVisit(c) ==
  /\ At(c, "visit")
  /\ LET h == handler[c]
         u == UserOf(FirstOf[h.post.left])
         rest == [h.post EXCEPT !.left = @ \ {FirstOf[h.post.left]}]
         waiting == {v \in User : h.post.tagged[v] > 0}
     IN  /\ NoteStale(c, h.user, h.user)
         /\ \/ /\ h.post.left # {} /\ Follows(u, h.user)
               /\ Deliver(c, u, rest)
            \/ /\ h.post.left # {} /\ ~Follows(u, h.user)
               /\ Continue(c, [h EXCEPT !.post = rest])
            \/ /\ h.post.left = {}
               /\ \E v \in waiting : Deliver(c, v, [h.post EXCEPT !.tagged[v] = @ - 1])
            \/ /\ h.post.left = {} /\ waiting = {}
               /\ Finish(c, {Reply(c, "ACK", "POST")})
  /\ UNCHANGED <<maps, status, graph, mail, session, pushed>>

\* on to the next addressee of a post, u having been addressed
OnFrom(h, u) ==
  [step |-> "visit", user |-> h.user,
   post |-> [h.post EXCEPT !.due[u] = IF @ > 0 THEN @ - 1 ELSE 0]]

\* mutant: a post is sent to an inactive user too
PostDeliverAlways(c) ==
  /\ At(c, "deliver")
  /\ LET h == handler[c]
     IN  /\ Continue(c, [step |-> "sendPost", user |-> h.user, post |-> h.post,
                         other |-> h.other, online |-> h.online, to |-> connId[h.other]])
         /\ NoteStale(c, h.other, h.other)
  /\ UNCHANGED <<maps, status, graph, mail, session, pushed>>

\* the post is kept, or getConnId says where to send it
PostDeliver(c) ==
  /\ At(c, "deliver")
  /\ LET h == handler[c]
     IN  /\ NoteStale(c, h.other, h.other)
         /\ \/ /\ h.online
               /\ Continue(c, [step |-> "sendPost", user |-> h.user, post |-> h.post,
                               other |-> h.other, online |-> TRUE, to |-> connId[h.other]])
               /\ UNCHANGED awaitingPosts
            \/ /\ ~h.online
               /\ Continue(c, OnFrom(h, h.other))
               /\ awaitingPosts' = [awaitingPosts EXCEPT ![h.other] = Append(@, h.user)]
  /\ UNCHANGED <<maps, status, graph, posts, session, pushed>>

PostSend(c) ==
  /\ At(c, "sendPost")
  /\ LET h == handler[c]
     IN  /\ handler' = [handler EXCEPT ![c] = OnFrom(h, h.other)]
         /\ NoteStale(c, h.other, h.other)
         /\ frames' = {Notify(h.to, h.other, "POST", h.user)}
  /\ UNCHANGED <<maps, status, graph, mail, session, pushed>>

-----------------------------------------------------------------------------
(* PM, LOGSTAT, STAT *)

\* If no name matches, otherUser is left at the last user of the map.
PmScan(c, words) ==
  /\ Ready(c, "PM")
  /\ LET me == MeOrLast(c)
         named == Named(words)
         other == UserOf(IF named # {} THEN FirstOf[named] ELSE LastOf[Registered])
         ok == me # NoUser /\ Registered # {} /\ CanMessage(me, other)
     IN  \/ ok /\ Continue(c, [step |-> "pm", user |-> me, other |-> other])
         \/ ~ok /\ Finish(c, {Reply(c, "ERROR", "PM")})
  /\ UNCHANGED shared

\* As many characters as the addressee's name has, and one more, are cut from the
\* front of the text.  It may have too few, a bare name for one: the handler throws.
PmCut(c) ==
  /\ At(c, "pm")
  /\ LET h == handler[c]
     IN  /\ \/ Continue(c, [step |-> "sendPm", user |-> h.user, other |-> h.other,
                            to |-> connId[h.other]])
            \/ Finish(c, {})
         /\ NoteStale(c, h.user, h.other)
  /\ UNCHANGED <<maps, status, graph, mail, session, pushed>>

PmSend(c) ==
  /\ At(c, "sendPm")
  /\ LET h == handler[c]
     IN  /\ Finish(c, {Notify(h.to, h.other, "PM", h.user), Reply(c, "ACK", "PM")})
         /\ NoteStale(c, h.other, h.other)
  /\ UNCHANGED <<maps, status, graph, mail, session, pushed>>

\* One answer per entry of ActiveUsersMap, none if there is no entry.
Statistics(c, keys) ==
  {[to |-> c, op |-> "LOGSTAT", from |-> NoUser, about |-> activeUsersMap[k],
    kind |-> IF MeOrLast(c) \in blockingUsers[activeUsersMap[k]] THEN "ERROR" ELSE "ACK"] :
     k \in keys}

\* The year is cut from the birthday of each user that does not block the asker and
\* parsed: one that is no number throws, after the answers for the entries before it.
Logstat(c) ==
  /\ Ready(c, "LOGSTAT")
  /\ \/ Finish(c, Statistics(c, Active))
     \/ \E k \in Active :
          /\ MeOrLast(c) \notin blockingUsers[activeUsersMap[k]]
          /\ Finish(c, Statistics(c, {j \in Active \ {k} : FirstOf[{j, k}] = j}))
  /\ UNCHANGED shared

\* The keys of ActiveUsersMap are Strings; casting the first to User throws.
Stat(c) ==
  /\ Ready(c, "STAT")
  /\ Finish(c, IF Active = {} THEN {Reply(c, "ERROR", "STAT")} ELSE {})
  /\ UNCHANGED shared

-----------------------------------------------------------------------------
(* BLOCK *)

BlockScan(c, words) ==
  /\ Ready(c, "BLOCK")
  /\ LET me == Me(c)
         other == UserOf(FirstOf[Named(words)])
         ok == me # NoUser /\ Named(words) # {} /\ other \notin blockingUsers[me]
     IN  \/ ok /\ Continue(c, [step |-> "block", user |-> me, other |-> other])
         \/ ~ok /\ Finish(c, {Reply(c, "ERROR", "BLOCK")})
  /\ UNCHANGED shared

BlockAdd(c) ==
  /\ At(c, "block")
  /\ LET h == handler[c]
     IN  /\ blockingUsers' = [blockingUsers EXCEPT ![h.user] = @ \cup {h.other}]
         /\ NoteStale(c, h.user, h.other)
         /\ Continue(c, [h EXCEPT !.step = "drop"])
  /\ UNCHANGED <<maps, status, followers, counter, mail, session, pushed>>

\* mutant: only the blocking user stops following
BlockDropOneWay(c) ==
  /\ At(c, "drop")
  /\ followers' = Dropped(followers, handler[c].user, handler[c].other)
  /\ Finish(c, {Reply(c, "ACK", "BLOCK")})
  /\ UNCHANGED <<maps, status, counter, blockingUsers, mail, history>>

\* mutant: the counter is decremented even if the user did not follow
BlockDropCounted(c) ==
  /\ At(c, "drop")
  /\ LET u == handler[c].user
         v == handler[c].other
     IN  /\ followers' = Dropped(Dropped(followers, u, v), v, u)
         /\ following' = [following EXCEPT ![u] = Short(@ - 1)]
  /\ Finish(c, {Reply(c, "ACK", "BLOCK")})
  /\ UNCHANGED <<maps, status, blockingUsers, wrapped, mail, history>>

\* Both users stop following each other; neither "following" is decremented.
BlockDrop(c) ==
  /\ At(c, "drop")
  /\ LET u == handler[c].user
         v == handler[c].other
     IN  followers' = Dropped(Dropped(followers, u, v), v, u)
  /\ Finish(c, {Reply(c, "ACK", "BLOCK")})
  /\ UNCHANGED <<maps, status, counter, blockingUsers, mail, history>>

-----------------------------------------------------------------------------
Init ==
  /\ usersMap = [n \in Name |-> 0]
  /\ activeUsersMap = [n \in Name |-> NoUser]
  /\ isActivated = [u \in User |-> FALSE]
  /\ connId = [u \in User |-> NoConn]
  /\ followers = [u \in User |-> [v \in User |-> 0]]
  /\ following = [u \in User |-> 0]
  /\ blockingUsers = [u \in User |-> {}]
  /\ awaitingPosts = [u \in User |-> <<>>]
  /\ handler = [c \in Conn |-> Idle]
  /\ frames = {}
  /\ posts = 0
  /\ wrapped = {}
  /\ stale = {}
  /\ session = [c \in Conn |-> {}]
  /\ pushed = [u \in User |-> 0]

\* process() is given the next message of connection c
Request(c) ==
  \/ \E n \in Name : RegisterScan(c, n)
  \/ \E n \in Name, valid \in BOOLEAN : LoginScan(c, n, valid)
  \/ LogoutScan(c)
  \/ \E tags \in Tags : PostScan(c, tags)
  \/ \E words \in Texts :
       \/ FollowScan(c, words)
       \/ UnfollowScan(c, words)
       \/ PmScan(c, words)
       \/ BlockScan(c, words)
  \/ Logstat(c)
  \/ Stat(c)

\* the running handler of connection c goes on
Advance(c) ==
  \/ RegisterPut(c)
  \/ LoginActivate(c) \/ LoginSetConn(c) \/ LoginAck(c) \/ LoginDrain(c) \/ LoginSend(c)
  \/ LogoutDeactivate(c)
  \/ FollowAdd(c) \/ UnfollowRemove(c) \/ FollowCount(c)
  \/ PostVisit(c) \/ PostDeliver(c) \/ PostSend(c)
  \/ PmCut(c) \/ PmSend(c)
  \/ BlockAdd(c) \/ BlockDrop(c)

Next == \E c \in Conn : Request(c) \/ Advance(c)

Spec == Init /\ [][Next]_vars

-----------------------------------------------------------------------------
(* Type correctness *)

TypeOK ==
  /\ usersMap \in [Name -> 0..MaxSerial]
  /\ activeUsersMap \in [Name -> User \cup {NoUser}]
  /\ isActivated \in [User -> BOOLEAN]
  /\ connId \in [User -> ConnId]
  /\ followers \in [User -> [User -> Nat]]
  /\ following \in [User -> ShortRange]
  /\ blockingUsers \in [User -> SUBSET User]
  /\ awaitingPosts \in [User -> Seq(User)]
  /\ handler \in [Conn -> Handler]
  /\ frames \subseteq Frame
  /\ posts \in 0..MaxPosts
  /\ wrapped \subseteq User
  /\ stale \subseteq Steps \X User \X User
  /\ session \in [Conn -> SUBSET User]
  /\ pushed \in [User -> Nat]

-----------------------------------------------------------------------------
(* Safety *)

Raced(steps, u, v) == \E step \in steps : <<step, u, v>> \in stale

(***************************************************************************)
(* REGISTER looks for the name before it puts the User, and nothing makes  *)
(* the two steps one.  The put may replace an account, but an account is   *)
(* not replaced again and again: only handlers that scanned before the     *)
(* first put can do it, and at most NThreads run at once.                  *)
(***************************************************************************)
RegistrationsBounded == \A n \in Name : usersMap[n] <= NThreads

(***************************************************************************)
(* A user never follows one who blocked it, although FOLLOW and BLOCK look *)
(* at the two queues and change them in separate steps: the only windows   *)
(* are the running BLOCK itself, between its add and its removals, and a   *)
(* FOLLOW whose check had become false when it added.                      *)
(***************************************************************************)
BlockedNotFollowed ==
  \A u, v \in User :
    Follows(u, v) /\ u \in blockingUsers[v] =>
      \/ Raced({"follow"}, u, v)
      \/ \E c \in Conn : At(c, "drop") /\ handler[c].user = v /\ handler[c].other = u

(***************************************************************************)
(* A user whose LOGIN was acknowledged on a connection and who was not     *)
(* logged out by it is activated and has that connection's id, so that     *)
(* what others send reaches it, unless a LOGIN or a LOGOUT of this user    *)
(* acted on an outdated check.                                             *)
(***************************************************************************)
SessionBacked ==
  \A c \in Conn : \A u \in session[c] :
    Raced({"activate", "deactivate"}, u, u) \/ (isActivated[u] /\ connId[u] = c)

\* a name that contains no other and occurs in no other
Distinct(n) ==
  \A m \in Name \ {n} : <<n, m>> \notin Contains /\ <<m, n>> \notin Contains

(***************************************************************************)
(* A logged-in user is a value of ActiveUsersMap, where every handler      *)
(* looks for the sender.  The map is keyed by what was typed at LOGIN, so  *)
(* this needs a name that contains no other and occurs in no other, and an *)
(* account that no racing REGISTER replaced.                               *)
(***************************************************************************)
SessionIsIndexed ==
  \A c \in Conn : \A u \in session[c] :
    Distinct(u.username) =>
      \/ \E k \in Name : activeUsersMap[k] = u
      \/ \E s \in 1..MaxSerial :
           Raced({"register"}, [username |-> u.username, serial |-> s],
                               [username |-> u.username, serial |-> s])

(***************************************************************************)
(* While a user is logged in and its LOGIN is over, every post kept for it *)
(* has been sent to it: POST queues for an inactive user, LOGIN activates  *)
(* first and drains the queue last.  The exception is a POST that saw the  *)
(* user inactive and queued after the activation.                          *)
(***************************************************************************)
PostsPushed ==
  \A u \in User :
    isActivated[u] /\ LoggingIn(u) = {} =>
      pushed[u] = Len(awaitingPosts[u]) \/ Raced({"deliver", "activate"}, u, u)

(***************************************************************************)
(* A pushed post goes to a connection on which its addressee is logged in, *)
(* unless the addressee's LOGIN is still running (it is activated before   *)
(* its connId is set), it logged out or in elsewhere between POST's read   *)
(* of its connId and the send, or a LOGIN or a LOGOUT of it was outdated.  *)
(***************************************************************************)
PushInSession ==
  \A f \in frames :
    f.kind = "NOTIFICATION" /\ f.op = "POST" =>
      \/ f.to # NoConn /\ f.about \in session[f.to]
      \/ LoggingIn(f.about) # {}
      \/ Raced({"sendPost", "activate", "deactivate"}, f.about, f.about)

(***************************************************************************)
(* A PM to a user that is logged in reaches the connection of its session, *)
(* however often it was on others before, unless it came there after its   *)
(* connId was read for the PM; a PM to a user that has logged out is not   *)
(* meant: it goes where the user last was, whoever is there now.           *)
(***************************************************************************)
PmInSession ==
  \A f \in frames :
    f.kind = "NOTIFICATION" /\ f.op = "PM" /\ isActivated[f.about] =>
      \/ f.to # NoConn /\ f.about \in session[f.to]
      \/ LoggingIn(f.about) # {}
      \/ Raced({"sendPm", "activate", "deactivate"}, f.about, f.about)

(***************************************************************************)
(* One POST addresses a follower of the author once, however many of its   *)
(* tags match the follower, and any other user once for each tag that      *)
(* matches, but none as both, unless a tagged user began to follow in      *)
(* between.                                                                *)
(***************************************************************************)
AddressedAsDue ==
  \A c \in Conn :
    At(c, "deliver") =>
      \/ handler[c].post.due[handler[c].other] > 0
      \/ Raced({"visit"}, handler[c].user, handler[c].user)

(***************************************************************************)
(* The counter "following" never falls behind the users a user follows:    *)
(* BLOCK makes it too large, never too small, and the two-step increments  *)
(* lose an update only when two of them run for one user.  Beyond the      *)
(* range of a Short it begins again at the other end.                      *)
(***************************************************************************)
FollowingCounted ==
  \A u \in User :
    \/ \E c \in Conn : At(c, "count") /\ handler[c].user = u
    \/ MapThenSumSet(LAMBDA v : followers[u][v], User) <= following[u]
    \/ u \in wrapped
    \/ Raced({"count"}, u, u)
    \/ \E v \in User : Raced({"unfollow"}, u, v)

(***************************************************************************)
(* With one thread no handler ever acts on an outdated check, so that the  *)
(* exceptions of the properties above disappear.                           *)
(***************************************************************************)
SerialHandlers == NThreads = 1 => stale = {}

-----------------------------------------------------------------------------
(* A sequential promise that the handlers do not keep *)

(***************************************************************************)
(* readme:1 "Users can register, log in, follow other users, and post      *)
(* messages": between two requests, the only user logged in on a           *)
(* connection is the one the handlers act for.                             *)
(***************************************************************************)
SessionActs ==
  \A c \in Conn, u \in User :
    handler[c] = Idle /\ session[c] = {u} => Me(c) = u

=============================================================================
