-------------------- MODULE BidiMessagingDeliveryProofs --------------------
(***************************************************************************)
(* Theorems about BidiMessagingProtocol that say what reaches whom: LOGIN  *)
(* and LOGOUT against each other and against the POSTs and PMs sent        *)
(* meanwhile, for every number of connections, names and threads.          *)
(***************************************************************************)
EXTENDS BidiMessagingProtocolProofs

LoginSteps == {"setConn", "ackLogin", "drain", "sendKept"}

-----------------------------------------------------------------------------
(* What the steps of the other requests leave alone *)

\* one handler moves, outside of LOGIN's part after the activation
LoginFree(c) ==
  /\ handler[c].step \notin LoginSteps /\ handler'[c].step \notin LoginSteps
  /\ \A d \in Conn : d # c => handler'[d] = handler[d]
  /\ UNCHANGED <<isActivated, connId, session, pushed>>
  /\ stale \subseteq stale'

\* the scans start a handler of their request, or answer at once
ScanSteps == {"idle", "register", "activate", "deactivate", "follow", "unfollow", "visit",
              "pm", "block"}

(***************************************************************************)
(* A request finds its connection idle, changes nothing that is shared but *)
(* the number of posts, and pushes nothing to others.                      *)
(***************************************************************************)
LEMMA RequestMoves ==
  ASSUME TypeOK, NEW c \in Conn, Request(c)
  PROVE  /\ handler[c] = Idle
         /\ handler'[c].step \in ScanSteps
         /\ \A d \in Conn : d # c => handler'[d] = handler[d]
         /\ UNCHANGED <<maps, status, graph, awaitingPosts, history>>
         /\ \A f \in frames' : f.kind # "NOTIFICATION"
<1> DEFINE Same == UNCHANGED <<maps, status, graph, awaitingPosts, history>>
           Quiet == \A f \in frames' : f.kind # "NOTIFICATION"
           Starts(h) == handler' = [handler EXCEPT ![c] = h]
<1>1. ASSUME NEW op, Ready(c, op) PROVE handler[c] = Idle
  BY <1>1 DEF Ready
<1>2. ASSUME UNCHANGED shared PROVE Same
  BY <1>2 DEF shared, mail
<1>3. ASSUME NEW h, Continue(c, h) PROVE Starts(h) /\ Quiet
  BY <1>3 DEF Continue
<1>4. ASSUME NEW op, NEW kind \in {"ACK", "ERROR"}, Finish(c, {Reply(c, kind, op)})
      PROVE  Starts(Idle) /\ Quiet
  BY <1>4 DEF Finish, Reply
<1>5. ASSUME Finish(c, {}) PROVE Starts(Idle) /\ Quiet
  BY <1>5 DEF Finish
<1> DEFINE Moves == /\ handler[c] = Idle /\ Same /\ Quiet
                    /\ \E h : h.step \in ScanSteps /\ Starts(h)
<1>6. Idle.step \in ScanSteps
  BY DEF Idle, ScanSteps
<1>7. Moves
  <2>1. ASSUME NEW n \in Name, RegisterScan(c, n) PROVE Moves
    <3>1. [step |-> "register", name |-> n].step \in ScanSteps
      BY DEF ScanSteps
    <3> QED  BY <1>1, <1>2, <1>3, <1>4, <1>6, <2>1, <3>1 DEF RegisterScan
  <2>2. ASSUME NEW n \in Name, NEW valid \in BOOLEAN, LoginScan(c, n, valid) PROVE Moves
    <3> DEFINE u == UserOf(FirstOf[Matching(n)])
    <3>1. [step |-> "activate", user |-> u, name |-> n].step \in ScanSteps
      BY DEF ScanSteps
    <3> QED  BY <1>1, <1>2, <1>3, <1>4, <1>6, <2>2, <3>1 DEF LoginScan
  <2>3. ASSUME LogoutScan(c) PROVE Moves
    <3>1. [step |-> "deactivate", user |-> Me(c)].step \in ScanSteps
      BY DEF ScanSteps
    <3> QED  BY <1>1, <1>2, <1>3, <1>4, <1>6, <2>3, <3>1 DEF LogoutScan
  <2>4. ASSUME NEW words \in Texts, FollowScan(c, words) PROVE Moves
    <3> DEFINE v == UserOf(FirstOf[Named(words)])
    <3>1. [step |-> "follow", user |-> Me(c), other |-> v].step \in ScanSteps
      BY DEF ScanSteps
    <3> QED  BY <1>1, <1>2, <1>3, <1>4, <1>5, <1>6, <2>4, <3>1 DEF FollowScan, FollowRequest
  <2>5. ASSUME NEW words \in Texts, UnfollowScan(c, words) PROVE Moves
    <3> DEFINE v == UserOf(FirstOf[Named(words)])
    <3>1. [step |-> "unfollow", user |-> Me(c), other |-> v].step \in ScanSteps
      BY DEF ScanSteps
    <3> QED  BY <1>1, <1>2, <1>3, <1>4, <1>5, <1>6, <2>5, <3>1 DEF UnfollowScan, FollowRequest
  <2>6. ASSUME NEW tags \in Tags, PostScan(c, tags) PROVE Moves
    <3> DEFINE free == {u \in User : Tagged(tags)[u] > 0 /\ ~Follows(u, Me(c))}
               h == [step |-> "visit", user |-> Me(c),
                     post |-> [left |-> Registered, free |-> free,
                       tagged |-> [u \in User |-> IF u \in free THEN Tagged(tags)[u] ELSE 0],
                       due |-> [u \in User |-> IF u \in free THEN Tagged(tags)[u] ELSE 1]]]
    <3>1. h.step \in ScanSteps
      BY DEF ScanSteps
    <3>2. Continue(c, h) \/ Finish(c, {Reply(c, "ERROR", "POST")})
      BY <2>6 DEF PostScan
    <3>3. Same /\ handler[c] = Idle
      BY <2>6 DEF PostScan, Ready
    <3> HIDE DEF h
    <3> QED  BY <1>3, <1>4, <1>6, <3>1, <3>2, <3>3
  <2>7. ASSUME NEW words \in Texts, PmScan(c, words) PROVE Moves
    <3> DEFINE named == Named(words)
               other == UserOf(IF named # {} THEN FirstOf[named] ELSE LastOf[Registered])
               h == [step |-> "pm", user |-> MeOrLast(c), other |-> other]
    <3>1. h.step \in ScanSteps
      BY DEF ScanSteps
    <3>2. Continue(c, h) \/ Finish(c, {Reply(c, "ERROR", "PM")})
      BY <2>7 DEF PmScan
    <3>3. UNCHANGED shared /\ Ready(c, "PM")
      BY <2>7 DEF PmScan
    <3> HIDE DEF h
    <3> QED  BY <1>1, <1>2, <1>3, <1>4, <1>6, <3>1, <3>2, <3>3
  <2>8. ASSUME NEW words \in Texts, BlockScan(c, words) PROVE Moves
    <3> DEFINE v == UserOf(FirstOf[Named(words)])
    <3>1. [step |-> "block", user |-> Me(c), other |-> v].step \in ScanSteps
      BY DEF ScanSteps
    <3> QED  BY <1>1, <1>2, <1>3, <1>4, <1>6, <2>8, <3>1 DEF BlockScan
  <2>9. ASSUME Logstat(c) PROVE Moves
    <3>1. \A keys : \A f \in Statistics(c, keys) : f.kind # "NOTIFICATION"
      BY DEF Statistics
    <3>2. \A sent : Finish(c, sent) => Starts(Idle) /\ frames' = sent
      BY DEF Finish
    <3>3. Starts(Idle) /\ Quiet
      BY <2>9, <3>1, <3>2 DEF Logstat
    <3> QED  BY <1>1, <1>2, <1>6, <2>9, <3>3 DEF Logstat
  <2>10. ASSUME Stat(c) PROVE Moves
    <3>1. Starts(Idle) /\ Quiet
      BY <2>10 DEF Stat, Finish, Reply
    <3> QED  BY <1>1, <1>2, <1>6, <2>10, <3>1 DEF Stat
  <2> QED  BY <2>1, <2>2, <2>3, <2>4, <2>5, <2>6, <2>7, <2>8, <2>9, <2>10 DEF Request
<1>8. \A h : Starts(h) => handler'[c] = h /\ \A d \in Conn : d # c => handler'[d] = handler[d]
  BY DEF TypeOK
<1> QED  BY <1>7, <1>8

\* steps of handlers that neither log in nor log out
OtherAdvance(c) ==
  \/ RegisterPut(c)
  \/ FollowAdd(c) \/ UnfollowRemove(c) \/ FollowCount(c)
  \/ PostVisit(c) \/ PostDeliver(c) \/ PostSend(c)
  \/ PmCut(c) \/ PmSend(c)
  \/ BlockAdd(c) \/ BlockDrop(c)

LEMMA RequestFree ==
  ASSUME TypeOK, NEW c \in Conn, Request(c)
  PROVE  LoginFree(c)
  BY RequestMoves DEF LoginFree, LoginSteps, ScanSteps, Idle, status, history

LEMMA OtherFree ==
  ASSUME TypeOK, NEW c \in Conn, OtherAdvance(c)
  PROVE  LoginFree(c)
<1>1. handler[c].step \notin LoginSteps
  BY DEF OtherAdvance, RegisterPut, FollowAdd, UnfollowRemove, FollowCount, PostVisit,
         PostDeliver, PostSend, PmCut, PmSend, BlockAdd, BlockDrop, At, LoginSteps
<1>2. \A h : handler' = [handler EXCEPT ![c] = h] =>
               handler'[c] = h /\ \A d \in Conn : d # c => handler'[d] = handler[d]
  BY DEF TypeOK
<1> DEFINE Moves == \E h : h.step \notin LoginSteps /\ handler' = [handler EXCEPT ![c] = h]
<1>3. CASE RegisterPut(c) \/ FollowAdd(c) \/ UnfollowRemove(c) \/ FollowCount(c)
  <2>1. Moves
    BY <1>3 DEF RegisterPut, FollowAdd, UnfollowRemove, FollowCount, Continue, Finish, Idle,
                LoginSteps
  <2>2. UNCHANGED <<isActivated, connId, session, pushed>> /\ stale \subseteq stale'
    BY <1>3 DEF RegisterPut, FollowAdd, UnfollowRemove, FollowCount, NoteStale, status
  <2> QED  BY <1>1, <1>2, <2>1, <2>2 DEF LoginFree
<1>4. CASE PostVisit(c)
  <2>1. /\ handler'[c].step \in {"idle", "visit", "deliver"}
        /\ \A d \in Conn : d # c => handler'[d] = handler[d]
    BY <1>4, VisitSteps
  <2>2. UNCHANGED <<isActivated, connId, session, pushed>> /\ stale \subseteq stale'
    BY <1>4 DEF PostVisit, NoteStale, status
  <2> QED  BY <1>1, <2>1, <2>2 DEF LoginFree, LoginSteps
<1>5. CASE PostDeliver(c) \/ PostSend(c)
  <2>1. handler[c].post \in Post /\ handler[c].other \in User
    BY <1>5, RunningFields DEF PostDeliver, PostSend
  <2>2. OnFrom(handler[c], handler[c].other).step = "visit"
    BY <2>1, OnSteps
  <2>3. Moves
    BY <1>5, <2>2 DEF PostDeliver, PostSend, Continue, LoginSteps
  <2>4. UNCHANGED <<isActivated, connId, session, pushed>> /\ stale \subseteq stale'
    BY <1>5 DEF PostDeliver, PostSend, NoteStale, status
  <2> QED  BY <1>1, <1>2, <2>3, <2>4 DEF LoginFree
<1>6. CASE PmCut(c) \/ PmSend(c)
  <2>1. Moves
    BY <1>6 DEF PmCut, PmSend, Continue, Finish, Idle, LoginSteps
  <2>2. UNCHANGED <<isActivated, connId, session, pushed>> /\ stale \subseteq stale'
    BY <1>6 DEF PmCut, PmSend, NoteStale, status
  <2> QED  BY <1>1, <1>2, <2>1, <2>2 DEF LoginFree
<1>7. CASE BlockAdd(c)
  <2>1. handler[c] \in [step : {"follow", "unfollow", "pm", "block", "drop"}, user : User, other : User]
    BY <1>7, PairFields DEF BlockAdd, At, TypeOK
  <2>2. [handler[c] EXCEPT !.step = "drop"].step = "drop"
    BY <2>1
  <2>3. Moves
    BY <1>7, <2>2 DEF BlockAdd, Continue, LoginSteps
  <2>4. UNCHANGED <<isActivated, connId, session, pushed>> /\ stale \subseteq stale'
    BY <1>7 DEF BlockAdd, NoteStale, status
  <2> QED  BY <1>1, <1>2, <2>3, <2>4 DEF LoginFree
<1>8. CASE BlockDrop(c)
  <2>1. Moves
    BY <1>8 DEF BlockDrop, Finish, Idle, LoginSteps
  <2>2. UNCHANGED <<isActivated, connId, session, pushed>> /\ stale \subseteq stale'
    BY <1>8 DEF BlockDrop, status, history
  <2> QED  BY <1>1, <1>2, <2>1, <2>2 DEF LoginFree
<1> QED  BY <1>3, <1>4, <1>5, <1>6, <1>7, <1>8 DEF OtherAdvance

(***************************************************************************)
(* Only the steps of POST enter its loops, only its check leads to a send, *)
(* and no step but a scan begins an activation.                            *)
(***************************************************************************)
LEMMA AdvanceKinds ==
  ASSUME TypeOK, NEW c \in Conn, Advance(c)
  PROVE  /\ \A d \in Conn : d # c => handler'[d] = handler[d]
         /\ stale \subseteq stale'
         /\ handler'[c].step # "activate"
         /\ \/ PostVisit(c) \/ PostDeliver(c) \/ PostSend(c)
            \/ handler'[c].step \notin {"visit", "deliver", "sendPost"}
<1> DEFINE Apart == handler'[c].step \notin {"activate", "visit", "deliver", "sendPost"}
           Others == \A d \in Conn : d # c => handler'[d] = handler[d]
<1>1. \A h : Continue(c, h) => handler'[c] = h
  BY DEF Continue, TypeOK
<1>2. \A sent : Finish(c, sent) => handler'[c] = Idle
  BY DEF Finish, TypeOK
<1>3. Idle.step = "idle"
  BY DEF Idle
<1>4. \A h : handler' = [handler EXCEPT ![c] = h] => handler'[c] = h /\ Others
  BY DEF TypeOK
<1>5. stale \subseteq stale'
  BY DEF Advance, RegisterPut, LoginActivate, LoginSetConn, LoginAck, LoginDrain, LoginSend,
         LogoutDeactivate, FollowAdd, UnfollowRemove, FollowCount, PostVisit, PostDeliver,
         PostSend, PmCut, PmSend, BlockAdd, BlockDrop, NoteStale, history, shared
<1>6. CASE \/ RegisterPut(c) \/ LogoutDeactivate(c) \/ FollowCount(c) \/ PmSend(c)
           \/ BlockDrop(c)
  BY <1>3, <1>4, <1>5, <1>6 DEF RegisterPut, LogoutDeactivate, FollowCount, PmSend, BlockDrop, Finish
<1>7. CASE LoginActivate(c) \/ LoginSetConn(c) \/ FollowAdd(c) \/ UnfollowRemove(c)
  BY <1>4, <1>5, <1>7 DEF LoginActivate, LoginSetConn, FollowAdd, UnfollowRemove, Continue
<1>8. CASE LoginDrain(c) \/ PmCut(c)
  BY <1>3, <1>4, <1>5, <1>8 DEF LoginDrain, PmCut, Continue, Finish
<1>9. CASE LoginAck(c)
  BY <1>3, <1>5, <1>9 DEF LoginAck, TypeOK
<1>10. CASE LoginSend(c)
  BY <1>3, <1>5, <1>10 DEF LoginSend, TypeOK
<1>11. CASE BlockAdd(c)
  <2>1. handler[c] \in [step : {"follow", "unfollow", "pm", "block", "drop"}, user : User, other : User]
    BY <1>11, PairFields DEF BlockAdd, At, TypeOK
  <2>2. [handler[c] EXCEPT !.step = "drop"].step = "drop"
    BY <2>1
  <2>3. handler'[c].step = "drop" /\ Others
    BY <1>4, <1>11, <2>2 DEF BlockAdd, Continue
  <2> QED  BY <1>5, <2>3
<1>12. CASE PostVisit(c)
  <2>1. handler'[c].step \in {"idle", "visit", "deliver"} /\ Others
    BY <1>12, VisitSteps
  <2> QED  BY <1>5, <1>12, <2>1
<1>13. CASE PostDeliver(c) \/ PostSend(c)
  <2>1. handler[c].post \in Post /\ handler[c].other \in User
    BY <1>13, RunningFields DEF PostDeliver, PostSend
  <2>2. OnFrom(handler[c], handler[c].other).step = "visit"
    BY <2>1, OnSteps
  <2>3. handler'[c].step \in {"visit", "sendPost"} /\ Others
    <3>1. \E h : handler' = [handler EXCEPT ![c] = h] /\ h.step \in {"visit", "sendPost"}
      BY <1>13, <2>2 DEF PostDeliver, PostSend, Continue
    <3> QED  BY <1>4, <3>1
  <2> QED  BY <1>5, <1>13, <2>3
<1> QED
  BY <1>6, <1>7, <1>8, <1>9, <1>10, <1>11, <1>12, <1>13 DEF Advance

\* the other steps leave the users that are logging in, and how far, as they were
LEMMA FreeKeepsLogins ==
  ASSUME NEW c \in Conn, LoginFree(c), NEW u
  PROVE  /\ LoggingIn(u)' = LoggingIn(u)
         /\ \A d \in LoggingIn(u) : handler'[d] = handler[d]
  BY DEF LoginFree, LoggingIn, LoginSteps

-----------------------------------------------------------------------------
(* LOGIN against LOGOUT *)

SessionRaced(u) == Raced({"activate", "deactivate"}, u, u)

(***************************************************************************)
(* A user is logged in on at most one connection, or logging in on one.    *)
(* SessionBacked alone is not inductive: LOGIN stores the connection id    *)
(* two steps before the session begins, and one step after the activation. *)
(***************************************************************************)
LoginState(u) ==
  /\ \A c \in Conn : u \in session[c] => isActivated[u] /\ connId[u] = c
  /\ isActivated[u] => LoggingIn(u) # {} \/ \E c \in Conn : u \in session[c]
  /\ \A c \in LoggingIn(u) :
       /\ isActivated[u] /\ LoggingIn(u) = {c}
       /\ At(c, "setConn") => \A d \in Conn : u \notin session[d]
       /\ ~At(c, "setConn") => connId[u] = c
       /\ At(c, "drain") \/ At(c, "sendKept") => u \in session[c]
       /\ At(c, "sendKept") => handler[c].to = c

SessionInv == \A u \in User : SessionRaced(u) \/ LoginState(u)

LEMMA FreeKeepsSessions ==
  ASSUME SessionInv, NEW c \in Conn, LoginFree(c)
  PROVE  SessionInv'
<1> SUFFICES ASSUME NEW u \in User, ~SessionRaced(u)' PROVE LoginState(u)'
  BY DEF SessionInv
<1>1. LoginState(u)
  BY DEF SessionInv, SessionRaced, Raced, LoginFree
<1>2. LoggingIn(u)' = LoggingIn(u) /\ \A d \in LoggingIn(u) : handler'[d] = handler[d]
  BY FreeKeepsLogins
<1>3. UNCHANGED <<isActivated, connId, session>>
  BY DEF LoginFree
<1> QED  BY <1>1, <1>2, <1>3 DEF LoginState, At

\* a step that concerns one user keeps what is known of the others
LEMMA OtherUserKeeps ==
  ASSUME TypeOK, SessionInv, NEW c \in Conn, NEW u \in User, NEW v \in User, u # v,
         ~SessionRaced(v)', stale \subseteq stale',
         handler[c].step \in LoginSteps => handler[c].user = u,
         handler'[c].step \in LoginSteps => handler'[c].user = u,
         \A d \in Conn : d # c => handler'[d] = handler[d],
         isActivated'[v] = isActivated[v], connId'[v] = connId[v],
         \A d \in Conn : v \in session'[d] <=> v \in session[d]
  PROVE  LoginState(v)'
<1>1. LoginState(v)
  BY DEF SessionInv, SessionRaced, Raced
<1>2. LoggingIn(v)' = LoggingIn(v) /\ c \notin LoggingIn(v)
  BY DEF LoggingIn, LoginSteps
<1>3. \A d \in LoggingIn(v) : handler'[d] = handler[d]
  BY <1>2 DEF LoggingIn
<1>4. \A d \in Conn : v \in session'[d] => isActivated'[v] /\ connId'[v] = d
  BY <1>1 DEF LoginState
<1>5. isActivated'[v] => LoggingIn(v)' # {} \/ \E d \in Conn : v \in session'[d]
  BY <1>1, <1>2 DEF LoginState
<1>6. ASSUME NEW d \in LoggingIn(v)
      PROVE  /\ isActivated'[v] /\ LoggingIn(v)' = {d}
             /\ At(d, "setConn")' => \A e \in Conn : v \notin session'[e]
             /\ ~At(d, "setConn")' => connId'[v] = d
             /\ (At(d, "drain") \/ At(d, "sendKept"))' => v \in session'[d]
             /\ At(d, "sendKept")' => handler'[d].to = d
  <2>1. d \in Conn /\ handler'[d] = handler[d]
    BY <1>3 DEF LoggingIn
  <2> QED  BY <1>1, <1>2, <2>1 DEF LoginState, At
<1> QED  BY <1>2, <1>4, <1>5, <1>6 DEF LoginState

LEMMA ActivateSession ==
  ASSUME TypeOK, SessionInv, NEW c \in Conn, LoginActivate(c)
  PROVE  SessionInv'
<1>1. PICK u \in User : u = handler[c].user
  BY RunningFields DEF LoginActivate
<1>2. handler[c].step = "activate"
  BY DEF LoginActivate, At
<1>3. /\ handler'[c] = [step |-> "setConn", user |-> u]
      /\ \A d \in Conn : d # c => handler'[d] = handler[d]
  BY <1>1 DEF LoginActivate, Continue, TypeOK
<1>4. /\ isActivated' = [isActivated EXCEPT ![u] = TRUE]
      /\ connId' = connId /\ session' = session /\ stale \subseteq stale'
  BY <1>1 DEF LoginActivate, NoteStale
<1>5. ASSUME ~SessionRaced(u)' PROVE LoginState(u)'
  <2>1. ~isActivated[u] /\ LoggingIn(u) = {}
    <3>1. CheckHolds(c)
      BY <1>1, <1>2, <1>5 DEF LoginActivate, NoteStale, SessionRaced, Raced
    <3> QED  BY <1>1, <1>2, <3>1 DEF CheckHolds
  <2>2. LoginState(u)
    BY <1>4, <1>5 DEF SessionInv, SessionRaced, Raced
  <2>3. \A d \in Conn : u \notin session'[d]
    BY <1>4, <2>1, <2>2 DEF LoginState
  <2>4. LoggingIn(u)' = {c} /\ At(c, "setConn")'
    BY <1>3, <2>1 DEF LoggingIn, At
  <2>5. isActivated'[u]
    BY <1>4 DEF TypeOK
  <2>6. ~At(c, "drain")' /\ ~At(c, "sendKept")'
    BY <2>4 DEF At
  <2> QED  BY <2>3, <2>4, <2>5, <2>6 DEF LoginState
<1>6. ASSUME NEW v \in User, v # u, ~SessionRaced(v)' PROVE LoginState(v)'
  <2>1. isActivated'[v] = isActivated[v] /\ handler'[c].user = u /\ handler[c].user = u
    BY <1>1, <1>3, <1>4, <1>6 DEF TypeOK
  <2> QED  BY <1>3, <1>4, <1>6, <2>1, OtherUserKeeps
<1> QED  BY <1>5, <1>6 DEF SessionInv

LEMMA SetConnSession ==
  ASSUME TypeOK, SessionInv, NEW c \in Conn, LoginSetConn(c)
  PROVE  SessionInv'
<1>1. PICK u \in User : u = handler[c].user
  BY RunningFields DEF LoginSetConn
<1>2. /\ handler'[c] = [step |-> "ackLogin", user |-> u]
      /\ \A d \in Conn : d # c => handler'[d] = handler[d]
  BY <1>1 DEF LoginSetConn, Continue, TypeOK
<1>3. /\ connId' = [connId EXCEPT ![u] = c]
      /\ isActivated' = isActivated /\ session' = session /\ stale' = stale
  BY <1>1 DEF LoginSetConn, history
<1>4. ASSUME ~SessionRaced(u)' PROVE LoginState(u)'
  <2>1. LoginState(u)
    BY <1>3, <1>4 DEF SessionInv, SessionRaced, Raced
  <2>2. c \in LoggingIn(u) /\ At(c, "setConn")
    BY <1>1 DEF LoggingIn, LoginSetConn, At
  <2>3. LoggingIn(u) = {c} /\ isActivated[u] /\ \A d \in Conn : u \notin session[d]
    BY <2>1, <2>2 DEF LoginState
  <2>4. LoggingIn(u)' = {c} /\ ~At(c, "drain")' /\ ~At(c, "sendKept")' /\ ~At(c, "setConn")'
    BY <1>2, <2>3 DEF LoggingIn, At
  <2>5. connId'[u] = c
    BY <1>3 DEF TypeOK
  <2> QED  BY <1>3, <2>3, <2>4, <2>5 DEF LoginState
<1>5. ASSUME NEW v \in User, v # u, ~SessionRaced(v)' PROVE LoginState(v)'
  <2>1. connId'[v] = connId[v] /\ handler'[c].user = u /\ handler[c].user = u
    BY <1>1, <1>2, <1>3, <1>5 DEF TypeOK
  <2> QED  BY <1>2, <1>3, <1>5, <2>1, OtherUserKeeps
<1> QED  BY <1>4, <1>5 DEF SessionInv

LEMMA AckSession ==
  ASSUME TypeOK, SessionInv, NEW c \in Conn, LoginAck(c)
  PROVE  SessionInv'
<1>1. PICK u \in User : u = handler[c].user
  BY RunningFields DEF LoginAck
<1>2. /\ handler'[c] = Idle \/ handler'[c] = [step |-> "drain", user |-> u, next |-> 1]
      /\ \A d \in Conn : d # c => handler'[d] = handler[d]
  BY <1>1 DEF LoginAck, TypeOK
<1>3. /\ session' = [session EXCEPT ![c] = session[c] \cup {u}]
      /\ isActivated' = isActivated /\ connId' = connId /\ stale' = stale
  BY <1>1 DEF LoginAck, status
<1>4. \A v \in User, d \in Conn : v \in session'[d] <=> v \in session[d] \/ (v = u /\ d = c)
  BY <1>3 DEF TypeOK
<1>5. ASSUME ~SessionRaced(u)' PROVE LoginState(u)'
  <2>1. LoginState(u)
    BY <1>3, <1>5 DEF SessionInv, SessionRaced, Raced
  <2>2. c \in LoggingIn(u) /\ ~At(c, "setConn")
    BY <1>1 DEF LoggingIn, LoginAck, At
  <2>3. LoggingIn(u) = {c} /\ isActivated[u] /\ connId[u] = c
    BY <2>1, <2>2 DEF LoginState
  <2>4. LoggingIn(u)' \subseteq {c} /\ ~At(c, "setConn")' /\ ~At(c, "sendKept")'
    BY <1>2, <2>3 DEF LoggingIn, At, Idle
  <2>5. u \in session'[c]
    BY <1>4
  <2> QED  BY <1>3, <1>4, <2>1, <2>3, <2>4, <2>5 DEF LoginState
<1>6. ASSUME NEW v \in User, v # u, ~SessionRaced(v)' PROVE LoginState(v)'
  <2>1. /\ handler[c].user = u
        /\ handler'[c].step \in LoginSteps => handler'[c].user = u
        /\ \A d \in Conn : v \in session'[d] <=> v \in session[d]
    BY <1>1, <1>2, <1>4, <1>6 DEF Idle, LoginSteps
  <2> QED  BY <1>2, <1>3, <1>6, <2>1, OtherUserKeeps
<1> QED  BY <1>5, <1>6 DEF SessionInv

LEMMA DrainSession ==
  ASSUME TypeOK, SessionInv, NEW c \in Conn, LoginDrain(c) \/ LoginSend(c)
  PROVE  SessionInv'
<1>1. PICK u \in User : u = handler[c].user
  BY RunningFields DEF LoginDrain, LoginSend
<1>2. /\ handler'[c].step \in {"idle", "drain", "sendKept"}
      /\ handler'[c].step # "idle" => handler'[c].user = u
      /\ handler'[c].step = "sendKept" => handler'[c].to = connId[u]
      /\ \A d \in Conn : d # c => handler'[d] = handler[d]
  <2>1. CASE LoginDrain(c)
    <3>1. \A h : handler' = [handler EXCEPT ![c] = h] =>
            handler'[c] = h /\ \A d \in Conn : d # c => handler'[d] = handler[d]
      BY DEF TypeOK
    <3> QED  BY <1>1, <2>1, <3>1 DEF LoginDrain, Continue
  <2>2. CASE LoginSend(c)
    BY <1>1, <2>2 DEF LoginSend, TypeOK, Idle
  <2> QED  BY <2>1, <2>2
<1>3. UNCHANGED <<isActivated, connId, session, stale>>
  BY DEF LoginDrain, LoginSend, status, shared, history
<1>4. ASSUME ~SessionRaced(u)' PROVE LoginState(u)'
  <2>1. LoginState(u)
    BY <1>3, <1>4 DEF SessionInv, SessionRaced, Raced
  <2>2. c \in LoggingIn(u) /\ (At(c, "drain") \/ At(c, "sendKept")) /\ ~At(c, "setConn")
    BY <1>1 DEF LoggingIn, LoginDrain, LoginSend, At
  <2>3. LoggingIn(u) = {c} /\ isActivated[u] /\ connId[u] = c /\ u \in session[c]
    BY <2>1, <2>2 DEF LoginState
  <2>4. LoggingIn(u)' \subseteq {c} /\ ~At(c, "setConn")' /\ (At(c, "sendKept")' => handler'[c].to = c)
    BY <1>2, <2>3 DEF LoggingIn, At
  <2> QED  BY <1>3, <2>1, <2>3, <2>4 DEF LoginState
<1>5. ASSUME NEW v \in User, v # u, ~SessionRaced(v)' PROVE LoginState(v)'
  <2>1. /\ handler[c].user = u
        /\ handler'[c].step \in LoginSteps => handler'[c].user = u
    BY <1>1, <1>2 DEF LoginSteps
  <2> QED  BY <1>2, <1>3, <1>5, <2>1, OtherUserKeeps
<1> QED  BY <1>4, <1>5 DEF SessionInv

LEMMA DeactivateSession ==
  ASSUME TypeOK, SessionInv, NEW c \in Conn, LogoutDeactivate(c)
  PROVE  SessionInv'
<1>1. PICK u \in User : u = handler[c].user
  BY RunningFields DEF LogoutDeactivate
<1>2. handler[c].step = "deactivate"
  BY DEF LogoutDeactivate, At
<1>3. handler'[c] = Idle /\ \A d \in Conn : d # c => handler'[d] = handler[d]
  BY DEF LogoutDeactivate, Finish, TypeOK
<1>4. /\ isActivated' = [isActivated EXCEPT ![u] = FALSE]
      /\ session' = [session EXCEPT ![c] = session[c] \ {u}]
      /\ connId' = connId /\ stale \subseteq stale'
  BY <1>1 DEF LogoutDeactivate, NoteStale
<1>5. \A v \in User, d \in Conn : v \in session'[d] <=> v \in session[d] /\ ~(v = u /\ d = c)
  BY <1>4 DEF TypeOK
<1>6. ASSUME ~SessionRaced(u)' PROVE LoginState(u)'
  <2>1. connId[u] = c /\ LoggingIn(u) = {}
    <3>1. CheckHolds(c)
      BY <1>1, <1>2, <1>6 DEF LogoutDeactivate, NoteStale, SessionRaced, Raced
    <3> QED  BY <1>1, <1>2, <3>1 DEF CheckHolds
  <2>2. LoginState(u)
    BY <1>4, <1>6 DEF SessionInv, SessionRaced, Raced
  <2>3. \A d \in Conn : u \notin session'[d]
    BY <1>5, <2>1, <2>2 DEF LoginState
  <2>4. LoggingIn(u)' = {}
    BY <1>3, <2>1 DEF LoggingIn, Idle
  <2>5. ~isActivated'[u]
    BY <1>4 DEF TypeOK
  <2> QED  BY <2>3, <2>4, <2>5 DEF LoginState
<1>7. ASSUME NEW v \in User, v # u, ~SessionRaced(v)' PROVE LoginState(v)'
  <2>1. /\ isActivated'[v] = isActivated[v]
        /\ handler[c].step \notin LoginSteps /\ handler'[c].step \notin LoginSteps
        /\ \A d \in Conn : v \in session'[d] <=> v \in session[d]
    BY <1>2, <1>3, <1>4, <1>5, <1>7 DEF TypeOK, LoginSteps, Idle
  <2> QED  BY <1>3, <1>4, <1>7, <2>1, OtherUserKeeps
<1> QED  BY <1>6, <1>7 DEF SessionInv

LEMMA NextSessionInv == TypeOK /\ SessionInv /\ [Next]_vars => SessionInv'
<1> SUFFICES ASSUME TypeOK, SessionInv, [Next]_vars PROVE SessionInv'
  OBVIOUS
<1>1. ASSUME NEW c \in Conn, Request(c) PROVE SessionInv'
  BY <1>1, RequestFree, FreeKeepsSessions
<1>2. ASSUME NEW c \in Conn, OtherAdvance(c) PROVE SessionInv'
  BY <1>2, OtherFree, FreeKeepsSessions
<1>3. ASSUME NEW c \in Conn, Advance(c) PROVE SessionInv'
  BY <1>2, <1>3, ActivateSession, SetConnSession, AckSession, DrainSession, DeactivateSession
     DEF Advance, OtherAdvance
<1>4. CASE UNCHANGED vars
  <2>1. UNCHANGED <<isActivated, connId, session, stale, handler>>
    BY <1>4 DEF vars, shared, status, history
  <2>2. \A u \in User : LoggingIn(u)' = LoggingIn(u)
    BY <2>1 DEF LoggingIn
  <2>3. \A u \in User : LoginState(u) => LoginState(u)'
    BY <2>1, <2>2 DEF LoginState, At
  <2> QED  BY <2>1, <2>3 DEF SessionInv, SessionRaced, Raced
<1> QED  BY <1>1, <1>3, <1>4 DEF Next

LEMMA InitSessionInv == Init => SessionInv
  BY DEF Init, SessionInv, LoginState, LoggingIn, Idle

(***************************************************************************)
(* An activated user has a session or is on its way to one.                *)
(***************************************************************************)
LEMMA ReachedInSession ==
  ASSUME SessionInv, NEW u \in User, ~SessionRaced(u), isActivated[u]
  PROVE  LoggingIn(u) # {} \/ (connId[u] # NoConn /\ u \in session[connId[u]])
  BY ConnAssumption DEF SessionInv, LoginState

\* all steps but three push nothing to others
LEMMA QuietSteps ==
  ASSUME NEW c \in Conn, Advance(c), ~LoginSend(c), ~PostSend(c), ~PmSend(c)
  PROVE  \A f \in frames' : f.kind # "NOTIFICATION"
<1>1. ASSUME NEW op, Finish(c, {Reply(c, "ACK", op)})
      PROVE  \A f \in frames' : f.kind # "NOTIFICATION"
  BY <1>1 DEF Finish, Reply
<1>2. ASSUME NEW h, Continue(c, h) PROVE \A f \in frames' : f.kind # "NOTIFICATION"
  BY <1>2 DEF Continue
<1>3. CASE RegisterPut(c) \/ LogoutDeactivate(c) \/ BlockDrop(c)
  BY <1>1, <1>3 DEF RegisterPut, LogoutDeactivate, BlockDrop
<1>4. CASE FollowCount(c)
  BY <1>1, <1>4 DEF FollowCount
<1>5. CASE LoginActivate(c) \/ LoginSetConn(c) \/ FollowAdd(c) \/ UnfollowRemove(c) \/ BlockAdd(c)
  BY <1>2, <1>5 DEF LoginActivate, LoginSetConn, FollowAdd, UnfollowRemove, BlockAdd
<1>6. CASE LoginAck(c)
  BY <1>6 DEF LoginAck, Reply
<1>7. CASE PostVisit(c)
  BY <1>1, <1>2, <1>7 DEF PostVisit, Deliver
<1>8. CASE LoginDrain(c) \/ PostDeliver(c)
  BY <1>2, <1>8 DEF LoginDrain, PostDeliver
<1>9. CASE PmCut(c)
  BY <1>2, <1>9 DEF PmCut, Finish
<1> QED  BY <1>3, <1>4, <1>5, <1>6, <1>7, <1>8, <1>9 DEF Advance

\* a post is sent only after a check that saw its addressee activated
SendInv == \A c \in Conn : At(c, "sendPost") => handler[c].online

LEMMA NextSendInv == TypeOK /\ SendInv /\ [Next]_vars => SendInv'
<1> SUFFICES ASSUME TypeOK, SendInv, [Next]_vars PROVE SendInv'
  OBVIOUS
<1>1. ASSUME NEW c \in Conn, \A d \in Conn : d # c => handler'[d] = handler[d],
             handler'[c].step = "sendPost" => handler'[c].online
      PROVE  SendInv'
  BY <1>1 DEF SendInv, At
<1>2. ASSUME NEW c \in Conn, Request(c) PROVE SendInv'
  BY <1>1, <1>2, RequestMoves DEF ScanSteps
<1>3. ASSUME NEW c \in Conn, Advance(c) PROVE SendInv'
  <2>1. ASSUME PostDeliver(c) PROVE handler'[c].step = "sendPost" => handler'[c].online
    <3>1. handler[c].post \in Post /\ handler[c].other \in User
      BY <2>1, RunningFields DEF PostDeliver
    <3>2. OnFrom(handler[c], handler[c].other).step = "visit"
      BY <3>1, OnSteps
    <3>3. \A h : handler' = [handler EXCEPT ![c] = h] => handler'[c] = h
      BY DEF TypeOK
    <3> QED  BY <2>1, <3>2, <3>3 DEF PostDeliver, Continue
  <2>2. ASSUME PostSend(c) PROVE handler'[c].step # "sendPost"
    <3>1. handler[c].post \in Post /\ handler[c].other \in User
      BY <2>2, RunningFields DEF PostSend
    <3>2. OnFrom(handler[c], handler[c].other).step = "visit"
      BY <3>1, OnSteps
    <3> QED  BY <2>2, <3>2 DEF PostSend, TypeOK
  <2>3. ASSUME PostVisit(c) PROVE handler'[c].step # "sendPost"
    BY <2>3, VisitSteps
  <2> QED  BY <1>1, <1>3, <2>1, <2>2, <2>3, AdvanceKinds
<1>4. CASE UNCHANGED vars
  BY <1>4 DEF SendInv, At, vars
<1> QED  BY <1>2, <1>3, <1>4 DEF Next

LEMMA LoginFrames ==
  ASSUME TypeOK, SessionInv, NEW c \in Conn, LoginSend(c)
  PROVE  PushInSession' /\ PmInSession'
<1>1. PICK u \in User : u = handler[c].user
  BY RunningFields DEF LoginSend
<1>2. \A f \in frames' : f.to = handler[c].to /\ f.op = "POST" /\ f.about = u
  BY <1>1 DEF LoginSend, Notify
<1>3. UNCHANGED <<session, stale>>
  BY DEF LoginSend
<1>4. ASSUME ~SessionRaced(u) PROVE handler[c].to # NoConn /\ u \in session[handler[c].to]
  <2>1. c \in LoggingIn(u) /\ At(c, "sendKept")
    BY <1>1 DEF LoggingIn, LoginSend, At
  <2> QED  BY <1>4, <2>1, ConnAssumption DEF SessionInv, LoginState
<1>5. PushInSession'
  BY <1>2, <1>3, <1>4 DEF PushInSession, SessionRaced, Raced
<1>6. PmInSession'
  BY <1>2 DEF PmInSession
<1> QED  BY <1>5, <1>6

LEMMA PostFrames ==
  ASSUME TypeOK, SessionInv, SendInv, NEW c \in Conn, PostSend(c)
  PROVE  PushInSession' /\ PmInSession'
<1>1. PICK u \in User : u = handler[c].other
  BY RunningFields DEF PostSend
<1> DEFINE to == handler[c].to
<1>2. \A f \in frames' : f.to = to /\ f.op = "POST" /\ f.about = u
  BY <1>1 DEF PostSend, Notify
<1>3. LoginFree(c)
  BY OtherFree DEF OtherAdvance
<1>4. UNCHANGED <<isActivated, connId, session>> /\ stale \subseteq stale' /\ LoggingIn(u)' = LoggingIn(u)
  BY <1>3, FreeKeepsLogins DEF LoginFree
<1>5. ASSUME ~Raced({"sendPost", "activate", "deactivate"}, u, u)'
      PROVE  LoggingIn(u)' # {} \/ (to # NoConn /\ u \in session[to])
  <2>1. CheckHolds(c) /\ handler[c].step = "sendPost"
    BY <1>1, <1>5 DEF PostSend, NoteStale, Raced, At
  <2>2. isActivated[u] /\ connId[u] = to
    BY <1>1, <2>1 DEF CheckHolds, SendInv, At, TypeOK
  <2>3. ~SessionRaced(u)
    BY <1>4, <1>5 DEF SessionRaced, Raced
  <2> QED  BY <1>4, <2>2, <2>3, ReachedInSession
<1>6. PushInSession'
  BY <1>2, <1>4, <1>5 DEF PushInSession
<1>7. PmInSession'
  BY <1>2 DEF PmInSession
<1> QED  BY <1>6, <1>7

LEMMA PmFrames ==
  ASSUME TypeOK, SessionInv, NEW c \in Conn, PmSend(c)
  PROVE  PushInSession' /\ PmInSession'
<1>1. PICK u \in User : u = handler[c].other
  BY RunningFields DEF PmSend
<1> DEFINE to == handler[c].to
<1>2. \A f \in frames' : f.kind = "NOTIFICATION" => f.to = to /\ f.op = "PM" /\ f.about = u
  BY <1>1 DEF PmSend, Finish, Notify, Reply
<1>3. LoginFree(c)
  BY OtherFree DEF OtherAdvance
<1>4. UNCHANGED <<isActivated, connId, session>> /\ stale \subseteq stale' /\ LoggingIn(u)' = LoggingIn(u)
  BY <1>3, FreeKeepsLogins DEF LoginFree
<1>5. ASSUME ~Raced({"sendPm", "activate", "deactivate"}, u, u)', isActivated[u]
      PROVE  LoggingIn(u)' # {} \/ (to # NoConn /\ u \in session[to])
  <2>1. connId[u] = to
    BY <1>1, <1>5 DEF PmSend, NoteStale, CheckHolds, Raced, At
  <2>2. ~SessionRaced(u)
    BY <1>4, <1>5 DEF SessionRaced, Raced
  <2> QED  BY <1>4, <1>5, <2>1, <2>2, ReachedInSession
<1>6. PushInSession'
  BY <1>2 DEF PushInSession
<1>7. PmInSession'
  BY <1>2, <1>4, <1>5 DEF PmInSession
<1> QED  BY <1>6, <1>7

\* what a step pushes to a user reaches its session
LEMMA NextFrames ==
  TypeOK /\ SessionInv /\ SendInv /\ PushInSession /\ PmInSession /\ [Next]_vars =>
    PushInSession' /\ PmInSession'
<1> SUFFICES ASSUME TypeOK, SessionInv, SendInv, PushInSession, PmInSession, [Next]_vars
             PROVE  PushInSession' /\ PmInSession'
  OBVIOUS
<1>1. ASSUME \A f \in frames' : f.kind # "NOTIFICATION" PROVE PushInSession' /\ PmInSession'
  BY <1>1 DEF PushInSession, PmInSession
<1>2. ASSUME NEW c \in Conn, Request(c) PROVE PushInSession' /\ PmInSession'
  BY <1>1, <1>2, RequestMoves
<1>3. ASSUME NEW c \in Conn, Advance(c) PROVE PushInSession' /\ PmInSession'
  BY <1>1, <1>3, QuietSteps, LoginFrames, PostFrames, PmFrames
<1>4. CASE UNCHANGED vars
  BY <1>4 DEF PushInSession, PmInSession, Raced, LoggingIn, vars, shared, status, history
<1> QED  BY <1>2, <1>3, <1>4 DEF Next

(***************************************************************************)
(* The inductive invariant of sessions holds in every behaviour.           *)
(***************************************************************************)
THEOREM Sessions == Spec => []SessionInv
<1> QED  BY InitSessionInv, NextSessionInv, Typing, PTL DEF Spec

(***************************************************************************)
(* An acknowledged LOGIN that no LOGOUT ended on its connection leaves the *)
(* user activated and reachable there, unless a LOGIN or LOGOUT acted on   *)
(* an outdated check.                                                      *)
(***************************************************************************)
THEOREM Backed == Spec => []SessionBacked
<1>1. TypeOK /\ SessionInv => SessionBacked
  <2> SUFFICES ASSUME TypeOK, SessionInv, NEW c \in Conn, NEW u \in session[c]
               PROVE  SessionRaced(u) \/ (isActivated[u] /\ connId[u] = c)
    BY DEF SessionBacked, SessionRaced
  <2>1. u \in User
    BY DEF TypeOK
  <2> QED  BY <2>1 DEF SessionInv, LoginState
<1> QED  BY <1>1, Sessions, Typing, PTL

(***************************************************************************)
(* A post that LOGIN drains or POST pushes, and a PM to an activated user, *)
(* go to the connection of the addressee's session: unless the send's      *)
(* check had become false, connId is still what it was when it was read,   *)
(* and SessionInv says what it is worth.                                   *)
(***************************************************************************)
LEMMA InSession == Spec => [](PushInSession /\ PmInSession)
<1>1. Init => PushInSession /\ PmInSession
  BY DEF Init, PushInSession, PmInSession
<1>2. Init => SendInv
  BY DEF Init, SendInv, At, Idle
<1>3. Spec => []SendInv
  BY <1>2, NextSendInv, Typing, PTL DEF Spec
<1> QED  BY <1>1, <1>3, NextFrames, Sessions, Typing, PTL DEF Spec

(***************************************************************************)
(* A pushed post goes to a connection on which its addressee is logged in, *)
(* but for the windows PushInSession names.                                *)
(***************************************************************************)
THEOREM PushedInSession == Spec => []PushInSession
<1> QED  BY InSession, PTL

(***************************************************************************)
(* A PM to an activated user goes to a connection on which the user is     *)
(* logged in, but for the windows PmInSession names.                       *)
(***************************************************************************)
THEOREM MessagedInSession == Spec => []PmInSession
<1> QED  BY InSession, PTL

-----------------------------------------------------------------------------
(* Posts kept for a user and LOGIN's drain *)

(***************************************************************************)
(* While LOGIN drains the queue, pushed is one behind next; before, it is  *)
(* 0; only an inactive user's queue grows, so that what the iterator found *)
(* to be the last post still is.  PostsPushed alone says nothing about the *)
(* LOGIN that is still running.                                            *)
(***************************************************************************)
KeptState(u) ==
  /\ \A c \in LoggingIn(u) :
       /\ LoggingIn(u) = {c}
       /\ pushed[u] = IF At(c, "drain") \/ At(c, "sendKept") THEN handler[c].next - 1 ELSE 0
       /\ At(c, "sendKept") /\ isActivated[u] /\ ~handler[c].more =>
            handler[c].next = Len(awaitingPosts[u])
  /\ isActivated[u] /\ LoggingIn(u) = {} => pushed[u] = Len(awaitingPosts[u])

PostRaced(u) == Raced({"deliver", "activate"}, u, u)

PostInv == \A u \in User : PostRaced(u) \/ KeptState(u)

LEMMA FreeKeepsPosts ==
  ASSUME PostInv, NEW c \in Conn, LoginFree(c), awaitingPosts' = awaitingPosts
  PROVE  PostInv'
<1> SUFFICES ASSUME NEW u \in User, ~PostRaced(u)' PROVE KeptState(u)'
  BY DEF PostInv
<1>1. KeptState(u)
  BY DEF PostInv, PostRaced, Raced, LoginFree
<1>2. LoggingIn(u)' = LoggingIn(u) /\ \A d \in LoggingIn(u) : handler'[d] = handler[d]
  BY FreeKeepsLogins
<1>3. UNCHANGED <<isActivated, pushed>>
  BY DEF LoginFree
<1> QED  BY <1>1, <1>2, <1>3 DEF KeptState, At

LEMMA OtherUserKeepsPosts ==
  ASSUME PostInv, NEW c \in Conn, NEW u \in User, NEW v \in User, u # v,
         ~PostRaced(v)', stale \subseteq stale',
         handler[c].step \in LoginSteps => handler[c].user = u,
         handler'[c].step \in LoginSteps => handler'[c].user = u,
         \A d \in Conn : d # c => handler'[d] = handler[d],
         isActivated'[v] = isActivated[v], pushed'[v] = pushed[v],
         awaitingPosts' = awaitingPosts
  PROVE  KeptState(v)'
<1>1. KeptState(v)
  BY DEF PostInv, PostRaced, Raced
<1>2. LoggingIn(v)' = LoggingIn(v) /\ c \notin LoggingIn(v)
  BY DEF LoggingIn, LoginSteps
<1>3. \A d \in LoggingIn(v) : handler'[d] = handler[d]
  BY <1>2 DEF LoggingIn
<1> QED  BY <1>1, <1>2, <1>3 DEF KeptState, At

\* a POST that saw the addressee inactive, and still sees it so, may add to its queue
LEMMA DeliverPosts ==
  ASSUME TypeOK, PostInv, NEW c \in Conn, PostDeliver(c)
  PROVE  PostInv'
<1>1. PICK u \in User : u = handler[c].other
  BY RunningFields DEF PostDeliver
<1>2. LoginFree(c)
  BY OtherFree DEF OtherAdvance
<1>3. UNCHANGED <<isActivated, pushed>> /\ stale \subseteq stale'
  BY <1>2 DEF LoginFree
<1>4. /\ \A v \in User : v # u => awaitingPosts'[v] = awaitingPosts[v]
      /\ handler[c].online => awaitingPosts' = awaitingPosts
  BY <1>1 DEF PostDeliver, TypeOK
<1>5. ASSUME ~PostRaced(u)', isActivated[u] PROVE awaitingPosts' = awaitingPosts
  <2>1. CheckHolds(c) /\ handler[c].step = "deliver"
    BY <1>1, <1>5 DEF PostDeliver, NoteStale, PostRaced, Raced, At
  <2> QED  BY <1>1, <1>4, <1>5, <2>1 DEF CheckHolds
<1>6. ASSUME NEW v \in User, ~PostRaced(v)' PROVE KeptState(v)'
  <2>1. KeptState(v)
    BY <1>3, <1>6 DEF PostInv, PostRaced, Raced
  <2>2. LoggingIn(v)' = LoggingIn(v) /\ \A d \in LoggingIn(v) : handler'[d] = handler[d]
    BY <1>2, FreeKeepsLogins
  <2>3. isActivated[v] => awaitingPosts'[v] = awaitingPosts[v]
    BY <1>4, <1>5, <1>6
  <2> QED  BY <1>3, <2>1, <2>2, <2>3 DEF KeptState, At
<1> QED  BY <1>6 DEF PostInv

LEMMA ActivatePosts ==
  ASSUME TypeOK, PostInv, NEW c \in Conn, LoginActivate(c)
  PROVE  PostInv'
<1>1. PICK u \in User : u = handler[c].user
  BY RunningFields DEF LoginActivate
<1>2. handler[c].step = "activate"
  BY DEF LoginActivate, At
<1>3. /\ handler'[c] = [step |-> "setConn", user |-> u]
      /\ \A d \in Conn : d # c => handler'[d] = handler[d]
  BY <1>1 DEF LoginActivate, Continue, TypeOK
<1>4. /\ isActivated' = [isActivated EXCEPT ![u] = TRUE]
      /\ pushed' = [pushed EXCEPT ![u] = 0]
      /\ awaitingPosts' = awaitingPosts /\ stale \subseteq stale'
  BY <1>1 DEF LoginActivate, NoteStale, mail
<1>5. ASSUME ~PostRaced(u)' PROVE KeptState(u)'
  <2>1. LoggingIn(u) = {}
    <3>1. CheckHolds(c)
      BY <1>1, <1>2, <1>5 DEF LoginActivate, NoteStale, PostRaced, Raced
    <3> QED  BY <1>1, <1>2, <3>1 DEF CheckHolds
  <2>2. LoggingIn(u)' = {c} /\ ~At(c, "drain")' /\ ~At(c, "sendKept")'
    BY <1>3, <2>1 DEF LoggingIn, At
  <2>3. pushed'[u] = 0
    BY <1>4 DEF TypeOK
  <2> QED  BY <2>2, <2>3 DEF KeptState
<1>6. ASSUME NEW v \in User, v # u, ~PostRaced(v)' PROVE KeptState(v)'
  <2>1. /\ isActivated'[v] = isActivated[v] /\ pushed'[v] = pushed[v]
        /\ handler'[c].user = u /\ handler[c].user = u
    BY <1>1, <1>3, <1>4, <1>6 DEF TypeOK
  <2> QED  BY <1>3, <1>4, <1>6, <2>1, OtherUserKeepsPosts
<1> QED  BY <1>5, <1>6 DEF PostInv

LEMMA SetConnPosts ==
  ASSUME TypeOK, PostInv, NEW c \in Conn, LoginSetConn(c)
  PROVE  PostInv'
<1>1. PICK u \in User : u = handler[c].user
  BY RunningFields DEF LoginSetConn
<1>2. /\ handler'[c] = [step |-> "ackLogin", user |-> u]
      /\ \A d \in Conn : d # c => handler'[d] = handler[d]
  BY <1>1 DEF LoginSetConn, Continue, TypeOK
<1>3. UNCHANGED <<isActivated, pushed, awaitingPosts, stale>>
  BY DEF LoginSetConn, mail, history
<1>4. ASSUME ~PostRaced(u)' PROVE KeptState(u)'
  <2>1. KeptState(u)
    BY <1>3, <1>4 DEF PostInv, PostRaced, Raced
  <2>2. c \in LoggingIn(u) /\ ~At(c, "drain") /\ ~At(c, "sendKept")
    BY <1>1 DEF LoggingIn, LoginSetConn, At
  <2>3. LoggingIn(u) = {c} /\ pushed[u] = 0
    BY <2>1, <2>2 DEF KeptState
  <2>4. LoggingIn(u)' = {c} /\ ~At(c, "drain")' /\ ~At(c, "sendKept")'
    BY <1>2, <2>3 DEF LoggingIn, At
  <2> QED  BY <1>3, <2>3, <2>4 DEF KeptState
<1>5. ASSUME NEW v \in User, v # u, ~PostRaced(v)' PROVE KeptState(v)'
  <2>1. handler'[c].user = u /\ handler[c].user = u
    BY <1>1, <1>2
  <2> QED  BY <1>2, <1>3, <1>5, <2>1, OtherUserKeepsPosts
<1> QED  BY <1>4, <1>5 DEF PostInv

LEMMA AckPosts ==
  ASSUME TypeOK, PostInv, NEW c \in Conn, LoginAck(c)
  PROVE  PostInv'
<1>1. PICK u \in User : u = handler[c].user
  BY RunningFields DEF LoginAck
<1>2. /\ \/ handler'[c].step = "idle" /\ awaitingPosts[u] = <<>>
         \/ handler'[c] = [step |-> "drain", user |-> u, next |-> 1]
      /\ \A d \in Conn : d # c => handler'[d] = handler[d]
  BY <1>1 DEF LoginAck, TypeOK, Idle
<1>3. UNCHANGED <<isActivated, pushed, awaitingPosts, stale>>
  BY DEF LoginAck, mail, status
<1>4. ASSUME ~PostRaced(u)' PROVE KeptState(u)'
  <2>1. KeptState(u)
    BY <1>3, <1>4 DEF PostInv, PostRaced, Raced
  <2>2. c \in LoggingIn(u) /\ ~At(c, "drain") /\ ~At(c, "sendKept")
    BY <1>1 DEF LoggingIn, LoginAck, At
  <2>3. LoggingIn(u) = {c} /\ pushed[u] = 0
    BY <2>1, <2>2 DEF KeptState
  <2>4. CASE handler'[c].step = "idle" /\ awaitingPosts[u] = <<>>
    <3>1. LoggingIn(u)' = {}
      BY <1>2, <2>3, <2>4 DEF LoggingIn
    <3>2. Len(awaitingPosts'[u]) = 0
      BY <1>3, <2>4
    <3> QED  BY <1>3, <2>3, <3>1, <3>2 DEF KeptState
  <2>5. CASE handler'[c] = [step |-> "drain", user |-> u, next |-> 1]
    <3>1. LoggingIn(u)' = {c} /\ handler'[c].next - 1 = 0 /\ At(c, "drain")' /\ ~At(c, "sendKept")'
      BY <1>2, <2>3, <2>5 DEF LoggingIn, At
    <3> QED  BY <1>3, <2>3, <3>1 DEF KeptState
  <2> QED  BY <1>2, <2>4, <2>5
<1>5. ASSUME NEW v \in User, v # u, ~PostRaced(v)' PROVE KeptState(v)'
  <2>1. handler[c].user = u /\ (handler'[c].step \in LoginSteps => handler'[c].user = u)
    BY <1>1, <1>2 DEF LoginSteps
  <2> QED  BY <1>2, <1>3, <1>5, <2>1, OtherUserKeepsPosts
<1> QED  BY <1>4, <1>5 DEF PostInv

LEMMA DrainPosts ==
  ASSUME TypeOK, LoopInv, PostInv, NEW c \in Conn, LoginDrain(c)
  PROVE  PostInv'
<1>1. PICK u \in User : u = handler[c].user
  BY RunningFields DEF LoginDrain
<1> DEFINE i == handler[c].next
           more == i < Len(awaitingPosts[u])
<1>2. i \in 1..Len(awaitingPosts[u]) /\ Len(awaitingPosts[u]) \in Nat
  BY <1>1 DEF LoginDrain, LoopInv, TypeOK
<1>3. /\ handler'[c] = [step |-> "sendKept", user |-> u, next |-> i, more |-> more,
                        to |-> connId[u]]
      /\ \A d \in Conn : d # c => handler'[d] = handler[d]
  BY <1>1 DEF LoginDrain, Continue, TypeOK
<1>4. UNCHANGED <<isActivated, pushed, awaitingPosts, stale>>
  BY DEF LoginDrain, shared, mail, status, history
<1> HIDE DEF i
<1>5. ASSUME ~PostRaced(u)' PROVE KeptState(u)'
  <2>1. KeptState(u)
    BY <1>4, <1>5 DEF PostInv, PostRaced, Raced
  <2>2. c \in LoggingIn(u) /\ At(c, "drain")
    BY <1>1 DEF LoggingIn, LoginDrain, At
  <2>3. LoggingIn(u) = {c} /\ pushed[u] = i - 1
    BY <2>1, <2>2 DEF KeptState, i
  <2>4. LoggingIn(u)' = {c} /\ At(c, "sendKept")'
    BY <1>3, <2>3 DEF LoggingIn, At
  <2>5. handler'[c].next = i /\ handler'[c].more = more
    BY <1>3
  <2>6. ~more => i = Len(awaitingPosts[u])
    BY <1>2
  <2> QED  BY <1>4, <2>3, <2>4, <2>5, <2>6 DEF KeptState
<1>6. ASSUME NEW v \in User, v # u, ~PostRaced(v)' PROVE KeptState(v)'
  <2>1. handler'[c].user = u /\ handler[c].user = u
    BY <1>1, <1>3
  <2> QED  BY <1>3, <1>4, <1>6, <2>1, OtherUserKeepsPosts
<1> QED  BY <1>5, <1>6 DEF PostInv

LEMMA KeptSendPosts ==
  ASSUME TypeOK, LoopInv, PostInv, NEW c \in Conn, LoginSend(c)
  PROVE  PostInv'
<1>1. PICK u \in User : u = handler[c].user
  BY RunningFields DEF LoginSend
<1> DEFINE i == handler[c].next
           more == handler[c].more
<1>2. i \in 1..Len(awaitingPosts[u]) /\ Len(awaitingPosts[u]) \in Nat
  BY <1>1 DEF LoginSend, LoopInv, TypeOK
<1>3. /\ \/ handler'[c].step = "idle" /\ ~more
         \/ handler'[c] = [step |-> "drain", user |-> u, next |-> i + 1]
      /\ \A d \in Conn : d # c => handler'[d] = handler[d]
  BY <1>1, <1>2 DEF LoginSend, TypeOK, Idle
<1>4. /\ UNCHANGED <<isActivated, awaitingPosts, stale>>
      /\ pushed' = [pushed EXCEPT ![u] = i]
  BY <1>1 DEF LoginSend, mail, status
<1> HIDE DEF i, more
<1>5. ASSUME ~PostRaced(u)' PROVE KeptState(u)'
  <2>1. KeptState(u)
    BY <1>4, <1>5 DEF PostInv, PostRaced, Raced
  <2>2. c \in LoggingIn(u) /\ At(c, "sendKept")
    BY <1>1 DEF LoggingIn, LoginSend, At
  <2>3. LoggingIn(u) = {c} /\ (isActivated[u] /\ ~more => i = Len(awaitingPosts[u]))
    BY <2>1, <2>2 DEF KeptState, i, more
  <2>4. pushed'[u] = i
    BY <1>4 DEF TypeOK
  <2>5. CASE handler'[c].step = "idle" /\ ~more
    <3>1. LoggingIn(u)' = {}
      BY <1>3, <2>3, <2>5 DEF LoggingIn
    <3> QED  BY <1>4, <2>3, <2>4, <2>5, <3>1 DEF KeptState
  <2>6. CASE handler'[c] = [step |-> "drain", user |-> u, next |-> i + 1]
    <3>1. LoggingIn(u)' = {c} /\ handler'[c].next - 1 = i /\ At(c, "drain")'
      BY <1>2, <1>3, <2>3, <2>6 DEF LoggingIn, At
    <3>2. ~At(c, "sendKept")'
      BY <3>1 DEF At
    <3> QED  BY <2>4, <3>1, <3>2 DEF KeptState
  <2> QED  BY <1>3, <2>5, <2>6
<1>6. ASSUME NEW v \in User, v # u, ~PostRaced(v)' PROVE KeptState(v)'
  <2>1. /\ handler[c].user = u /\ (handler'[c].step \in LoginSteps => handler'[c].user = u)
        /\ pushed'[v] = pushed[v]
    BY <1>1, <1>3, <1>4, <1>6 DEF LoginSteps, TypeOK
  <2> QED  BY <1>3, <1>4, <1>6, <2>1, OtherUserKeepsPosts
<1> QED  BY <1>5, <1>6 DEF PostInv

LEMMA DeactivatePosts ==
  ASSUME TypeOK, PostInv, NEW c \in Conn, LogoutDeactivate(c)
  PROVE  PostInv'
<1>1. PICK u \in User : u = handler[c].user
  BY RunningFields DEF LogoutDeactivate
<1>2. /\ handler[c].step \notin LoginSteps /\ handler'[c].step \notin LoginSteps
      /\ \A d \in Conn : d # c => handler'[d] = handler[d]
  BY DEF LogoutDeactivate, Finish, TypeOK, At, Idle, LoginSteps
<1>3. /\ isActivated' = [isActivated EXCEPT ![u] = FALSE]
      /\ pushed' = pushed /\ awaitingPosts' = awaitingPosts /\ stale \subseteq stale'
  BY <1>1 DEF LogoutDeactivate, NoteStale, mail
<1>4. \A v \in User : isActivated'[v] => isActivated[v]
  BY <1>3 DEF TypeOK
<1>5. ASSUME NEW v \in User, ~PostRaced(v)' PROVE KeptState(v)'
  <2>1. KeptState(v)
    BY <1>3, <1>5 DEF PostInv, PostRaced, Raced
  <2>2. LoggingIn(v)' = LoggingIn(v) /\ \A d \in LoggingIn(v) : handler'[d] = handler[d]
    BY <1>2 DEF LoggingIn, LoginSteps
  <2> QED  BY <1>3, <1>4, <2>1, <2>2 DEF KeptState, At
<1> QED  BY <1>5 DEF PostInv

LEMMA NextPostInv == IInv /\ PostInv /\ [Next]_vars => PostInv'
<1> SUFFICES ASSUME IInv, PostInv, [Next]_vars PROVE PostInv'
  OBVIOUS
<1>1. TypeOK /\ LoopInv
  BY DEF IInv, TypeInv
<1>2. ASSUME NEW c \in Conn, Request(c) PROVE PostInv'
  BY <1>1, <1>2, RequestMoves, RequestFree, FreeKeepsPosts
<1>3. ASSUME NEW c \in Conn, OtherAdvance(c), ~PostDeliver(c) PROVE PostInv'
  <2>1. awaitingPosts' = awaitingPosts
    BY <1>3 DEF OtherAdvance, RegisterPut, FollowAdd, UnfollowRemove, FollowCount, PostVisit,
                PostSend, PmCut, PmSend, BlockAdd, BlockDrop, mail
  <2> QED  BY <1>1, <1>3, <2>1, OtherFree, FreeKeepsPosts
<1>4. ASSUME NEW c \in Conn, Advance(c) PROVE PostInv'
  BY <1>1, <1>3, <1>4, DeliverPosts, ActivatePosts, SetConnPosts, AckPosts, DrainPosts,
     KeptSendPosts, DeactivatePosts DEF Advance, OtherAdvance
<1>5. CASE UNCHANGED vars
  <2>1. UNCHANGED <<isActivated, pushed, awaitingPosts, stale, handler>>
    BY <1>5 DEF vars, shared, status, mail, history
  <2>2. \A u \in User : LoggingIn(u)' = LoggingIn(u)
    BY <2>1 DEF LoggingIn
  <2>3. \A u \in User : KeptState(u) => KeptState(u)'
    BY <2>1, <2>2 DEF KeptState, At
  <2> QED  BY <2>1, <2>3 DEF PostInv, PostRaced, Raced
<1> QED  BY <1>2, <1>4, <1>5 DEF Next

(***************************************************************************)
(* Every post kept for a user has been sent to it by the end of its LOGIN, *)
(* unless a POST queued one, or another LOGIN activated the user, after    *)
(* its check had become false.                                             *)
(***************************************************************************)
THEOREM Pushed == Spec => []PostsPushed
<1>1. Init => PostInv
  <2> SUFFICES ASSUME Init, NEW u \in User PROVE KeptState(u)
    BY DEF PostInv
  <2>1. LoggingIn(u) = {} /\ ~isActivated[u]
    BY DEF Init, LoggingIn, Idle
  <2> QED  BY <2>1 DEF KeptState
<1>2. PostInv => PostsPushed
  BY DEF PostInv, PostRaced, PostsPushed, KeptState
<1> QED  BY <1>1, <1>2, NextPostInv, Invariance, PTL DEF Spec

-----------------------------------------------------------------------------
(* The keys of ActiveUsersMap *)

(***************************************************************************)
(* Only the scan of LOGIN begins an activation, only that of POST a loop.  *)
(***************************************************************************)
LEMMA RequestKinds ==
  ASSUME TypeOK, NEW c \in Conn, Request(c)
  PROVE  /\ handler'[c].step = "activate" =>
              \E n \in Name, valid \in BOOLEAN : LoginScan(c, n, valid)
         /\ handler'[c].step = "visit" => \E tags \in Tags : PostScan(c, tags)
<1> DEFINE Other == handler'[c].step \notin {"activate", "visit"}
<1>1. \A h : Continue(c, h) => handler'[c] = h
  BY DEF Continue, TypeOK
<1>2. \A sent : Finish(c, sent) => handler'[c] = Idle
  BY DEF Finish, TypeOK
<1>3. Idle.step = "idle"
  BY DEF Idle
<1>4. ASSUME NEW n \in Name, RegisterScan(c, n) PROVE Other
  BY <1>1, <1>2, <1>3, <1>4 DEF RegisterScan
<1>5. ASSUME NEW n \in Name, NEW valid \in BOOLEAN, LoginScan(c, n, valid)
      PROVE  handler'[c].step # "visit"
  BY <1>1, <1>2, <1>3, <1>5 DEF LoginScan
<1>6. ASSUME LogoutScan(c) PROVE Other
  BY <1>1, <1>2, <1>3, <1>6 DEF LogoutScan
<1>7. ASSUME NEW words \in Texts, FollowScan(c, words) \/ UnfollowScan(c, words) PROVE Other
  BY <1>1, <1>2, <1>3, <1>7 DEF FollowScan, UnfollowScan, FollowRequest
<1>8. ASSUME NEW tags \in Tags, PostScan(c, tags) PROVE handler'[c].step # "activate"
  BY <1>1, <1>2, <1>3, <1>8 DEF PostScan
<1>9. ASSUME NEW words \in Texts, PmScan(c, words) PROVE Other
  BY <1>1, <1>2, <1>3, <1>9 DEF PmScan
<1>10. ASSUME NEW words \in Texts, BlockScan(c, words) PROVE Other
  BY <1>1, <1>2, <1>3, <1>10 DEF BlockScan
<1>11. ASSUME Logstat(c) \/ Stat(c) PROVE Other
  BY <1>2, <1>3, <1>11 DEF Logstat, Stat
<1> QED  BY <1>4, <1>5, <1>6, <1>7, <1>8, <1>9, <1>10, <1>11 DEF Request

NameRaced(n) ==
  \E s \in 1..MaxSerial :
    Raced({"register"}, [username |-> n, serial |-> s], [username |-> n, serial |-> s])

\* u is among the objects that were put under its name
Put(u) == u.serial <= usersMap[u.username]

Present(u) == LoggingIn(u) # {} \/ \E c \in Conn : u \in session[c]

Finding(c) == Has(handler[c].user.username, handler[c].name) /\ Put(handler[c].user)

(***************************************************************************)
(* A second User under one name is put only by a REGISTER whose check had  *)
(* become false, so that the one that LOGIN found is the only one; and the *)
(* entry of a name that is in no other is made by its own LOGIN alone.     *)
(***************************************************************************)
IndexInv ==
  /\ \A n \in Name : usersMap[n] > 1 => NameRaced(n)
  /\ \A c \in Conn : At(c, "activate") => Finding(c)
  /\ \A u \in User : Present(u) =>
       /\ Put(u)
       /\ Distinct(u.username) => activeUsersMap[u.username] = u \/ NameRaced(u.username)

\* steps that enter nobody into the map and begin no session
LEMMA IndexKept ==
  ASSUME TypeOK, TypeOK', IndexInv, activeUsersMap' = activeUsersMap, stale \subseteq stale',
         \A n \in Name : usersMap[n] <= usersMap'[n],
         \A n \in Name : usersMap'[n] > 1 => NameRaced(n)',
         \A u \in User : Present(u)' => Present(u),
         \A c \in Conn : At(c, "activate")' => handler'[c] = handler[c] \/ Finding(c)'
  PROVE  IndexInv'
<1>1. \A n : NameRaced(n) => NameRaced(n)'
  BY DEF NameRaced, Raced
<1>2. ASSUME NEW u \in User, Put(u) PROVE Put(u)'
  <2>1. u.username \in Name /\ u.serial \in Nat
    BY DEF User
  <2>2. usersMap[u.username] \in Nat /\ usersMap'[u.username] \in Nat
    BY <2>1, ParameterAssumption DEF TypeOK
  <2> QED  BY <1>2, <2>1, <2>2 DEF Put
<1>3. ASSUME NEW c \in Conn, At(c, "activate")' PROVE Finding(c)'
  <2>1. CASE handler'[c] = handler[c]
    <3>1. At(c, "activate") /\ handler[c].user \in User
      BY <1>3, <2>1, RunningFields DEF At
    <3>2. Put(handler[c].user)' /\ Has(handler[c].user.username, handler[c].name)
      BY <1>2, <2>1, <3>1 DEF IndexInv, Finding, Put
    <3> QED  BY <2>1, <3>2 DEF Finding, Put
  <2> QED  BY <1>3, <2>1
<1>4. ASSUME NEW u \in User, Present(u)'
      PROVE  /\ Put(u)'
             /\ Distinct(u.username) => activeUsersMap'[u.username] = u \/ NameRaced(u.username)'
  BY <1>1, <1>2, <1>4 DEF IndexInv
<1> QED  BY <1>3, <1>4 DEF IndexInv

LEMMA RequestIndex ==
  ASSUME TypeOK, TypeOK', IndexInv, NEW c \in Conn, Request(c)
  PROVE  IndexInv'
<1>1. UNCHANGED <<usersMap, activeUsersMap, stale, session>>
  BY RequestMoves DEF maps, history
<1>2. \A n \in Name : usersMap[n] \in Nat /\ NameRaced(n)' = NameRaced(n)
  BY <1>1, ParameterAssumption DEF TypeOK, NameRaced, Raced
<1>3. ASSUME NEW u \in User, Present(u)' PROVE Present(u)
  <2>1. LoggingIn(u)' = LoggingIn(u)
    BY RequestFree, FreeKeepsLogins
  <2> QED  BY <1>1, <1>3, <2>1 DEF Present
<1>4. ASSUME At(c, "activate")' PROVE Finding(c)'
  <2>1. PICK n \in Name, valid \in BOOLEAN : LoginScan(c, n, valid)
    BY <1>4, RequestKinds DEF At
  <2> DEFINE m == FirstOf[Matching(n)]
  <2>2. Matching(n) # {} /\ Continue(c, [step |-> "activate", user |-> UserOf(m), name |-> n])
    BY <1>4, <2>1 DEF LoginScan, Finish, At, Idle, TypeOK
  <2>3. m \in Matching(n)
    BY <2>2, LookupTypes DEF Matching, Registered
  <2>4. m \in Name /\ Has(m, n)
    BY <2>3 DEF Matching, Registered
  <2>5. handler'[c] = [step |-> "activate", user |-> UserOf(m), name |-> n]
    BY <2>2 DEF Continue, TypeOK
  <2>6. UserOf(m).username = m /\ UserOf(m).serial = usersMap[m]
    BY DEF UserOf
  <2>7. Put(UserOf(m)) /\ Has(UserOf(m).username, n)
    BY <1>2, <2>4, <2>6 DEF Put
  <2> HIDE DEF m
  <2>8. handler'[c].user = UserOf(m) /\ handler'[c].name = n
    BY <2>5
  <2>9. usersMap'[handler'[c].user.username] = usersMap[UserOf(m).username]
    BY <1>1, <2>8
  <2> QED  BY <2>7, <2>8, <2>9 DEF Finding, Put
<1>5. \A d \in Conn : At(d, "activate")' => handler'[d] = handler[d] \/ Finding(d)'
  BY <1>4, RequestMoves
<1>6. \A n \in Name : usersMap'[n] > 1 => NameRaced(n)'
  BY <1>1, <1>2 DEF IndexInv
<1>7. \A n \in Name : usersMap[n] <= usersMap'[n]
  BY <1>1, <1>2
<1> QED  BY <1>1, <1>3, <1>5, <1>6, <1>7, IndexKept

\* a put over an account is a REGISTER whose check had become false
LEMMA RegisterPutIndex ==
  ASSUME TypeOK, TypeOK', IndexInv, NEW c \in Conn, RegisterPut(c)
  PROVE  IndexInv'
<1>1. PICK n \in Name : n = handler[c].name
  BY RunningFields DEF RegisterPut
<1> DEFINE u == [username |-> n, serial |-> usersMap[n] + 1]
<1>2. /\ usersMap' = [usersMap EXCEPT ![n] = @ + 1] /\ NoteStale(c, u, u)
      /\ activeUsersMap' = activeUsersMap /\ session' = session
  BY <1>1 DEF RegisterPut
<1>3. stale \subseteq stale'
  BY <1>2 DEF NoteStale
<1>4. \A m \in Name : usersMap[m] \in Nat
  BY ParameterAssumption DEF TypeOK
<1>5. usersMap'[n] = usersMap[n] + 1 /\ \A m \in Name : m # n => usersMap'[m] = usersMap[m]
  BY <1>2 DEF TypeOK
<1>6. \A m \in Name : usersMap[m] <= usersMap'[m]
  BY <1>4, <1>5
<1>7. ASSUME usersMap'[n] > 1 PROVE NameRaced(n)'
  <2>1. usersMap[n] > 0
    BY <1>4, <1>5, <1>7
  <2>2. n \in Matching(n)
    BY <2>1, NameAssumption DEF Matching, Registered, Has
  <2>3. ~CheckHolds(c) /\ handler[c].step = "register"
    BY <1>1, <2>2 DEF CheckHolds, RegisterPut, At
  <2>4. <<"register", u, u>> \in stale'
    BY <1>2, <2>3 DEF NoteStale
  <2>5. usersMap[n] + 1 \in 1..MaxSerial
    BY <1>4, <1>5, ParameterAssumption DEF TypeOK
  <2> QED  BY <2>4, <2>5 DEF NameRaced, Raced
<1>8. \A m : NameRaced(m) => NameRaced(m)'
  BY <1>3 DEF NameRaced, Raced
<1>9. \A m \in Name : usersMap'[m] > 1 => NameRaced(m)'
  BY <1>5, <1>7, <1>8 DEF IndexInv
<1>10. LoginFree(c)
  BY OtherFree DEF OtherAdvance
<1>11. \A v \in User : Present(v)' => Present(v)
  BY <1>2, <1>10, FreeKeepsLogins DEF Present
<1>12. handler'[c] = Idle /\ \A d \in Conn : d # c => handler'[d] = handler[d]
  BY DEF RegisterPut, Finish, TypeOK
<1>13. \A d \in Conn : At(d, "activate")' => handler'[d] = handler[d]
  BY <1>12 DEF At, Idle
<1> HIDE DEF u
<1> QED  BY <1>2, <1>3, <1>6, <1>9, <1>11, <1>13, IndexKept

LEMMA ActivateIndex ==
  ASSUME TypeOK, IndexInv, NEW c \in Conn, LoginActivate(c)
  PROVE  IndexInv'
<1>1. PICK w \in User, k \in Name : w = handler[c].user /\ k = handler[c].name
  BY RunningFields DEF LoginActivate
<1>2. Has(w.username, k) /\ Put(w)
  BY <1>1 DEF LoginActivate, IndexInv, Finding
<1>3. /\ handler'[c] = [step |-> "setConn", user |-> w]
      /\ \A d \in Conn : d # c => handler'[d] = handler[d]
  BY <1>1 DEF LoginActivate, Continue, TypeOK
<1>4. /\ activeUsersMap' = [activeUsersMap EXCEPT ![k] = w]
      /\ usersMap' = usersMap /\ session' = session /\ stale \subseteq stale'
  BY <1>1 DEF LoginActivate, NoteStale
<1>5. \A n : NameRaced(n) => NameRaced(n)'
  BY <1>4 DEF NameRaced, Raced
<1>6. \A u \in User : Present(u)' => Present(u) \/ u = w
  BY <1>3, <1>4 DEF Present, LoggingIn
<1>7. \A u \in User : u.username \in Name /\ u.serial \in 1..MaxSerial
  BY DEF User
<1>8. ASSUME NEW u \in User, Present(u)', Distinct(u.username), ~NameRaced(u.username)'
      PROVE  activeUsersMap'[u.username] = u
  <2>1. Put(u)
    BY <1>2, <1>6, <1>8 DEF IndexInv
  <2>2. CASE k = u.username
    <3>1. w.username = u.username
      BY <1>2, <1>7, <1>8, <2>2 DEF Distinct, Has
    <3>2. usersMap[u.username] \in Nat /\ ~(usersMap[u.username] > 1)
      BY <1>5, <1>7, <1>8, ParameterAssumption DEF IndexInv, TypeOK
    <3>3. w.serial = u.serial
      BY <1>2, <1>7, <2>1, <3>1, <3>2 DEF Put
    <3>4. w = u
      BY <3>1, <3>3 DEF User
    <3> QED  BY <1>4, <2>2, <3>4 DEF TypeOK
  <2>3. CASE k # u.username
    <3>1. u # w
      BY <1>2, <1>8, <2>3 DEF Distinct, Has
    <3>2. activeUsersMap'[u.username] = activeUsersMap[u.username]
      BY <1>4, <1>7, <2>3 DEF TypeOK
    <3> QED  BY <1>5, <1>6, <1>8, <3>1, <3>2 DEF IndexInv
  <2> QED  BY <2>2, <2>3
<1>9. \A u \in User : Present(u)' => Put(u)'
  BY <1>2, <1>4, <1>6 DEF IndexInv, Put
<1>10. \A n \in Name : usersMap'[n] > 1 => NameRaced(n)'
  BY <1>4, <1>5 DEF IndexInv
<1>11. \A d \in Conn : At(d, "activate")' => Finding(d)'
  BY <1>3, <1>4 DEF IndexInv, Finding, Put, At
<1> QED  BY <1>8, <1>9, <1>10, <1>11 DEF IndexInv

\* the remaining steps of LOGIN and LOGOUT are of users that are present
LEMMA SessionStepIndex ==
  ASSUME TypeOK, TypeOK', IndexInv, NEW c \in Conn,
         LoginSetConn(c) \/ LoginAck(c) \/ LoginDrain(c) \/ LoginSend(c) \/ LogoutDeactivate(c)
  PROVE  IndexInv'
<1>1. PICK w \in User : w = handler[c].user
  BY RunningFields DEF LoginSetConn, LoginAck, LoginDrain, LoginSend, LogoutDeactivate
<1>2. UNCHANGED <<usersMap, activeUsersMap>> /\ stale \subseteq stale'
  BY DEF LoginSetConn, LoginAck, LoginDrain, LoginSend, LogoutDeactivate, NoteStale, maps, history,
         shared
<1>3. /\ handler'[c].step \in {"idle", "ackLogin", "drain", "sendKept"}
      /\ handler'[c].step # "idle" => c \in LoggingIn(w) /\ handler'[c].user = w
      /\ \A d \in Conn : d # c => handler'[d] = handler[d]
  <2>1. CASE LoginSetConn(c)
    BY <1>1, <2>1 DEF LoginSetConn, Continue, TypeOK, LoggingIn, At
  <2>2. CASE LoginAck(c)
    BY <1>1, <2>2 DEF LoginAck, TypeOK, LoggingIn, At, Idle
  <2>3. CASE LoginDrain(c)
    BY <1>1, <2>3 DEF LoginDrain, Continue, TypeOK, LoggingIn, At
  <2>4. CASE LogoutDeactivate(c)
    BY <2>4 DEF LogoutDeactivate, Finish, TypeOK, Idle
  <2>5. CASE LoginSend(c)
    BY <1>1, <2>5 DEF LoginSend, TypeOK, LoggingIn, At, Idle
  <2> QED  BY <2>1, <2>2, <2>3, <2>4, <2>5
<1>4. \A v \in User, d \in Conn : v \in session'[d] => v \in session[d] \/ Present(v)
  <2>1. CASE LoginAck(c)
    <3>1. c \in LoggingIn(w)
      BY <1>1, <2>1 DEF LoginAck, At, LoggingIn
    <3> QED  BY <1>1, <2>1, <3>1 DEF LoginAck, Present, TypeOK
  <2>2. CASE LogoutDeactivate(c)
    BY <2>2 DEF LogoutDeactivate, TypeOK
  <2>3. CASE LoginSetConn(c) \/ LoginDrain(c) \/ LoginSend(c)
    BY <2>3 DEF LoginSetConn, LoginDrain, LoginSend, shared, history
  <2> QED  BY <2>1, <2>2, <2>3
<1>5. ASSUME NEW v \in User, LoggingIn(v)' # {} PROVE LoggingIn(v) # {}
  <2>1. PICK d \in Conn : handler'[d].step \in LoginSteps /\ handler'[d].user = v
    BY <1>5 DEF LoggingIn, LoginSteps
  <2>2. CASE d = c
    BY <1>3, <2>1, <2>2 DEF LoginSteps
  <2>3. CASE d # c
    BY <1>3, <2>1, <2>3 DEF LoggingIn, LoginSteps
  <2> QED  BY <2>2, <2>3
<1>6. \A v \in User : Present(v)' => Present(v)
  BY <1>4, <1>5 DEF Present
<1>7. \A d \in Conn : At(d, "activate")' => handler'[d] = handler[d]
  BY <1>3 DEF At
<1>8. \A n \in Name : usersMap'[n] > 1 => NameRaced(n)'
  BY <1>2 DEF IndexInv, NameRaced, Raced
<1>9. \A n \in Name : usersMap[n] <= usersMap'[n]
  BY <1>2, ParameterAssumption DEF TypeOK
<1> QED  BY <1>2, <1>6, <1>7, <1>8, <1>9, IndexKept

\* the other handlers do not touch the map
LEMMA OtherIndex ==
  ASSUME TypeOK, TypeOK', IndexInv, NEW c \in Conn, OtherAdvance(c), ~RegisterPut(c)
  PROVE  IndexInv'
<1>1. UNCHANGED <<usersMap, activeUsersMap>>
  BY DEF OtherAdvance, FollowAdd, UnfollowRemove, FollowCount, PostVisit, PostDeliver, PostSend,
         PmCut, PmSend, BlockAdd, BlockDrop, maps
<1>2. LoginFree(c)
  BY OtherFree
<1>3. \A u \in User : Present(u)' => Present(u)
  BY <1>2, FreeKeepsLogins DEF Present, LoginFree
<1>4. stale \subseteq stale' /\ \A d \in Conn : d # c => handler'[d] = handler[d]
  BY <1>2 DEF LoginFree
<1>5. handler'[c].step # "activate"
  BY AdvanceKinds DEF Advance, OtherAdvance
<1>6. \A d \in Conn : At(d, "activate")' => handler'[d] = handler[d]
  BY <1>4, <1>5 DEF At
<1>7. \A n \in Name : usersMap'[n] > 1 => NameRaced(n)'
  BY <1>1, <1>4 DEF IndexInv, NameRaced, Raced
<1>8. \A n \in Name : usersMap[n] <= usersMap'[n]
  BY <1>1, ParameterAssumption DEF TypeOK
<1> QED  BY <1>1, <1>3, <1>4, <1>6, <1>7, <1>8, IndexKept

LEMMA NextIndexInv == TypeOK /\ TypeOK' /\ IndexInv /\ [Next]_vars => IndexInv'
<1> SUFFICES ASSUME TypeOK, TypeOK', IndexInv, [Next]_vars PROVE IndexInv'
  OBVIOUS
<1>1. ASSUME NEW c \in Conn, Request(c) PROVE IndexInv'
  BY <1>1, RequestIndex
<1>2. ASSUME NEW c \in Conn, Advance(c) PROVE IndexInv'
  BY <1>2, RegisterPutIndex, ActivateIndex, SessionStepIndex, OtherIndex DEF Advance, OtherAdvance
<1>3. CASE UNCHANGED vars
  <2>1. UNCHANGED <<usersMap, activeUsersMap, session, stale, handler>>
    BY <1>3 DEF vars, shared, maps, history
  <2>2. \A u \in User : Present(u)' => Present(u)
    BY <2>1 DEF Present, LoggingIn
  <2>3. \A n \in Name : usersMap'[n] > 1 => NameRaced(n)'
    BY <2>1 DEF IndexInv, NameRaced, Raced
  <2>4. \A n \in Name : usersMap[n] <= usersMap'[n]
    BY <2>1, ParameterAssumption DEF TypeOK
  <2> QED  BY <2>1, <2>2, <2>3, <2>4, IndexKept
<1> QED  BY <1>1, <1>2, <1>3 DEF Next

(***************************************************************************)
(* A logged-in user whose name neither contains another nor occurs in one  *)
(* is found in ActiveUsersMap, whatever others type at LOGIN, unless a     *)
(* racing REGISTER replaced an account of its name.                        *)
(***************************************************************************)
THEOREM Indexed == Spec => []SessionIsIndexed
<1>1. Init => IndexInv
  BY DEF Init, IndexInv, Present, LoggingIn, At, Idle
<1>2. TypeOK /\ IndexInv => SessionIsIndexed
  <2> SUFFICES ASSUME TypeOK, IndexInv, NEW c \in Conn, NEW u \in session[c], Distinct(u.username)
               PROVE  (\E k \in Name : activeUsersMap[k] = u) \/ NameRaced(u.username)
    BY DEF SessionIsIndexed, NameRaced
  <2>1. u \in User /\ u.username \in Name /\ Present(u)
    BY DEF TypeOK, User, Present
  <2> QED  BY <2>1 DEF IndexInv
<1> QED  BY <1>1, <1>2, NextIndexInv, Typing, PTL DEF Spec

-----------------------------------------------------------------------------
(* The two loops of POST *)

\* u is being addressed
Pending(h, u) == h.step \in {"deliver", "sendPost"} /\ h.other = u

(***************************************************************************)
(* A user of the queue is taken out once for each of its entries, and the  *)
(* check of the first loop keeps these users apart from the followers; a   *)
(* follower has no entry, and is addressed when its name leaves the loop   *)
(* over the users.  Nobody in the queue is addressed before this loop      *)
(* ends.                                                                   *)
(***************************************************************************)
Addressing(h) ==
  /\ h.post.left # {} => \A u \in h.post.free : h.post.tagged[u] > 0
  /\ \A u \in h.post.free :
       /\ h.post.tagged[u] <= h.post.due[u]
       /\ Pending(h, u) => h.post.tagged[u] < h.post.due[u]
  /\ \A u \in User \ h.post.free :
       /\ h.post.tagged[u] = 0
       /\ u.username \in h.post.left \/ Pending(h, u) => h.post.due[u] > 0
       /\ Pending(h, u) => u.username \notin h.post.left

Looping(c) == At(c, "visit") \/ At(c, "deliver") \/ At(c, "sendPost")

AddressedOf(c) == Raced({"visit"}, handler[c].user, handler[c].user) \/ Addressing(handler[c])

AddressInv == \A c \in Conn : Looping(c) => AddressedOf(c)

\* the handlers that did not move go on as before
LEMMA OthersAddressed ==
  ASSUME AddressInv, NEW c \in Conn, \A d \in Conn : d # c => handler'[d] = handler[d],
         stale \subseteq stale', Looping(c)' => AddressedOf(c)'
  PROVE  AddressInv'
<1>1. ASSUME NEW d \in Conn, d # c, Looping(d)' PROVE AddressedOf(d)'
  <2>1. handler'[d] = handler[d]
    BY <1>1
  <2>2. Looping(d) /\ AddressedOf(d)
    BY <1>1, <2>1 DEF AddressInv, Looping, At
  <2> QED  BY <2>1, <2>2 DEF AddressedOf, Raced
<1> QED  BY <1>1 DEF AddressInv

LEMMA RequestAddressed ==
  ASSUME TypeOK, AddressInv, NEW c \in Conn, Request(c)
  PROVE  AddressInv'
<1>1. ASSUME Looping(c)' PROVE AddressedOf(c)'
  <2>1. handler'[c].step = "visit"
    BY <1>1, RequestMoves DEF Looping, At, ScanSteps
  <2>2. PICK tags \in Tags : PostScan(c, tags)
    BY <2>1, RequestKinds
  <2> DEFINE count == Tagged(tags)
             free == {u \in User : count[u] > 0 /\ ~Follows(u, Me(c))}
             post == [left |-> Registered, free |-> free,
                      tagged |-> [u \in User |-> IF u \in free THEN count[u] ELSE 0],
                      due |-> [u \in User |-> IF u \in free THEN count[u] ELSE 1]]
             h == [step |-> "visit", user |-> Me(c), post |-> post]
  <2>3. handler'[c] = h
    <3>1. Continue(c, h) \/ Finish(c, {Reply(c, "ERROR", "POST")})
      BY <2>2 DEF PostScan
    <3> HIDE DEF h
    <3>2. ~Finish(c, {Reply(c, "ERROR", "POST")})
      BY <2>1 DEF Finish, Idle, TypeOK
    <3> QED  BY <3>1, <3>2 DEF Continue, TypeOK
  <2>4. count \in [User -> Nat]
    BY TaggedType, ParameterAssumption
  <2>5. Addressing(h)
    <3> HIDE DEF count
    <3>1. \A u \in User : ~Pending(h, u)
      BY DEF Pending
    <3>2. free \subseteq User /\ \A u \in free : count[u] > 0
      OBVIOUS
    <3> HIDE DEF free
    <3>3. /\ h.post.free = free
          /\ \A u \in free : h.post.tagged[u] = count[u] /\ h.post.due[u] = count[u]
          /\ \A u \in User \ free : h.post.tagged[u] = 0 /\ h.post.due[u] = 1
      BY <3>2
    <3> HIDE DEF h
    <3> QED  BY <2>4, <3>1, <3>2, <3>3 DEF Addressing
  <2> HIDE DEF h
  <2> QED  BY <2>3, <2>5 DEF AddressedOf
<1> QED  BY <1>1, RequestMoves, OthersAddressed DEF history

\* one turn of either loop picks a user that is to be addressed
LEMMA VisitAddressed ==
  ASSUME TypeOK, LoopInv, AddressInv, NEW c \in Conn, PostVisit(c)
  PROVE  AddressInv'
<1> DEFINE h == handler[c]
           g == handler'[c]
           n == FirstOf[h.post.left]
<1>1. At(c, "visit") /\ handler[c].step = "visit"
  BY DEF PostVisit, At
<1>2. h.user \in User /\ h.post \in Post
  BY <1>1, RunningFields
<1>3. /\ h.post.left \in SUBSET Name /\ h.post.tagged \in [User -> Nat]
      /\ h.post.free \in SUBSET User /\ h.post.due \in [User -> Nat]
  BY <1>2, PostFields
<1>4. stale \subseteq stale' /\ \A d \in Conn : d # c => handler'[d] = handler[d]
  BY OtherFree DEF LoginFree, OtherAdvance
<1>5. h.post.left # {} => n \in h.post.left /\ n \in Registered
  BY <1>1, <1>3, OrderAssumption DEF LoopInv
<1>6. h.post.left # {} => UserOf(n) \in User /\ UserOf(n).username = n
  BY <1>5 DEF UserOf, User, Registered, TypeOK
<1>7. ASSUME Looping(c)', ~Raced({"visit"}, h.user, h.user)' PROVE Addressing(g)
  <2>1. /\ g.step \in {"visit", "deliver"} /\ g.user = h.user
        /\ g.post.free = h.post.free /\ g.post.due = h.post.due
    BY <1>7, VisitSteps DEF Looping, At
  <2>2. CheckHolds(c)
    BY <1>1, <1>7, <2>1 DEF PostVisit, NoteStale, Raced
  <2>3. \A u \in h.post.free : h.post.tagged[u] > 0 => ~Follows(u, h.user)
    BY <1>1, <2>2 DEF CheckHolds
  <2>4. Addressing(h)
    BY <1>1, <1>4, <1>7, <2>1 DEF AddressInv, AddressedOf, Looping, Raced
  <2>5. \/ /\ h.post.left # {} /\ g.post.left = h.post.left \ {n}
           /\ g.post.tagged = h.post.tagged
           /\ g.step = "deliver" => Follows(UserOf(n), h.user) /\ g.other = UserOf(n)
        \/ /\ h.post.left = {} /\ g.post.left = {} /\ g.step = "deliver"
           /\ g.other \in User /\ h.post.tagged[g.other] > 0
           /\ g.post.tagged = [h.post.tagged EXCEPT ![g.other] = @ - 1]
    BY <2>1, VisitSteps
  <2> HIDE DEF h, g, n
  <2>6. CASE /\ h.post.left # {} /\ g.post.left = h.post.left \ {n}
             /\ g.post.tagged = h.post.tagged
             /\ g.step = "deliver" => Follows(UserOf(n), h.user) /\ g.other = UserOf(n)
    <3>1. \A u \in User : Pending(g, u) => u = UserOf(n) /\ u \notin h.post.free
      BY <2>1, <2>3, <2>4, <2>6 DEF Pending, Addressing
    <3>2. \A u \in User : Pending(g, u) => u.username \in h.post.left /\ u.username \notin g.post.left
      BY <1>5, <1>6, <2>6, <3>1
    <3>3. \A u \in User : u.username \in g.post.left => u.username \in h.post.left
      BY <2>6
    <3>4. g.post.left # {} => \A u \in g.post.free : g.post.tagged[u] > 0
      BY <2>1, <2>4, <2>6 DEF Addressing
    <3>5. ASSUME NEW u \in g.post.free
          PROVE  g.post.tagged[u] <= g.post.due[u] /\ ~Pending(g, u)
      BY <1>3, <2>1, <2>4, <2>6, <3>1, <3>5 DEF Addressing
    <3>6. ASSUME NEW u \in User \ g.post.free
          PROVE  /\ g.post.tagged[u] = 0
                 /\ u.username \in g.post.left \/ Pending(g, u) => g.post.due[u] > 0
                 /\ Pending(g, u) => u.username \notin g.post.left
      BY <2>1, <2>4, <2>6, <3>2, <3>3, <3>6 DEF Addressing
    <3> QED  BY <3>4, <3>5, <3>6 DEF Addressing
  <2>7. CASE /\ h.post.left = {} /\ g.post.left = {} /\ g.step = "deliver"
             /\ g.other \in User /\ h.post.tagged[g.other] > 0
             /\ g.post.tagged = [h.post.tagged EXCEPT ![g.other] = @ - 1]
    <3>1. g.other \in h.post.free
      BY <2>4, <2>7 DEF Addressing
    <3>2. ASSUME NEW u \in User
          PROVE  g.post.tagged[u] = IF u = g.other THEN h.post.tagged[u] - 1 ELSE h.post.tagged[u]
      BY <1>3, <2>7, <3>2
    <3>3. \A u \in User : Pending(g, u) <=> u = g.other
      BY <2>7 DEF Pending
    <3>4. ASSUME NEW u \in g.post.free
          PROVE  /\ g.post.tagged[u] <= g.post.due[u]
                 /\ Pending(g, u) => g.post.tagged[u] < g.post.due[u]
      <4>1. u \in h.post.free /\ u \in User
        BY <1>3, <2>1, <3>4
      <4>2. h.post.tagged[u] \in Nat /\ h.post.due[u] \in Nat /\ g.post.due[u] = h.post.due[u]
        BY <1>3, <2>1, <4>1
      <4>3. h.post.tagged[u] <= h.post.due[u]
        BY <2>4, <4>1 DEF Addressing
      <4> QED  BY <3>2, <3>3, <4>1, <4>2, <4>3
    <3>5. ASSUME NEW u \in User \ g.post.free
          PROVE  g.post.tagged[u] = 0 /\ ~Pending(g, u)
      BY <2>1, <2>4, <3>1, <3>2, <3>3, <3>5 DEF Addressing
    <3> QED  BY <2>7, <3>4, <3>5 DEF Addressing
  <2> QED  BY <2>5, <2>6, <2>7
<1> QED  BY <1>4, <1>7, OthersAddressed DEF AddressedOf

\* an addressee that has its due leaves the others theirs
LEMMA OnAddressed ==
  ASSUME NEW h, h.post \in Post, NEW u \in User, Pending(h, u), Addressing(h)
  PROVE  Addressing(OnFrom(h, u))
<1> DEFINE g == OnFrom(h, u)
<1>1. /\ h.post.left \in SUBSET Name /\ h.post.tagged \in [User -> Nat]
      /\ h.post.free \in SUBSET User /\ h.post.due \in [User -> Nat]
  BY PostFields
<1>2. /\ g.step = "visit" /\ g.post.left = h.post.left /\ g.post.tagged = h.post.tagged
      /\ g.post.free = h.post.free
  BY OnSteps
<1>3. g.post.due = [h.post.due EXCEPT ![u] = IF @ > 0 THEN @ - 1 ELSE 0]
  BY DEF OnFrom, Post
<1> HIDE DEF g
<1>4. \A v \in User : ~Pending(g, v)
  BY <1>2 DEF Pending
<1>5. ASSUME NEW v \in User, v # u PROVE g.post.due[v] = h.post.due[v]
  BY <1>1, <1>3, <1>5
<1>6. u \in h.post.free => g.post.tagged[u] <= g.post.due[u]
  <2> SUFFICES ASSUME u \in h.post.free PROVE g.post.tagged[u] <= g.post.due[u]
    OBVIOUS
  <2>1. h.post.tagged[u] < h.post.due[u] /\ h.post.tagged[u] \in Nat /\ h.post.due[u] \in Nat
    BY <1>1 DEF Addressing
  <2>2. g.post.due[u] = h.post.due[u] - 1
    BY <1>1, <1>3, <2>1
  <2> QED  BY <1>2, <2>1, <2>2
<1>7. \A v \in g.post.free : g.post.tagged[v] <= g.post.due[v]
  BY <1>1, <1>2, <1>5, <1>6 DEF Addressing
<1>8. \A v \in User \ g.post.free :
        g.post.tagged[v] = 0 /\ (v.username \in g.post.left => g.post.due[v] > 0)
  BY <1>2, <1>5 DEF Addressing
<1>9. Addressing(g)
  <2>1. g.post.left # {} => \A v \in g.post.free : g.post.tagged[v] > 0
    BY <1>2 DEF Addressing
  <2>2. g.post.free \subseteq User
    BY <1>1, <1>2
  <2> QED  BY <1>4, <1>7, <1>8, <2>1, <2>2 DEF Addressing
<1> QED  BY <1>9 DEF g

LEMMA DeliverAddressed ==
  ASSUME TypeOK, AddressInv, NEW c \in Conn, PostDeliver(c) \/ PostSend(c)
  PROVE  AddressInv'
<1> DEFINE h == handler[c]
<1>1. h.step \in {"deliver", "sendPost"} /\ Looping(c)
  BY DEF PostDeliver, PostSend, At, Looping
<1>2. h.post \in Post /\ h.other \in User
  BY RunningFields DEF PostDeliver, PostSend
<1>3. stale \subseteq stale' /\ \A d \in Conn : d # c => handler'[d] = handler[d]
  BY OtherFree DEF LoginFree, OtherAdvance
<1>4. \/ handler'[c] = OnFrom(h, h.other)
      \/ handler'[c] = [step |-> "sendPost", user |-> h.user, post |-> h.post, other |-> h.other,
                        online |-> TRUE, to |-> connId[h.other]]
  BY DEF PostDeliver, PostSend, Continue, TypeOK
<1>5. handler'[c].user = h.user
  BY <1>2, <1>4, OnSteps
<1>6. ASSUME Addressing(h) PROVE Addressing(handler'[c])
  <2>1. CASE handler'[c] = OnFrom(h, h.other)
    BY <1>1, <1>2, <1>6, <2>1, OnAddressed DEF Pending
  <2>2. CASE handler'[c] = [step |-> "sendPost", user |-> h.user, post |-> h.post,
                            other |-> h.other, online |-> TRUE, to |-> connId[h.other]]
    <3>1. handler'[c].post = h.post /\ handler'[c].other = h.other /\ handler'[c].step = "sendPost"
      BY <2>2
    <3>2. \A u : Pending(handler'[c], u) <=> Pending(h, u)
      BY <1>1, <3>1 DEF Pending
    <3> QED  BY <1>6, <3>1, <3>2 DEF Addressing
  <2> QED  BY <1>4, <2>1, <2>2
<1>7. AddressedOf(c)'
  BY <1>1, <1>3, <1>5, <1>6 DEF AddressedOf, AddressInv, Raced
<1> QED  BY <1>3, <1>7, OthersAddressed

LEMMA NextAddressInv == IInv /\ AddressInv /\ [Next]_vars => AddressInv'
<1> SUFFICES ASSUME IInv, AddressInv, [Next]_vars PROVE AddressInv'
  OBVIOUS
<1>1. TypeOK /\ LoopInv
  BY DEF IInv, TypeInv
<1>2. ASSUME NEW c \in Conn, Request(c) PROVE AddressInv'
  BY <1>1, <1>2, RequestAddressed
<1>3. ASSUME NEW c \in Conn, Advance(c) PROVE AddressInv'
  <2>1. ASSUME ~PostVisit(c), ~PostDeliver(c), ~PostSend(c) PROVE AddressInv'
    <3>1. /\ \A d \in Conn : d # c => handler'[d] = handler[d]
          /\ stale \subseteq stale' /\ ~Looping(c)'
      BY <1>1, <1>3, <2>1, AdvanceKinds DEF Looping, At
    <3> QED  BY <3>1, OthersAddressed
  <2> QED  BY <1>1, <2>1, VisitAddressed, DeliverAddressed
<1>4. CASE UNCHANGED vars
  BY <1>4 DEF AddressInv, Looping, AddressedOf, Raced, At, vars, shared, history
<1> QED  BY <1>2, <1>3, <1>4 DEF Next

(***************************************************************************)
(* A POST addresses a follower of its author once and another user once    *)
(* for each tag that matches it, and nobody as both, unless a tagged user  *)
(* began to follow the author in between.                                  *)
(***************************************************************************)
THEOREM Addressed == Spec => []AddressedAsDue
<1>1. Init => AddressInv
  BY DEF Init, AddressInv, Looping, At, Idle
<1>2. TypeOK /\ AddressInv => AddressedAsDue
  <2> SUFFICES ASSUME TypeOK, AddressInv, NEW c \in Conn, At(c, "deliver")
               PROVE  \/ handler[c].post.due[handler[c].other] > 0
                      \/ Raced({"visit"}, handler[c].user, handler[c].user)
    BY DEF AddressedAsDue
  <2>1. handler[c].post \in Post /\ handler[c].other \in User
    BY RunningFields
  <2>2. handler[c].post.tagged[handler[c].other] \in Nat /\ handler[c].post.due[handler[c].other] \in Nat
    BY <2>1, PostFields
  <2>3. AddressedOf(c) /\ Pending(handler[c], handler[c].other)
    BY DEF AddressInv, Looping, Pending, At
  <2> QED  BY <2>1, <2>2, <2>3 DEF AddressedOf, Addressing
<1> QED  BY <1>1, <1>2, NextAddressInv, Invariance, Typing, PTL DEF Spec

=============================================================================
