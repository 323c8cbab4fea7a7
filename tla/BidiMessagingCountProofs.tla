---------------------- MODULE BidiMessagingCountProofs ----------------------
(***************************************************************************)
(* The theorem about the counter that LOGSTAT publishes: FOLLOW, UNFOLLOW  *)
(* and BLOCK change the queue of followed users and the counter in steps   *)
(* of their own, for every number of connections, names and threads.       *)
(***************************************************************************)
EXTENDS BidiMessagingDeliveryProofs, SetSums

\* by how much a handler will still change the counter of u
Owes(h, u) == IF h.step = "count" /\ h.user = u THEN h.by ELSE 0

Unsettled(u) == [c \in Conn |-> Owes(handler[c], u)]

Followed(u) == SumOf(followers[u], User)

Owed(u) == SumOf(Unsettled(u), Conn)

\* the counter began again at its other end, or a step was outdated that loses an
\* update or counts a user not followed
Miscounted(u) ==
  u \in wrapped \/ Raced({"count"}, u, u) \/ \E v \in User : Raced({"unfollow"}, u, v)

(***************************************************************************)
(* What the running handlers have still to add and to take away makes up   *)
(* for the difference: FOLLOW adds to the queue before it counts, UNFOLLOW *)
(* takes from it before.                                                   *)
(***************************************************************************)
CountInv == \A u \in User : Miscounted(u) \/ Followed(u) <= following[u] + Owed(u)

-----------------------------------------------------------------------------
(* Sums that a step changes *)

\* the users that there can be
LEMMA FiniteUsers ==
  ASSUME IsFiniteSet(Name)
  PROVE  IsFiniteSet(User)
<1> DEFINE S == Name \X (1 .. MaxSerial)
           f == [p \in S |-> [username |-> p[1], serial |-> p[2]]]
<1>1. IsFiniteSet(1 .. MaxSerial)
  BY FS_Interval, ParameterAssumption
<1>2. IsFiniteSet(S)
  BY <1>1, FS_Product
<1>3. f \in [S -> User]
  BY DEF User
<1>4. ASSUME NEW u \in User
      PROVE  \E p \in S : f[p] = u
  <2>1. <<u.username, u.serial>> \in S /\ u = [username |-> u.username, serial |-> u.serial]
    BY DEF User
  <2>2. f[<<u.username, u.serial>>] = u
    BY <2>1
  <2> QED  BY <2>1, <2>2
<1>5. f \in Surjection(S, User)
  <2> HIDE DEF f
  <2> QED  BY <1>3, <1>4 DEF Surjection
<1> QED  BY <1>2, <1>5, FS_Surjection

\* what a handler owes is a number
LEMMA OwesType ==
  ASSUME NEW h \in Handler, NEW u
  PROVE  Owes(h, u) \in Int
  BY HandlerFields DEF Owes

(***************************************************************************)
(* A step of one handler that changes one place of the user's queue, and   *)
(* not by more than the counter and what the handler owes to it.           *)
(***************************************************************************)
LEMMA CountStep ==
  ASSUME TypeOK, TypeOK', IsFiniteSet(Name), NEW c \in Conn, NEW u \in User, NEW v \in User,
         Followed(u) <= following[u] + Owed(u),
         \A d \in Conn : d # c => handler'[d] = handler[d],
         \A w \in User \ {v} : followers'[u][w] = followers[u][w],
         followers'[u][v] - followers[u][v]
           <= following'[u] - following[u] + Owes(handler'[c], u) - Owes(handler[c], u)
  PROVE  Followed(u)' <= following'[u] + Owed(u)'
<1>1. /\ followers[u] \in [User -> Nat] /\ followers'[u] \in [User -> Nat]
      /\ following[u] \in Int /\ following'[u] \in Int
  <2>1. ShortRange \subseteq Int
    BY ParameterAssumption DEF ShortRange
  <2>2. followers[u] \in [User -> Nat] /\ followers'[u] \in [User -> Nat]
    BY DEF TypeOK
  <2>3. following[u] \in ShortRange /\ following'[u] \in ShortRange
    BY DEF TypeOK
  <2> QED  BY <2>1, <2>2, <2>3
<1> DEFINE f == followers[u]
           g == followers'[u]
           p == Unsettled(u)
           q == Unsettled(u)'
<1>2. SumOf(g, User) = SumOf(f, User) + g[v] - f[v] /\ SumOf(f, User) \in Int
  <2>1. (\A x \in User : f[x] \in Int) /\ (\A x \in User : g[x] \in Int)
    BY <1>1
  <2>2. \A x \in User \ {v} : g[x] = f[x]
    OBVIOUS
  <2> HIDE DEF f, g
  <2> QED  BY <2>1, <2>2, FiniteUsers, SumChanged, SumType
<1>3. SumOf(q, Conn) = SumOf(p, Conn) + q[c] - p[c] /\ SumOf(p, Conn) \in Int
  <2>1. (\A x \in Conn : p[x] \in Int) /\ (\A x \in Conn : q[x] \in Int)
    BY OwesType DEF Unsettled, TypeOK
  <2>2. \A x \in Conn \ {c} : q[x] = p[x]
    BY DEF Unsettled
  <2> HIDE DEF p, q
  <2> QED  BY <2>1, <2>2, ConnAssumption, SumChanged, SumType
<1>4. p[c] = Owes(handler[c], u) /\ q[c] = Owes(handler'[c], u) /\ p[c] \in Int /\ q[c] \in Int
  BY OwesType DEF Unsettled, TypeOK
<1>5. /\ Followed(u) = SumOf(f, User) /\ Followed(u)' = SumOf(g, User)
      /\ Owed(u) = SumOf(p, Conn) /\ Owed(u)' = SumOf(q, Conn)
  BY DEF Followed, Owed
<1>6. f[v] \in Nat /\ g[v] \in Nat
  BY <1>1
<1> HIDE DEF f, g, p, q
<1> QED  BY <1>1, <1>2, <1>3, <1>4, <1>5, <1>6 DEF f, g

-----------------------------------------------------------------------------
(* The steps of the handlers *)

\* one handler moves, and nothing is forgotten of what was outdated or wrapped
OneMoves(c) ==
  /\ \A d \in Conn : d # c => handler'[d] = handler[d]
  /\ stale \subseteq stale' /\ wrapped \subseteq wrapped'

\* what a step adds to a queue of followed users is counted, or the handler owes it
LEMMA CountStill ==
  ASSUME TypeOK, TypeOK', IsFiniteSet(Name), CountInv, NEW c \in Conn, OneMoves(c),
         NEW u \in User, ~Miscounted(u)', NEW v \in User,
         \A w \in User \ {v} : followers'[u][w] = followers[u][w],
         followers'[u][v] - followers[u][v]
           <= following'[u] - following[u] + Owes(handler'[c], u) - Owes(handler[c], u)
  PROVE  Followed(u)' <= following'[u] + Owed(u)'
<1>1. ~Miscounted(u)
  BY DEF Miscounted, Raced, OneMoves
<1> QED  BY <1>1, CountStep DEF CountInv, OneMoves

\* a handler that neither counts nor is about to
LEMMA CountFree ==
  ASSUME TypeOK, TypeOK', IsFiniteSet(Name), CountInv, NEW c \in Conn, OneMoves(c),
         handler[c].step # "count", handler'[c].step # "count",
         UNCHANGED <<followers, following>>
  PROVE  CountInv'
<1>1. ASSUME NEW u \in User, ~Miscounted(u)'
      PROVE  Followed(u)' <= following'[u] + Owed(u)'
  <2>1. followers[u][u] \in Nat /\ following[u] \in Int
    BY ParameterAssumption DEF TypeOK, ShortRange
  <2>2. followers'[u][u] - followers[u][u]
          <= following'[u] - following[u] + Owes(handler'[c], u) - Owes(handler[c], u)
    BY <2>1 DEF Owes
  <2> QED  BY <1>1, <2>2, CountStill
<1> QED  BY <1>1 DEF CountInv

\* the queue grows, and the handler owes it to the counter
LEMMA FollowAddCounts ==
  ASSUME TypeOK, TypeOK', IsFiniteSet(Name), CountInv, NEW c \in Conn, FollowAdd(c)
  PROVE  CountInv'
<1> DEFINE a == handler[c].user
           b == handler[c].other
<1>1. a \in User /\ b \in User /\ handler[c].step = "follow"
  BY RunningFields DEF FollowAdd, At
<1>2. /\ handler'[c] = [step |-> "count", user |-> a, read |-> following[a], by |-> 1]
      /\ OneMoves(c)
  BY DEF FollowAdd, Continue, NoteStale, OneMoves, counter, TypeOK
<1>3. /\ \A u, w \in User : <<u, w>> # <<a, b>> => followers'[u][w] = followers[u][w]
      /\ followers'[a][b] = followers[a][b] + 1
      /\ following' = following
  BY <1>1 DEF FollowAdd, counter, TypeOK
<1>4. \A u, w \in User : followers[u][w] \in Nat /\ following[u] \in Int
  BY ParameterAssumption DEF TypeOK, ShortRange
<1> HIDE DEF a, b
<1>5. ASSUME NEW u \in User, ~Miscounted(u)'
      PROVE  Followed(u)' <= following'[u] + Owed(u)'
  <2>1. Owes(handler[c], u) = 0 /\ Owes(handler'[c], u) = IF u = a THEN 1 ELSE 0
    BY <1>1, <1>2 DEF Owes
  <2>2. /\ \A w \in User \ {b} : followers'[u][w] = followers[u][w]
        /\ followers'[u][b] - followers[u][b]
             <= following'[u] - following[u] + Owes(handler'[c], u) - Owes(handler[c], u)
    BY <1>1, <1>3, <1>4, <2>1
  <2> QED  BY <1>1, <1>2, <1>5, <2>2, CountStill
<1> QED  BY <1>5 DEF CountInv

\* what a removal changes
LEMMA DroppedAt ==
  ASSUME NEW f \in [User -> [User -> Nat]], NEW a \in User, NEW b \in User
  PROVE  \A u, v \in User : Dropped(f, a, b)[u][v] =
           IF u = a /\ v = b THEN (IF f[a][b] > 0 THEN f[a][b] - 1 ELSE 0) ELSE f[u][v]
  BY DEF Dropped

\* the queue shrinks if the user was still in it, and the handler owes the counter that
LEMMA UnfollowRemoveCounts ==
  ASSUME TypeOK, TypeOK', IsFiniteSet(Name), CountInv, NEW c \in Conn, UnfollowRemove(c)
  PROVE  CountInv'
<1> DEFINE a == handler[c].user
           b == handler[c].other
<1>1. a \in User /\ b \in User /\ handler[c].step = "unfollow"
  BY RunningFields DEF UnfollowRemove, At
<1>2. /\ handler'[c] = [step |-> "count", user |-> a, read |-> following[a], by |-> -1]
      /\ OneMoves(c)
  BY DEF UnfollowRemove, Continue, NoteStale, OneMoves, counter, TypeOK
<1>3. followers[a][b] > 0 \/ <<"unfollow", a, b>> \in stale'
  BY <1>1 DEF UnfollowRemove, NoteStale, CheckHolds, Follows
<1>4. /\ \A u, w \in User : <<u, w>> # <<a, b>> => followers'[u][w] = followers[u][w]
      /\ followers[a][b] > 0 => followers'[a][b] = followers[a][b] - 1
      /\ following' = following
  <2>1. followers \in [User -> [User -> Nat]] /\ followers' = Dropped(followers, a, b)
    BY DEF UnfollowRemove, TypeOK
  <2> HIDE DEF a, b
  <2>2. \A u, w \in User : followers'[u][w] =
          IF u = a /\ w = b THEN (IF followers[a][b] > 0 THEN followers[a][b] - 1 ELSE 0)
          ELSE followers[u][w]
    BY <1>1, <2>1, DroppedAt
  <2>3. following' = following
    BY DEF UnfollowRemove, counter
  <2> QED  BY <1>1, <2>2, <2>3
<1>5. \A u, w \in User : followers[u][w] \in Nat /\ following[u] \in Int
  BY ParameterAssumption DEF TypeOK, ShortRange
<1> HIDE DEF a, b
<1>6. ASSUME NEW u \in User, ~Miscounted(u)'
      PROVE  Followed(u)' <= following'[u] + Owed(u)'
  <2>1. Owes(handler[c], u) = 0 /\ Owes(handler'[c], u) = IF u = a THEN -1 ELSE 0
    BY <1>1, <1>2 DEF Owes
  <2>2. u = a => followers[a][b] > 0
    BY <1>1, <1>3, <1>6 DEF Miscounted, Raced
  <2>3. /\ \A w \in User \ {b} : followers'[u][w] = followers[u][w]
        /\ followers'[u][b] - followers[u][b]
             <= following'[u] - following[u] + Owes(handler'[c], u) - Owes(handler[c], u)
    BY <1>1, <1>4, <1>5, <2>1, <2>2
  <2> QED  BY <1>1, <1>2, <1>6, <2>3, CountStill
<1> QED  BY <1>6 DEF CountInv

\* the counter is given what the handler owed, unless that is beyond its range
LEMMA FollowCountCounts ==
  ASSUME TypeOK, TypeOK', IsFiniteSet(Name), CountInv, NEW c \in Conn, FollowCount(c)
  PROVE  CountInv'
<1> DEFINE a == handler[c].user
           by == handler[c].by
           sum == handler[c].read + by
<1>1. /\ a \in User /\ by \in {1, -1} /\ handler[c].step = "count"
      /\ handler[c].read \in Int
  BY RunningFields, ParameterAssumption DEF FollowCount, At, ShortRange
<1>2. handler'[c] = Idle /\ OneMoves(c) /\ followers' = followers
  BY DEF FollowCount, Finish, NoteStale, OneMoves, TypeOK
<1>3. following[a] = handler[c].read \/ <<"count", a, a>> \in stale'
  BY <1>1 DEF FollowCount, NoteStale, CheckHolds
<1>4. /\ \A u \in User : u # a => following'[u] = following[u]
      /\ following'[a] = sum \/ a \in wrapped'
  <2>1. sum \in ShortRange => Short(sum) = sum
    BY <1>1, ShortType
  <2>2. following' = [following EXCEPT ![a] = Short(sum)] /\ (sum \in ShortRange \/ a \in wrapped')
    BY DEF FollowCount
  <2>3. following \in [User -> ShortRange]
    BY DEF TypeOK
  <2> HIDE DEF a, sum
  <2> QED  BY <1>1, <2>1, <2>2, <2>3
<1>5. \A u, w \in User : followers[u][w] \in Nat /\ following[u] \in Int
  BY ParameterAssumption DEF TypeOK, ShortRange
<1>6. \A u : /\ Owes(handler[c], u) = IF u = a THEN by ELSE 0
             /\ Owes(handler'[c], u) = 0
  BY <1>1, <1>2 DEF Owes, Idle
<1> HIDE DEF a, by
<1>7. ASSUME NEW u \in User, ~Miscounted(u)'
      PROVE  Followed(u)' <= following'[u] + Owed(u)'
  <2>1. u = a => following'[a] = following[a] + by
    BY <1>1, <1>3, <1>4, <1>7 DEF Miscounted, Raced
  <2>2. followers'[u][u] - followers[u][u]
          <= following'[u] - following[u] + Owes(handler'[c], u) - Owes(handler[c], u)
    BY <1>1, <1>2, <1>4, <1>5, <1>6, <2>1
  <2> QED  BY <1>2, <1>7, <2>2, CountStill
<1> QED  BY <1>7 DEF CountInv

\* BLOCK only takes users out of queues, at most one out of each
LEMMA BlockDropCounts ==
  ASSUME TypeOK, TypeOK', IsFiniteSet(Name), CountInv, NEW c \in Conn, BlockDrop(c)
  PROVE  CountInv'
<1> DEFINE a == handler[c].user
           b == handler[c].other
           first == Dropped(followers, a, b)
<1>1. a \in User /\ b \in User /\ handler[c].step = "drop"
  BY RunningFields DEF BlockDrop, At
<1>2. handler'[c] = Idle /\ OneMoves(c) /\ following' = following
  BY DEF BlockDrop, Finish, OneMoves, history, counter, TypeOK
<1>3. /\ first \in [User -> [User -> Nat]]
      /\ \A u, w \in User : first[u][w] <= followers[u][w]
      /\ \A u, w \in User : <<u, w>> # <<a, b>> => first[u][w] = followers[u][w]
  <2>1. followers \in [User -> [User -> Nat]]
    BY DEF TypeOK
  <2> QED  BY <1>1, <2>1, DroppedShrinks DEF Dropped
<1>4. followers' = Dropped(first, b, a)
  BY DEF BlockDrop
<1> HIDE DEF a, b, first
<1>5. /\ \A u, w \in User : followers'[u][w] <= first[u][w]
      /\ \A u, w \in User : <<u, w>> # <<b, a>> => followers'[u][w] = first[u][w]
  BY <1>1, <1>3, <1>4, DroppedShrinks DEF Dropped
<1>6. \A u, w \in User : /\ followers[u][w] \in Nat /\ first[u][w] \in Nat
                         /\ followers'[u][w] \in Nat /\ following[u] \in Int
  BY <1>3, ParameterAssumption DEF TypeOK, ShortRange
<1>7. ASSUME NEW u \in User, ~Miscounted(u)'
      PROVE  Followed(u)' <= following'[u] + Owed(u)'
  <2>1. Owes(handler[c], u) = 0 /\ Owes(handler'[c], u) = 0
    BY <1>1, <1>2 DEF Owes, Idle
  <2>2. PICK v \in User : v = IF u = a THEN b ELSE a
    BY <1>1
  <2>3. \A w \in User \ {v} : followers'[u][w] = followers[u][w]
    BY <1>1, <1>3, <1>5, <2>2
  <2>4. followers'[u][v] <= followers[u][v]
    BY <1>3, <1>5, <1>6
  <2>5. followers'[u][v] - followers[u][v]
          <= following'[u] - following[u] + Owes(handler'[c], u) - Owes(handler[c], u)
    BY <1>2, <1>6, <2>1, <2>4
  <2> QED  BY <1>2, <1>7, <2>3, <2>5, CountStill
<1> QED  BY <1>7 DEF CountInv

\* steps that have to do neither with the queue nor with the counter
LEMMA OthersFree ==
  ASSUME TypeOK, NEW c \in Conn, Advance(c),
         ~FollowAdd(c), ~UnfollowRemove(c), ~FollowCount(c), ~BlockDrop(c)
  PROVE  /\ OneMoves(c)
         /\ handler[c].step # "count" /\ handler'[c].step # "count"
         /\ UNCHANGED <<followers, following>>
<1> DEFINE Free == /\ \E h : h.step # "count" /\ handler' = [handler EXCEPT ![c] = h]
                   /\ stale \subseteq stale' /\ wrapped \subseteq wrapped'
                   /\ handler[c].step # "count"
                   /\ UNCHANGED <<followers, following>>
<1>1. ASSUME RegisterPut(c) PROVE Free
  BY <1>1 DEF RegisterPut, At, Finish, Idle, NoteStale, graph, counter
<1>2. ASSUME LoginActivate(c) \/ LoginSetConn(c) PROVE Free
  BY <1>2 DEF LoginActivate, LoginSetConn, At, Continue, NoteStale, graph, counter, history
<1>3. ASSUME LoginAck(c) \/ LoginSend(c) PROVE Free
  BY <1>3 DEF LoginAck, LoginSend, At, Idle, graph, counter
<1>4. ASSUME LoginDrain(c) PROVE Free
  BY <1>4 DEF LoginDrain, At, Continue, shared, graph, counter, history
<1>5. ASSUME LogoutDeactivate(c) \/ PmSend(c) PROVE Free
  BY <1>5 DEF LogoutDeactivate, PmSend, At, Finish, Idle, NoteStale, graph, counter
<1>6. ASSUME PmCut(c) PROVE Free
  BY <1>6 DEF PmCut, At, Continue, Finish, Idle, NoteStale, graph, counter
<1>7. ASSUME PostVisit(c) PROVE Free
  <2>1. handler[c].post \in Post
    BY <1>7, RunningFields DEF PostVisit
  <2>2. handler[c] \in [step : {"visit"}, user : User, post : Post]
    BY <1>7, VisitFields DEF PostVisit, At, TypeOK
  <2>3. \A post : [handler[c] EXCEPT !.post = post].step = "visit"
    BY <2>2
  <2>4. \E h : h.step # "count" /\ handler' = [handler EXCEPT ![c] = h]
    BY <1>7, <2>3 DEF PostVisit, Deliver, Continue, Finish, Idle
  <2> QED  BY <1>7, <2>4 DEF PostVisit, At, NoteStale, graph, counter
<1>8. ASSUME PostDeliver(c) \/ PostSend(c) PROVE Free
  <2>1. handler[c].post \in Post /\ handler[c].other \in User
    BY <1>8, RunningFields DEF PostDeliver, PostSend
  <2>2. OnFrom(handler[c], handler[c].other).step = "visit"
    BY <2>1, OnSteps
  <2>3. \E h : h.step # "count" /\ handler' = [handler EXCEPT ![c] = h]
    BY <1>8, <2>2 DEF PostDeliver, PostSend, Continue
  <2> QED  BY <1>8, <2>3 DEF PostDeliver, PostSend, At, NoteStale, graph, counter
<1>9. ASSUME BlockAdd(c) PROVE Free
  <2>1. handler[c] \in [step : {"follow", "unfollow", "pm", "block", "drop"}, user : User, other : User]
    BY <1>9, PairFields DEF BlockAdd, At, TypeOK
  <2>2. [handler[c] EXCEPT !.step = "drop"].step = "drop"
    BY <2>1
  <2> QED  BY <1>9, <2>2 DEF BlockAdd, At, Continue, NoteStale, counter
<1>10. Free
  BY <1>1, <1>2, <1>3, <1>4, <1>5, <1>6, <1>7, <1>8, <1>9 DEF Advance
<1> QED  BY <1>10 DEF OneMoves, TypeOK

\* CountInv is inductive
LEMMA NextCountInv ==
  ASSUME IsFiniteSet(Name)
  PROVE  TypeOK /\ TypeOK' /\ CountInv /\ [Next]_vars => CountInv'
<1> SUFFICES ASSUME TypeOK, TypeOK', CountInv, [Next]_vars PROVE CountInv'
  OBVIOUS
<1>1. ASSUME NEW c \in Conn, Request(c) PROVE CountInv'
  <2>1. OneMoves(c) /\ handler[c].step # "count" /\ handler'[c].step # "count"
    BY <1>1, RequestMoves DEF OneMoves, ScanSteps, Idle, history, graph, counter
  <2>2. UNCHANGED <<followers, following>>
    BY <1>1, RequestMoves DEF graph, counter
  <2> QED  BY <2>1, <2>2, CountFree
<1>2. ASSUME NEW c \in Conn, Advance(c) PROVE CountInv'
  <2>1. CASE FollowAdd(c) \/ UnfollowRemove(c) \/ FollowCount(c) \/ BlockDrop(c)
    BY <2>1, FollowAddCounts, UnfollowRemoveCounts, FollowCountCounts, BlockDropCounts
  <2>2. CASE ~(FollowAdd(c) \/ UnfollowRemove(c) \/ FollowCount(c) \/ BlockDrop(c))
    BY <1>2, <2>2, OthersFree, CountFree
  <2> QED  BY <2>1, <2>2
<1>3. CASE UNCHANGED vars
  BY <1>3 DEF CountInv, Miscounted, Raced, Followed, Owed, Unsettled, vars, shared, graph, counter,
              history
<1> QED  BY <1>1, <1>2, <1>3 DEF Next

\* at the start nobody follows anybody
LEMMA InitCountInv ==
  ASSUME IsFiniteSet(Name)
  PROVE  Init => CountInv
<1> SUFFICES ASSUME Init, NEW u \in User PROVE Followed(u) <= following[u] + Owed(u)
  BY DEF CountInv
<1> DEFINE f == followers[u]
           q == Unsettled(u)
<1>1. \A v \in User : f[v] = 0
  BY DEF Init
<1>2. \A c \in Conn : q[c] = 0
  BY DEF Init, Unsettled, Owes, Idle
<1>3. SumOf(f, User) = 0
  <2> HIDE DEF f
  <2> QED  BY <1>1, FiniteUsers, SumZero
<1>4. SumOf(q, Conn) = 0
  <2> HIDE DEF q
  <2> QED  BY <1>2, ConnAssumption, SumZero
<1>5. following[u] = 0
  BY DEF Init
<1> QED  BY <1>3, <1>4, <1>5 DEF Followed, Owed

\* while no handler is between the queue and the counter nothing is owed
LEMMA CountInvSuffices ==
  ASSUME IsFiniteSet(Name)
  PROVE  TypeOK /\ CountInv => FollowingCounted
<1> SUFFICES ASSUME TypeOK, CountInv, NEW u \in User,
                    \A c \in Conn : ~(At(c, "count") /\ handler[c].user = u),
                    ~Miscounted(u)
             PROVE  MapThenSumSet(LAMBDA v : followers[u][v], User) <= following[u]
  BY DEF FollowingCounted, Miscounted
<1> DEFINE q == Unsettled(u)
<1>1. \A c \in Conn : q[c] = 0
  BY DEF Unsettled, Owes, At
<1>2. SumOf(q, Conn) = 0
  <2> HIDE DEF q
  <2> QED  BY <1>1, ConnAssumption, SumZero
<1>3. Followed(u) <= following[u]
  BY <1>2, ParameterAssumption DEF CountInv, Owed, TypeOK, ShortRange
<1> QED  BY <1>3 DEF Followed, SumOf

(***************************************************************************)
(* The number LOGSTAT publishes is at least that of the users followed,    *)
(* whatever FOLLOWs, UNFOLLOWs and BLOCKs run at once: it falls behind     *)
(* only by an increment lost to another of the same user, by an UNFOLLOW   *)
(* of one not followed any more, or by counting past what a Short holds,   *)
(* which is no race.  (The sum over the users means something for finitely *)
(* many names only.)                                                       *)
(***************************************************************************)
THEOREM Counting ==
  ASSUME IsFiniteSet(Name)
  PROVE  Spec => []FollowingCounted
<1>1. Init => CountInv
  BY InitCountInv
<1>2. TypeOK /\ TypeOK' /\ CountInv /\ [Next]_vars => CountInv'
  BY NextCountInv
<1>3. TypeOK /\ CountInv => FollowingCounted
  BY CountInvSuffices
<1>4. Spec => []TypeOK
  BY Typing
<1> QED  BY <1>1, <1>2, <1>3, <1>4, PTL DEF Spec
=============================================================================
