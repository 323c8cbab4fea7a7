-------------------- MODULE BidiMessagingProtocolProofs --------------------
(***************************************************************************)
(* Theorems about BidiMessagingProtocol, for every number of connections,  *)
(* names and threads, every containment of names and every order of map    *)
(* iteration.                                                              *)
(***************************************************************************)
EXTENDS BidiMessagingProtocol, FiniteSetTheorems, TLAPS

-----------------------------------------------------------------------------
(* Lemmas about the handlers' local variables and about the lookups *)

(***************************************************************************)
(* What a running handler holds, by the step it is at.                     *)
(***************************************************************************)
LEMMA HandlerFields ==
  ASSUME NEW h \in Handler
  PROVE  /\ h.step = "register" => h.name \in Name
         /\ h.step = "activate" => h.user \in User /\ h.name \in Name
         /\ h.step \in {"setConn", "ackLogin", "deactivate"} => h.user \in User
         /\ h.step = "drain" => h.user \in User /\ h.next \in Nat
         /\ h.step = "sendKept" =>
              /\ h.user \in User /\ h.next \in Nat
              /\ h.more \in BOOLEAN /\ h.to \in ConnId
         /\ h.step \in {"follow", "unfollow", "pm", "block", "drop"} =>
              h.user \in User /\ h.other \in User
         /\ h.step = "sendPm" => h.user \in User /\ h.other \in User /\ h.to \in ConnId
         /\ h.step = "count" => h.user \in User /\ h.read \in ShortRange /\ h.by \in {1, -1}
         /\ h.step \in {"visit", "deliver", "sendPost"} => h.user \in User /\ h.post \in Post
         /\ h.step \in {"deliver", "sendPost"} => h.other \in User /\ h.online \in BOOLEAN
         /\ h.step = "sendPost" => h.to \in ConnId
  BY DEF Handler, Idle

\* a handler in the loop of POST has the fields of that loop and no others
LEMMA VisitFields ==
  ASSUME NEW h \in Handler, h.step = "visit"
  PROVE  h \in [step : {"visit"}, user : User, post : Post]
  BY DEF Handler, Idle

LEMMA PostFields ==
  ASSUME NEW p \in Post
  PROVE  /\ p.left \in SUBSET Name /\ p.tagged \in [User -> Nat]
         /\ p.free \in SUBSET User /\ p.due \in [User -> Nat]
         /\ \A S \in SUBSET Name : [p EXCEPT !.left = S] \in Post
  BY DEF Post

LEMMA PairFields ==
  ASSUME NEW h \in Handler, h.step \in {"follow", "unfollow", "pm", "block", "drop"}
  PROVE  h \in [step : {"follow", "unfollow", "pm", "block", "drop"}, user : User, other : User]
  BY DEF Handler, Idle

(***************************************************************************)
(* A Short is in its range, and is the integer it is made from if that is. *)
(***************************************************************************)
LEMMA ShortType ==
  ASSUME NEW i \in Int
  PROVE  Short(i) \in ShortRange /\ (i \in ShortRange => Short(i) = i)
<1> DEFINE width == 2 * MaxShort + 2
           j == i + MaxShort + 1
<1>1. MaxShort \in Nat /\ j \in Int /\ width \in Nat /\ width > 0
  BY ParameterAssumption
<1>2. j % width \in 0 .. width - 1
  <2> HIDE DEF j, width
  <2> QED  BY <1>1
<1>3. ASSUME j \in 0 .. width - 1 PROVE j % width = j
  <2> HIDE DEF j, width
  <2> QED  BY <1>1, <1>3
<1>4. Short(i) = (j % width) - (MaxShort + 1)
  BY DEF Short
<1>5. Short(i) \in ShortRange
  <2> DEFINE r == j % width
  <2> HIDE DEF r
  <2>1. r \in 0 .. 2 * MaxShort + 1 /\ Short(i) = r - (MaxShort + 1)
    BY <1>1, <1>2, <1>4 DEF r
  <2> QED  BY <1>1, <2>1 DEF ShortRange
<1>6. ASSUME i \in ShortRange PROVE Short(i) = i
  <2>1. j \in 0 .. width - 1
    BY <1>1, <1>6 DEF ShortRange
  <2> QED  BY <1>1, <1>3, <1>4, <2>1
<1> QED  BY <1>5, <1>6

(***************************************************************************)
(* otherUsers, as the tags of a text fill it, is a bag of users.           *)
(***************************************************************************)
LEMMA TaggedType ==
  ASSUME NEW tags \in Seq(Name)
  PROVE  Tagged(tags) \in [User -> Nat]
<1>1. ASSUME NEW S \in SUBSET DOMAIN tags PROVE Cardinality(S) \in Nat
  <2>1. Len(tags) \in Nat /\ DOMAIN tags = 1 .. Len(tags)
    OBVIOUS
  <2>2. IsFiniteSet(DOMAIN tags)
    BY <2>1, FS_Interval
  <2>3. IsFiniteSet(S)
    BY <1>1, <2>2, FS_Subset
  <2> QED  BY <2>3, FS_CardinalityType
<1> QED  BY <1>1 DEF Tagged

(***************************************************************************)
(* The lookups return users that exist.                                    *)
(***************************************************************************)
LEMMA LookupTypes ==
  ASSUME TypeOK
  PROVE  /\ \A S \in SUBSET Name : S # {} => FirstOf[S] \in S /\ LastOf[S] \in S
         /\ \A n \in Registered : UserOf(n) \in User
         /\ \A c \in Conn : Me(c) \in User \cup {NoUser}
         /\ \A c \in Conn : MeOrLast(c) \in User \cup {NoUser}
<1>1. \A S \in SUBSET Name : S # {} => FirstOf[S] \in S /\ LastOf[S] \in S
  BY OrderAssumption
<1>2. \A n \in Registered : UserOf(n) \in User
  BY ParameterAssumption DEF TypeOK, Registered, UserOf, User
<1>3. Active \in SUBSET Name /\ \A k \in Active : activeUsersMap[k] \in User
  BY DEF Active, TypeOK
<1>4. \A c \in Conn : Mine(c) \in SUBSET Active
  BY DEF Mine
<1>5. \A c \in Conn : Me(c) \in User \cup {NoUser}
  BY <1>1, <1>3, <1>4 DEF Me
<1>6. \A c \in Conn : MeOrLast(c) \in User \cup {NoUser}
  BY <1>1, <1>3, <1>5 DEF MeOrLast
<1> QED  BY <1>1, <1>2, <1>5, <1>6

(***************************************************************************)
(* A step that changes one handler, to a well-typed one, keeps the type of *)
(* all of them.                                                            *)
(***************************************************************************)
LEMMA ContinueType ==
  ASSUME TypeOK, NEW c \in Conn, NEW h \in Handler, Continue(c, h)
  PROVE  handler' \in [Conn -> Handler] /\ frames' \subseteq Frame
  BY DEF Continue, TypeOK

LEMMA FinishType ==
  ASSUME TypeOK, NEW c \in Conn, NEW sent \in SUBSET Frame, Finish(c, sent)
  PROVE  handler' \in [Conn -> Handler] /\ frames' \subseteq Frame
  BY DEF Finish, TypeOK, Handler

LEMMA ReplyType ==
  ASSUME NEW c \in Conn, NEW kind \in {"ACK", "ERROR"}, NEW op \in AllOps
  PROVE  Reply(c, kind, op) \in Frame
  BY DEF Reply, Frame, ConnId

LEMMA NotifyType ==
  ASSUME NEW to \in ConnId, NEW u \in User, NEW op \in AllOps, NEW author \in User
  PROVE  Notify(to, u, op, author) \in Frame
  BY DEF Notify, Frame

LEMMA NoteStaleType ==
  ASSUME TypeOK, NEW c \in Conn, NEW u \in User, NEW v \in User, NoteStale(c, u, v)
  PROVE  stale' \subseteq Steps \X User \X User
<1>1. handler[c].step \in Steps
  BY DEF TypeOK, Handler, Idle, Steps
<1> QED  BY <1>1 DEF NoteStale, TypeOK

-----------------------------------------------------------------------------
(* Racing REGISTERs *)

Busy == {d \in Conn : handler[d] # Idle}

Registering(n) == {d \in Conn : At(d, "register") /\ handler[d].name = n}

(***************************************************************************)
(* The handlers that scanned for n before its first put are counted        *)
(* against the threads: each of them may still put one more User.          *)
(***************************************************************************)
RegisterInv ==
  /\ Cardinality(Busy) <= NThreads
  /\ \A n \in Name : usersMap[n] + Cardinality(Registering(n)) <= NThreads

TypeInv == TypeOK /\ RegisterInv

LEMMA Finiteness ==
  /\ IsFiniteSet(Busy) /\ Cardinality(Busy) \in Nat
  /\ \A n \in Name : IsFiniteSet(Registering(n)) /\ Cardinality(Registering(n)) \in Nat
<1>1. IsFiniteSet(Busy)
  BY ConnAssumption, FS_Subset DEF Busy
<1>2. \A n \in Name : IsFiniteSet(Registering(n))
  BY ConnAssumption, FS_Subset DEF Registering
<1> QED  BY <1>1, <1>2, FS_CardinalityType

(***************************************************************************)
(* A step of a handler that is no step of REGISTER takes no further part   *)
(* in a race for a name.                                                   *)
(***************************************************************************)
LEMMA OtherStepKeepsRegisterInv ==
  ASSUME TypeInv, NEW c \in Conn, NEW h \in Handler, h.step # "register",
         handler' = [handler EXCEPT ![c] = h], usersMap' = usersMap,
         handler[c] # Idle \/ Cardinality(Busy) < NThreads
  PROVE  RegisterInv'
<1>1. \A d \in Conn : d # c => handler'[d] = handler[d]
  BY DEF TypeInv, TypeOK
<1>2. handler'[c] = h
  BY DEF TypeInv, TypeOK
<1>3. Busy' \subseteq Busy \cup {c}
  BY <1>1 DEF Busy
<1>4. Cardinality(Busy') <= NThreads
  <2>1. CASE handler[c] # Idle
    <3>1. Busy' \subseteq Busy
      BY <1>3, <2>1 DEF Busy
    <3>2. Cardinality(Busy') <= Cardinality(Busy) /\ Cardinality(Busy') \in Nat
      BY <3>1, Finiteness, FS_Subset, FS_CardinalityType
    <3> QED  BY <3>2, Finiteness, ParameterAssumption DEF TypeInv, RegisterInv
  <2>2. CASE Cardinality(Busy) < NThreads
    <3>1. /\ IsFiniteSet(Busy \cup {c})
          /\ Cardinality(Busy \cup {c}) <= Cardinality(Busy) + 1
      BY Finiteness, FS_AddElement
    <3>2. Cardinality(Busy') <= Cardinality(Busy \cup {c}) /\ Cardinality(Busy') \in Nat
      BY <1>3, <3>1, FS_Subset, FS_CardinalityType
    <3>3. Cardinality(Busy \cup {c}) \in Nat
      BY <3>1, FS_CardinalityType
    <3> QED  BY <2>2, <3>1, <3>2, <3>3, Finiteness, ParameterAssumption
  <2> QED  BY <2>1, <2>2
<1>5. \A n \in Name : Registering(n)' \subseteq Registering(n)
  BY <1>1, <1>2 DEF Registering, At
<1>6. \A n \in Name : /\ Cardinality(Registering(n)') <= Cardinality(Registering(n))
                      /\ Cardinality(Registering(n)') \in Nat
  BY <1>5, Finiteness, FS_Subset, FS_CardinalityType
<1>7. \A n \in Name : usersMap[n] + Cardinality(Registering(n)') <= NThreads
  BY <1>6, Finiteness, ParameterAssumption DEF TypeInv, TypeOK, RegisterInv
<1> QED  BY <1>4, <1>7 DEF RegisterInv

LEMMA RegisterScanKeepsRegisterInv ==
  ASSUME TypeInv, NEW c \in Conn, NEW n \in Name, Ready(c, "REGISTER"), Matching(n) = {},
         handler' = [handler EXCEPT ![c] = [step |-> "register", name |-> n]],
         usersMap' = usersMap
  PROVE  RegisterInv'
<1>1. \A d \in Conn : d # c => handler'[d] = handler[d]
  BY DEF TypeInv, TypeOK
<1>2. handler'[c] = [step |-> "register", name |-> n] /\ handler[c] = Idle
  BY DEF TypeInv, TypeOK, Ready
<1>3. c \notin Busy /\ Busy' = Busy \cup {c} /\ Cardinality(Busy) < NThreads
  BY <1>1, <1>2 DEF Busy, Idle, Ready
<1>4. IsFiniteSet(Busy') /\ Cardinality(Busy') = Cardinality(Busy) + 1
  BY <1>3, Finiteness, FS_AddElement
<1>5. Cardinality(Busy') <= NThreads
  BY <1>3, <1>4, Finiteness, ParameterAssumption
<1>6. usersMap[n] = 0
  <2>1. n \notin Registered
    BY NameAssumption DEF Matching, Has
  <2> QED  BY <2>1, ParameterAssumption DEF Registered, TypeInv, TypeOK
<1>7. ASSUME NEW m \in Name
      PROVE  usersMap[m] + Cardinality(Registering(m)') <= NThreads
  <2>1. CASE m = n
    <3>1. Registering(m)' \subseteq Busy'
      BY DEF Registering, Busy, At, Idle
    <3>2. Cardinality(Registering(m)') <= Cardinality(Busy') /\ Cardinality(Registering(m)') \in Nat
      BY <1>4, <3>1, FS_Subset, FS_CardinalityType
    <3> QED  BY <1>4, <1>5, <1>6, <2>1, <3>2, Finiteness, ParameterAssumption
  <2>2. CASE m # n
    <3>1. Registering(m)' = Registering(m)
      BY <1>1, <1>2, <2>2 DEF Registering, At, Idle
    <3> QED  BY <3>1 DEF TypeInv, RegisterInv
  <2> QED  BY <2>1, <2>2
<1> QED  BY <1>5, <1>7 DEF RegisterInv

LEMMA RegisterPutKeepsRegisterInv ==
  ASSUME TypeInv, NEW c \in Conn, NEW n \in Name, n = handler[c].name, RegisterPut(c)
  PROVE  RegisterInv' /\ usersMap[n] < NThreads
<1>1. \A d \in Conn : d # c => handler'[d] = handler[d]
  BY DEF TypeInv, TypeOK, RegisterPut, Finish
<1>2. handler'[c] = Idle /\ At(c, "register")
  BY DEF TypeInv, TypeOK, RegisterPut, Finish, At
<1>3. usersMap' = [usersMap EXCEPT ![n] = @ + 1] /\ usersMap \in [Name -> Nat]
  BY ParameterAssumption DEF TypeInv, TypeOK, RegisterPut
<1>4. Busy' \subseteq Busy
  BY <1>1, <1>2 DEF Busy, At, Idle
<1>5. Cardinality(Busy') <= Cardinality(Busy) /\ Cardinality(Busy') \in Nat
  BY <1>4, Finiteness, FS_Subset, FS_CardinalityType
<1>6. Cardinality(Busy') <= NThreads
  BY <1>5, Finiteness, ParameterAssumption DEF TypeInv, RegisterInv
<1>7. c \in Registering(n) /\ Registering(n)' = Registering(n) \ {c}
  BY <1>1, <1>2 DEF Registering, At, Idle
<1>8. Cardinality(Registering(n)') = Cardinality(Registering(n)) - 1
  <2>1. IsFiniteSet(Registering(n))
    BY Finiteness
  <2>2. Cardinality(Registering(n) \ {c}) = Cardinality(Registering(n)) - 1
    BY ONLY <1>7, <2>1, FS_RemoveElement
  <2> QED  BY <1>7, <2>2
<1>9. Cardinality(Registering(n)') \in Nat
  <2>1. IsFiniteSet(Registering(n) \ {c})
    BY Finiteness, FS_RemoveElement
  <2> QED  BY <1>7, <2>1, FS_CardinalityType
<1>10. usersMap[n] + Cardinality(Registering(n)) <= NThreads
  BY <1>2 DEF TypeInv, RegisterInv
<1>11. usersMap[n] < NThreads
  BY <1>2, <1>3, <1>8, <1>9, <1>10, Finiteness, ParameterAssumption
<1>12. ASSUME NEW m \in Name
       PROVE  usersMap'[m] + Cardinality(Registering(m)') <= NThreads
  <2>1. CASE m = n
    BY <1>2, <1>3, <1>8, <1>10, <2>1, Finiteness, ParameterAssumption
  <2>2. CASE m # n
    <3>1. Registering(m)' = Registering(m)
      BY <1>1, <1>2, <2>2 DEF Registering, At, Idle
    <3> QED  BY <1>3, <2>2, <3>1 DEF TypeInv, RegisterInv
  <2> QED  BY <2>1, <2>2
<1> QED  BY <1>6, <1>11, <1>12 DEF RegisterInv

-----------------------------------------------------------------------------
(* Type correctness *)

(***************************************************************************)
(* One handler moves, not into REGISTER; what is sent is well typed.       *)
(***************************************************************************)
Stepped(c) ==
  /\ \E h \in Handler : h.step # "register" /\ handler' = [handler EXCEPT ![c] = h]
  /\ frames' \subseteq Frame

\* TypeOK without usersMap, handler and frames
RestOK ==
  /\ activeUsersMap \in [Name -> User \cup {NoUser}]
  /\ isActivated \in [User -> BOOLEAN]
  /\ connId \in [User -> ConnId]
  /\ followers \in [User -> [User -> Nat]]
  /\ following \in [User -> ShortRange]
  /\ wrapped \subseteq User
  /\ blockingUsers \in [User -> SUBSET User]
  /\ awaitingPosts \in [User -> Seq(User)]
  /\ posts \in 0..MaxPosts
  /\ stale \subseteq Steps \X User \X User
  /\ session \in [Conn -> SUBSET User]
  /\ pushed \in [User -> Nat]

LEMMA SteppedType ==
  ASSUME TypeInv, NEW c \in Conn, Stepped(c), RestOK', usersMap' = usersMap,
         handler[c] # Idle \/ Cardinality(Busy) < NThreads
  PROVE  TypeInv'
<1>1. PICK h \in Handler : h.step # "register" /\ handler' = [handler EXCEPT ![c] = h]
  BY DEF Stepped
<1>2. RegisterInv'
  BY <1>1, OtherStepKeepsRegisterInv
<1>3. TypeOK'
  BY <1>1 DEF TypeInv, TypeOK, RestOK, Stepped
<1> QED  BY <1>2, <1>3 DEF TypeInv

LEMMA RunningFields ==
  ASSUME TypeOK, NEW c \in Conn
  PROVE  /\ handler[c] \in Handler
         /\ At(c, "register") => handler[c].name \in Name
         /\ At(c, "activate") => handler[c].user \in User /\ handler[c].name \in Name
         /\ At(c, "drain") => handler[c].user \in User /\ handler[c].next \in Nat
         /\ At(c, "sendKept") =>
              /\ handler[c].user \in User /\ handler[c].next \in Nat
              /\ handler[c].more \in BOOLEAN /\ handler[c].to \in ConnId
         /\ At(c, "setConn") \/ At(c, "ackLogin") \/ At(c, "deactivate") =>
              handler[c].user \in User
         /\ At(c, "follow") \/ At(c, "unfollow") \/ At(c, "block") \/ At(c, "drop")
              \/ At(c, "pm") \/ At(c, "sendPm") =>
              handler[c].user \in User /\ handler[c].other \in User
         /\ At(c, "sendPm") \/ At(c, "sendPost") => handler[c].to \in ConnId
         /\ At(c, "count") =>
              /\ handler[c].user \in User
              /\ handler[c].read \in ShortRange /\ handler[c].by \in {1, -1}
         /\ At(c, "visit") \/ At(c, "deliver") \/ At(c, "sendPost") =>
              handler[c].user \in User /\ handler[c].post \in Post
         /\ At(c, "deliver") \/ At(c, "sendPost") =>
              handler[c].other \in User /\ handler[c].online \in BOOLEAN
  BY HandlerFields DEF TypeOK, At

(***************************************************************************)
(* A request that ends or starts a handler and changes nothing else.       *)
(***************************************************************************)
LEMMA ScanType ==
  ASSUME TypeInv, NEW c \in Conn, NEW op, Ready(c, op), Stepped(c), UNCHANGED shared
  PROVE  TypeInv'
<1>1. RestOK' /\ usersMap' = usersMap
  BY DEF TypeInv, TypeOK, RestOK, shared, maps, status, graph, counter, mail, history
<1>2. Cardinality(Busy) < NThreads
  BY DEF Ready, Busy
<1> QED  BY <1>1, <1>2, SteppedType

LEMMA SteppedFinish ==
  ASSUME NEW c \in Conn, NEW sent \in SUBSET Frame, Finish(c, sent)
  PROVE  Stepped(c)
  BY DEF Finish, Stepped, Handler, Idle

LEMMA SteppedContinue ==
  ASSUME NEW c \in Conn, NEW h \in Handler, h.step # "register", Continue(c, h)
  PROVE  Stepped(c)
  BY DEF Continue, Stepped

LEMMA RegisterScanType ==
  ASSUME TypeInv, NEW c \in Conn, NEW n \in Name, RegisterScan(c, n)
  PROVE  TypeInv'
<1>1. CASE Matching(n) = {} /\ Continue(c, [step |-> "register", name |-> n])
  <2>1. RegisterInv'
    BY <1>1, RegisterScanKeepsRegisterInv
       DEF RegisterScan, Continue, shared, maps
  <2>2. [step |-> "register", name |-> n] \in Handler
    BY DEF Handler
  <2>3. handler' \in [Conn -> Handler] /\ frames' \subseteq Frame
    BY <1>1, <2>2, ContinueType DEF TypeInv
  <2>4. TypeOK'
    BY <2>3 DEF RegisterScan, TypeInv, TypeOK, shared, maps, status, graph, counter, mail, history
  <2> QED  BY <2>1, <2>4 DEF TypeInv
<1>2. CASE Finish(c, {Reply(c, "ERROR", "REGISTER")})
  <2>1. Stepped(c)
    BY <1>2, ReplyType, SteppedFinish DEF AllOps
  <2> QED  BY <2>1, ScanType DEF RegisterScan
<1> QED  BY <1>1, <1>2 DEF RegisterScan

LEMMA RegisterPutType ==
  ASSUME TypeInv, NEW c \in Conn, RegisterPut(c)
  PROVE  TypeInv'
<1>1. PICK n \in Name : n = handler[c].name
  BY RunningFields DEF RegisterPut, TypeInv
<1>2. RegisterInv' /\ usersMap[n] < NThreads
  BY <1>1, RegisterPutKeepsRegisterInv
<1>3. usersMap[n] \in Nat /\ usersMap[n] + 1 \in 1..MaxSerial
  BY <1>2, ParameterAssumption DEF TypeInv, TypeOK
<1>4. usersMap' \in [Name -> 0..MaxSerial]
  BY <1>1, <1>3 DEF RegisterPut, TypeInv, TypeOK
<1>5. [username |-> n, serial |-> usersMap[n] + 1] \in User
  BY <1>3 DEF User
<1>6. stale' \subseteq Steps \X User \X User
  BY <1>1, <1>5, NoteStaleType DEF RegisterPut, TypeInv
<1>7. handler' \in [Conn -> Handler] /\ frames' \subseteq Frame
  BY FinishType, ReplyType DEF RegisterPut, TypeInv, AllOps
<1>8. TypeOK'
  BY <1>4, <1>6, <1>7 DEF RegisterPut, TypeInv, TypeOK, status, graph, counter, mail
<1> QED  BY <1>2, <1>8 DEF TypeInv

LEMMA LoginScanType ==
  ASSUME TypeInv, NEW c \in Conn, NEW n \in Name, NEW valid \in BOOLEAN, LoginScan(c, n, valid)
  PROVE  TypeInv'
<1> DEFINE u == UserOf(FirstOf[Matching(n)])
           h == [step |-> "activate", user |-> u, name |-> n]
<1>1. CASE Matching(n) # {} /\ Continue(c, h)
  <2>1. FirstOf[Matching(n)] \in Registered
    BY <1>1, LookupTypes DEF Matching, Registered, TypeInv
  <2>2. h \in Handler /\ h.step # "register"
    BY <2>1, LookupTypes DEF Handler, TypeInv
  <2>3. Stepped(c)
    BY <1>1, <2>2, SteppedContinue
  <2> QED  BY <2>3, ScanType DEF LoginScan
<1>2. CASE Finish(c, {Reply(c, "ERROR", "LOGIN")})
  <2>1. Stepped(c)
    BY <1>2, ReplyType, SteppedFinish DEF AllOps
  <2> QED  BY <2>1, ScanType DEF LoginScan
<1> QED  BY <1>1, <1>2 DEF LoginScan

LEMMA LoginActivateType ==
  ASSUME TypeInv, NEW c \in Conn, LoginActivate(c)
  PROVE  TypeInv'
<1>1. handler[c].user \in User /\ handler[c].name \in Name
  BY RunningFields DEF LoginActivate, TypeInv
<1>2. [step |-> "setConn", user |-> handler[c].user] \in Handler
  BY <1>1 DEF Handler
<1>3. Stepped(c)
  BY <1>2, SteppedContinue DEF LoginActivate
<1>4. stale' \subseteq Steps \X User \X User
  BY <1>1, NoteStaleType DEF LoginActivate, TypeInv
<1>5. RestOK'
  BY <1>1, <1>4 DEF LoginActivate, RestOK, TypeInv, TypeOK, graph, counter, mail
<1>6. usersMap' = usersMap /\ handler[c] # Idle
  BY DEF LoginActivate, At, Idle
<1> QED  BY <1>3, <1>5, <1>6, SteppedType

LEMMA LoginSetConnType ==
  ASSUME TypeInv, NEW c \in Conn, LoginSetConn(c)
  PROVE  TypeInv'
<1>1. handler[c].user \in User
  BY RunningFields DEF LoginSetConn, TypeInv
<1>2. [step |-> "ackLogin", user |-> handler[c].user] \in Handler
  BY <1>1 DEF Handler
<1>3. Stepped(c)
  BY <1>2, SteppedContinue DEF LoginSetConn
<1>4. RestOK'
  BY <1>1 DEF LoginSetConn, RestOK, TypeInv, TypeOK, ConnId, maps, graph, counter, mail, history
<1>5. usersMap' = usersMap /\ handler[c] # Idle
  BY DEF LoginSetConn, At, Idle, maps
<1> QED  BY <1>3, <1>4, <1>5, SteppedType

LEMMA LoginAckType ==
  ASSUME TypeInv, NEW c \in Conn, LoginAck(c)
  PROVE  TypeInv'
<1>1. handler[c].user \in User
  BY RunningFields DEF LoginAck, TypeInv
<1>2. Idle \in Handler /\ [step |-> "drain", user |-> handler[c].user, next |-> 1] \in Handler
  BY <1>1 DEF Handler
<1>3. frames' \subseteq Frame
  BY ReplyType DEF LoginAck, AllOps
<1>4. Stepped(c)
  BY <1>2, <1>3 DEF LoginAck, Stepped, Idle
<1>5. RestOK'
  BY <1>1 DEF LoginAck, RestOK, TypeInv, TypeOK, maps, status, graph, counter, mail
<1>6. usersMap' = usersMap /\ handler[c] # Idle
  BY DEF LoginAck, At, Idle, maps
<1> QED  BY <1>4, <1>5, <1>6, SteppedType

(***************************************************************************)
(* What the two loops hold on to does not shrink under them: the posts     *)
(* kept for a user, and the registered names.                              *)
(***************************************************************************)
LoopInv ==
  \A c \in Conn :
    /\ At(c, "drain") \/ At(c, "sendKept") =>
         handler[c].next \in 1..Len(awaitingPosts[handler[c].user])
    /\ At(c, "sendKept") /\ handler[c].more =>
         handler[c].next < Len(awaitingPosts[handler[c].user])
    /\ At(c, "visit") \/ At(c, "deliver") \/ At(c, "sendPost") =>
         handler[c].post.left \subseteq Registered

LEMMA LoginDrainType ==
  ASSUME TypeInv, LoopInv, NEW c \in Conn, LoginDrain(c)
  PROVE  TypeInv'
<1> DEFINE u == handler[c].user
           i == handler[c].next
           more == i < Len(awaitingPosts[u])
           h == [step |-> "sendKept", user |-> u, next |-> i, more |-> more, to |-> connId[u]]
<1>1. u \in User /\ i \in Nat
  BY RunningFields DEF LoginDrain, TypeInv
<1>2. connId[u] \in ConnId /\ more \in BOOLEAN
  BY <1>1 DEF TypeInv, TypeOK
<1>3. h \in Handler /\ h.step # "register"
  <2> HIDE DEF more
  <2> QED  BY <1>1, <1>2 DEF Handler
<1>4. Stepped(c)
  BY <1>3, SteppedContinue DEF LoginDrain
<1>5. RestOK' /\ usersMap' = usersMap
  BY DEF LoginDrain, RestOK, TypeInv, TypeOK, shared, maps, status, graph, counter, mail, history
<1>6. handler[c] # Idle
  BY DEF LoginDrain, At, Idle
<1> QED  BY <1>4, <1>5, <1>6, SteppedType

LEMMA LoginSendType ==
  ASSUME TypeInv, LoopInv, NEW c \in Conn, LoginSend(c)
  PROVE  TypeInv'
<1> DEFINE u == handler[c].user
           i == handler[c].next
<1>1. u \in User /\ i \in Nat /\ handler[c].to \in ConnId
  BY RunningFields DEF LoginSend, TypeInv
<1>2. awaitingPosts[u] \in Seq(User) /\ i \in 1..Len(awaitingPosts[u])
  BY <1>1 DEF LoginSend, LoopInv, TypeInv, TypeOK
<1>3. awaitingPosts[u][i] \in User
  BY <1>2
<1>4. Idle \in Handler /\ [step |-> "drain", user |-> u, next |-> i + 1] \in Handler
  BY <1>1 DEF Handler
<1>5. frames' \subseteq Frame
  BY <1>1, <1>3, NotifyType DEF LoginSend, AllOps
<1>6. Stepped(c)
  BY <1>4, <1>5 DEF LoginSend, Stepped, Idle
<1>7. RestOK'
  BY <1>1 DEF LoginSend, RestOK, TypeInv, TypeOK, maps, status, graph, counter, mail
<1>8. usersMap' = usersMap /\ handler[c] # Idle
  BY DEF LoginSend, At, Idle, maps
<1> QED  BY <1>6, <1>7, <1>8, SteppedType

LEMMA LogoutScanType ==
  ASSUME TypeInv, NEW c \in Conn, LogoutScan(c)
  PROVE  TypeInv'
<1> DEFINE h == [step |-> "deactivate", user |-> Me(c)]
<1>1. CASE Me(c) # NoUser /\ Continue(c, h)
  <2>1. h \in Handler /\ h.step # "register"
    BY <1>1, LookupTypes DEF Handler, TypeInv
  <2>2. Stepped(c)
    BY <1>1, <2>1, SteppedContinue
  <2> QED  BY <2>2, ScanType DEF LogoutScan
<1>2. CASE Finish(c, {Reply(c, "ERROR", "LOGOUT")})
  <2>1. Stepped(c)
    BY <1>2, ReplyType, SteppedFinish DEF AllOps
  <2> QED  BY <2>1, ScanType DEF LogoutScan
<1> QED  BY <1>1, <1>2 DEF LogoutScan

LEMMA LogoutDeactivateType ==
  ASSUME TypeInv, NEW c \in Conn, LogoutDeactivate(c)
  PROVE  TypeInv'
<1>1. handler[c].user \in User
  BY RunningFields DEF LogoutDeactivate, TypeInv
<1>2. Stepped(c)
  BY ReplyType, SteppedFinish DEF LogoutDeactivate, AllOps
<1>3. stale' \subseteq Steps \X User \X User
  BY <1>1, NoteStaleType DEF LogoutDeactivate, TypeInv
<1>4. RestOK'
  BY <1>1, <1>3 DEF LogoutDeactivate, RestOK, TypeInv, TypeOK, maps, graph, counter, mail
<1>5. usersMap' = usersMap /\ handler[c] # Idle
  BY DEF LogoutDeactivate, At, Idle, maps
<1> QED  BY <1>2, <1>4, <1>5, SteppedType

LEMMA FollowScanType ==
  ASSUME TypeInv, NEW c \in Conn, NEW words \in SUBSET Name, FollowScan(c, words)
  PROVE  TypeInv'
<1> DEFINE h == [step |-> "follow", user |-> Me(c),
                 other |-> UserOf(FirstOf[Named(words)])]
<1>1. Ready(c, "FOLLOW") /\ UNCHANGED shared
  BY DEF FollowScan, FollowRequest
<1>2. CASE Named(words) # {} /\ Me(c) # NoUser /\ Continue(c, h)
  <2>1. FirstOf[Named(words)] \in Registered
    BY <1>2, LookupTypes DEF Named, Registered, TypeInv
  <2>2. h \in Handler /\ h.step # "register"
    BY <1>2, <2>1, LookupTypes DEF Handler, TypeInv
  <2>3. Stepped(c)
    BY <1>2, <2>2, SteppedContinue
  <2> QED  BY <1>1, <2>3, ScanType
<1>3. CASE Finish(c, {Reply(c, "ERROR", "FOLLOW")}) \/ Finish(c, {})
  <2>1. Stepped(c)
    BY <1>3, ReplyType, SteppedFinish DEF AllOps
  <2> QED  BY <1>1, <2>1, ScanType
<1> QED  BY <1>2, <1>3 DEF FollowScan, FollowRequest

LEMMA UnfollowScanType ==
  ASSUME TypeInv, NEW c \in Conn, NEW words \in SUBSET Name, UnfollowScan(c, words)
  PROVE  TypeInv'
<1> DEFINE h == [step |-> "unfollow", user |-> Me(c),
                 other |-> UserOf(FirstOf[Named(words)])]
<1>1. Ready(c, "UNFOLLOW") /\ UNCHANGED shared
  BY DEF UnfollowScan, FollowRequest
<1>2. CASE Named(words) # {} /\ Me(c) # NoUser /\ Continue(c, h)
  <2>1. FirstOf[Named(words)] \in Registered
    BY <1>2, LookupTypes DEF Named, Registered, TypeInv
  <2>2. h \in Handler /\ h.step # "register"
    BY <1>2, <2>1, LookupTypes DEF Handler, TypeInv
  <2>3. Stepped(c)
    BY <1>2, <2>2, SteppedContinue
  <2> QED  BY <1>1, <2>3, ScanType
<1>3. CASE Finish(c, {Reply(c, "ERROR", "UNFOLLOW")}) \/ Finish(c, {})
  <2>1. Stepped(c)
    BY <1>3, ReplyType, SteppedFinish DEF AllOps
  <2> QED  BY <1>1, <2>1, ScanType
<1> QED  BY <1>2, <1>3 DEF UnfollowScan, FollowRequest

\* removing from a queue of followers leaves a bag of users
LEMMA DroppedType ==
  ASSUME NEW f \in [User -> [User -> Nat]], NEW u \in User, NEW v \in User
  PROVE  Dropped(f, u, v) \in [User -> [User -> Nat]]
<1>1. f[u][v] \in Nat /\ (IF f[u][v] > 0 THEN f[u][v] - 1 ELSE 0) \in Nat
  OBVIOUS
<1>2. [f[u] EXCEPT ![v] = IF @ > 0 THEN @ - 1 ELSE 0] \in [User -> Nat]
  BY <1>1
<1> QED  BY <1>2 DEF Dropped

LEMMA FollowAddType ==
  ASSUME TypeInv, NEW c \in Conn, FollowAdd(c)
  PROVE  TypeInv'
<1> DEFINE u == handler[c].user
           v == handler[c].other
           h == [step |-> "count", user |-> u, read |-> following[u], by |-> 1]
<1>1. u \in User /\ v \in User
  BY RunningFields DEF FollowAdd, TypeInv
<1>2. h \in Handler /\ h.step # "register"
  BY <1>1 DEF Handler, TypeInv, TypeOK
<1>3. Stepped(c)
  BY <1>2, SteppedContinue DEF FollowAdd
<1>4. stale' \subseteq Steps \X User \X User
  <2>1. NoteStale(c, u, v)
    BY DEF FollowAdd
  <2>2. TypeOK
    BY DEF TypeInv
  <2> HIDE DEF u, v
  <2> QED  BY <1>1, <2>1, <2>2, NoteStaleType
<1>5. followers' \in [User -> [User -> Nat]]
  <2>1. followers \in [User -> [User -> Nat]]
    BY DEF TypeInv, TypeOK
  <2>2. followers' = [followers EXCEPT ![u][v] = @ + 1]
    BY DEF FollowAdd
  <2> HIDE DEF u, v
  <2> QED  BY <1>1, <2>1, <2>2
<1>6. RestOK'
  BY <1>4, <1>5 DEF FollowAdd, RestOK, TypeInv, TypeOK, maps, status, counter, mail
<1>7. usersMap' = usersMap /\ handler[c] # Idle
  BY DEF FollowAdd, At, Idle, maps
<1> QED  BY <1>3, <1>6, <1>7, SteppedType

LEMMA UnfollowRemoveType ==
  ASSUME TypeInv, NEW c \in Conn, UnfollowRemove(c)
  PROVE  TypeInv'
<1> DEFINE u == handler[c].user
           v == handler[c].other
           h == [step |-> "count", user |-> u, read |-> following[u], by |-> -1]
<1>1. u \in User /\ v \in User
  BY RunningFields DEF UnfollowRemove, TypeInv
<1>2. h \in Handler /\ h.step # "register"
  BY <1>1 DEF Handler, TypeInv, TypeOK
<1>3. Stepped(c)
  BY <1>2, SteppedContinue DEF UnfollowRemove
<1>4. stale' \subseteq Steps \X User \X User
  <2>1. NoteStale(c, u, v)
    BY DEF UnfollowRemove
  <2>2. TypeOK
    BY DEF TypeInv
  <2> HIDE DEF u, v
  <2> QED  BY <1>1, <2>1, <2>2, NoteStaleType
<1>5. followers' \in [User -> [User -> Nat]]
  BY <1>1, DroppedType DEF UnfollowRemove, TypeInv, TypeOK
<1>6. RestOK'
  BY <1>4, <1>5 DEF UnfollowRemove, RestOK, TypeInv, TypeOK, maps, status, counter, mail
<1>7. usersMap' = usersMap /\ handler[c] # Idle
  BY DEF UnfollowRemove, At, Idle, maps
<1> QED  BY <1>3, <1>6, <1>7, SteppedType

LEMMA FollowCountType ==
  ASSUME TypeInv, NEW c \in Conn, FollowCount(c)
  PROVE  TypeInv'
<1> DEFINE sum == handler[c].read + handler[c].by
<1>1. /\ handler[c].user \in User
      /\ handler[c].read \in ShortRange /\ handler[c].by \in {1, -1}
  BY RunningFields DEF FollowCount, TypeInv
<1>2. Stepped(c)
  BY ReplyType, SteppedFinish DEF FollowCount, AllOps
<1>3. stale' \subseteq Steps \X User \X User
  BY <1>1, NoteStaleType DEF FollowCount, TypeInv
<1>4. following' \in [User -> ShortRange] /\ wrapped' \subseteq User
  <2>1. sum \in Int
    BY <1>1, ParameterAssumption DEF ShortRange
  <2>2. Short(sum) \in ShortRange
    BY <2>1, ShortType
  <2> QED  BY <1>1, <2>2 DEF FollowCount, TypeInv, TypeOK
<1>5. RestOK'
  BY <1>3, <1>4 DEF FollowCount, RestOK, TypeInv, TypeOK, maps, status, mail
<1>6. usersMap' = usersMap /\ handler[c] # Idle
  BY DEF FollowCount, At, Idle, maps
<1> QED  BY <1>2, <1>5, <1>6, SteppedType

LEMMA PostScanType ==
  ASSUME TypeInv, NEW c \in Conn, NEW tags \in Seq(Name), PostScan(c, tags)
  PROVE  TypeInv'
<1> DEFINE me == Me(c)
           free == {u \in User : Tagged(tags)[u] > 0 /\ ~Follows(u, me)}
           tagged == [u \in User |-> IF u \in free THEN Tagged(tags)[u] ELSE 0]
           due == [u \in User |-> IF u \in free THEN Tagged(tags)[u] ELSE 1]
           post == [left |-> Registered, free |-> free, tagged |-> tagged, due |-> due]
           h == [step |-> "visit", user |-> me, post |-> post]
<1>1. Stepped(c)
  <2>1. CASE me # NoUser /\ Continue(c, h)
    <3>1. free \in SUBSET User /\ tagged \in [User -> Nat] /\ due \in [User -> Nat]
      <4>1. \A u \in User : Tagged(tags)[u] \in Nat
        BY TaggedType
      <4> HIDE DEF free
      <4>2. tagged \in [User -> Nat] /\ due \in [User -> Nat]
        BY <4>1
      <4> QED  BY <4>2 DEF free
    <3>2. Me(c) \in User /\ Registered \in SUBSET Name
      BY <2>1, LookupTypes DEF Registered, TypeInv
    <3> HIDE DEF free, tagged, due
    <3>3. post \in Post
      BY <3>1, <3>2 DEF Post
    <3> HIDE DEF post
    <3>4. h \in Handler /\ h.step # "register"
      BY <3>2, <3>3 DEF Handler
    <3> QED  BY <2>1, <3>4, SteppedContinue
  <2>2. CASE Finish(c, {Reply(c, "ERROR", "POST")})
    BY <2>2, ReplyType, SteppedFinish DEF AllOps
  <2> QED  BY <2>1, <2>2 DEF PostScan
<1>2. posts' \in 0..MaxPosts
  BY ParameterAssumption DEF PostScan, TypeInv, TypeOK
<1>3. RestOK' /\ usersMap' = usersMap
  BY <1>2 DEF PostScan, RestOK, TypeInv, TypeOK, maps, status, graph, counter, history
<1>4. Cardinality(Busy) < NThreads
  BY DEF PostScan, Ready, Busy
<1> QED  BY <1>1, <1>3, <1>4, SteppedType

LEMMA DeliverStepped ==
  ASSUME TypeInv, NEW c \in Conn, At(c, "visit"), NEW u \in User, NEW post \in Post,
         Deliver(c, u, post)
  PROVE  Stepped(c)
<1> DEFINE h == [step |-> "deliver", user |-> handler[c].user, post |-> post,
                 other |-> u, online |-> isActivated[u]]
<1>1. handler[c].user \in User
  BY RunningFields DEF TypeInv
<1>2. isActivated[u] \in BOOLEAN
  BY DEF TypeInv, TypeOK
<1>3. h \in Handler /\ h.step # "register"
  BY <1>1, <1>2 DEF Handler
<1> QED  BY <1>3, SteppedContinue DEF Deliver

\* one entry fewer in the queue, or one address fewer due
LEMMA PostCounts ==
  ASSUME NEW p \in Post, NEW u \in User
  PROVE  /\ p.tagged[u] > 0 => [p EXCEPT !.tagged[u] = @ - 1] \in Post
         /\ [p EXCEPT !.due[u] = IF @ > 0 THEN @ - 1 ELSE 0] \in Post
<1>1. p.tagged \in [User -> Nat] /\ p.due \in [User -> Nat]
  BY DEF Post
<1>2. ASSUME p.tagged[u] > 0 PROVE [p EXCEPT !.tagged[u] = @ - 1] \in Post
  <2>1. [p.tagged EXCEPT ![u] = @ - 1] \in [User -> Nat]
    BY <1>1, <1>2
  <2>2. [p EXCEPT !.tagged[u] = @ - 1] = [p EXCEPT !.tagged = [p.tagged EXCEPT ![u] = @ - 1]]
    BY DEF Post
  <2> QED  BY <2>1, <2>2 DEF Post
<1>3. [p EXCEPT !.due[u] = IF @ > 0 THEN @ - 1 ELSE 0] \in Post
  <2>1. [p.due EXCEPT ![u] = IF @ > 0 THEN @ - 1 ELSE 0] \in [User -> Nat]
    BY <1>1
  <2>2. [p EXCEPT !.due[u] = IF @ > 0 THEN @ - 1 ELSE 0]
          = [p EXCEPT !.due = [p.due EXCEPT ![u] = IF @ > 0 THEN @ - 1 ELSE 0]]
    BY DEF Post
  <2> QED  BY <2>1, <2>2 DEF Post
<1> QED  BY <1>2, <1>3

LEMMA PostVisitType ==
  ASSUME TypeInv, LoopInv, NEW c \in Conn, PostVisit(c)
  PROVE  TypeInv'
<1> DEFINE h == handler[c]
           u == UserOf(FirstOf[h.post.left])
           rest == [h.post EXCEPT !.left = @ \ {FirstOf[h.post.left]}]
           waiting == {v \in User : h.post.tagged[v] > 0}
<1>1. At(c, "visit") /\ handler[c] # Idle
  BY DEF PostVisit, At, Idle
<1>2. h \in Handler /\ h.user \in User /\ h.post \in Post
  BY <1>1, RunningFields DEF TypeInv
<1>3. rest \in Post
  <2>1. h.post.left \ {FirstOf[h.post.left]} \in SUBSET Name
    BY <1>2, PostFields
  <2> QED  BY <1>2, <2>1, PostFields
<1>4. h.post.left # {} => u \in User
  BY <1>1, <1>2, LookupTypes, PostFields DEF LoopInv, TypeInv
<1>5. Stepped(c)
  <2>1. CASE h.post.left # {} /\ Deliver(c, u, rest)
    BY <1>1, <1>3, <1>4, <2>1, DeliverStepped
  <2>2. CASE Continue(c, [h EXCEPT !.post = rest])
    <3> HIDE DEF rest
    <3>1. [h EXCEPT !.post = rest] \in [step : {"visit"}, user : User, post : Post]
      BY <1>1, <1>2, <1>3, VisitFields DEF At
    <3>2. /\ [h EXCEPT !.post = rest] \in Handler
          /\ [h EXCEPT !.post = rest].step # "register"
      BY <3>1 DEF Handler
    <3> QED  BY <2>2, <3>2, SteppedContinue
  <2>3. ASSUME NEW v \in waiting, Deliver(c, v, [h.post EXCEPT !.tagged[v] = @ - 1])
        PROVE  Stepped(c)
    <3>1. v \in User /\ [h.post EXCEPT !.tagged[v] = @ - 1] \in Post
      BY <1>2, <2>3, PostCounts
    <3> QED  BY <1>1, <2>3, <3>1, DeliverStepped
  <2>4. CASE Finish(c, {Reply(c, "ACK", "POST")})
    BY <2>4, ReplyType, SteppedFinish DEF AllOps
  <2> QED  BY <2>1, <2>2, <2>3, <2>4 DEF PostVisit
<1>6. stale' \subseteq Steps \X User \X User
  BY <1>2, NoteStaleType DEF PostVisit, TypeInv
<1>7. RestOK' /\ usersMap' = usersMap
  BY <1>6 DEF PostVisit, RestOK, TypeInv, TypeOK, maps, status, graph, counter, mail
<1> QED  BY <1>1, <1>5, <1>7, SteppedType

LEMMA OnFromType ==
  ASSUME NEW h, h.user \in User, h.post \in Post, NEW u \in User
  PROVE  OnFrom(h, u) \in Handler /\ OnFrom(h, u).step = "visit"
<1>1. [h.post EXCEPT !.due[u] = IF @ > 0 THEN @ - 1 ELSE 0] \in Post
  BY PostCounts
<1> QED  BY <1>1 DEF OnFrom, Handler

LEMMA PostDeliverType ==
  ASSUME TypeInv, NEW c \in Conn, PostDeliver(c)
  PROVE  TypeInv'
<1> DEFINE h == handler[c]
           g == [step |-> "sendPost", user |-> h.user, post |-> h.post,
                 other |-> h.other, online |-> TRUE, to |-> connId[h.other]]
<1>1. At(c, "deliver") /\ handler[c] # Idle
  BY DEF PostDeliver, At, Idle
<1>2. h.user \in User /\ h.other \in User /\ h.post \in Post
  BY <1>1, RunningFields DEF TypeInv
<1>3. g \in Handler /\ g.step # "register"
  <2>1. connId[h.other] \in ConnId
    BY <1>2 DEF TypeInv, TypeOK
  <2> QED  BY <1>2, <2>1 DEF Handler
<1>4. OnFrom(h, h.other) \in Handler /\ OnFrom(h, h.other).step # "register"
  BY <1>2, OnFromType
<1>5. Stepped(c)
  BY <1>3, <1>4, SteppedContinue DEF PostDeliver
<1>6. stale' \subseteq Steps \X User \X User
  BY <1>2, NoteStaleType DEF PostDeliver, TypeInv
<1>7. awaitingPosts' \in [User -> Seq(User)]
  <2>1. awaitingPosts \in [User -> Seq(User)]
    BY DEF TypeInv, TypeOK
  <2>2. Append(awaitingPosts[h.other], h.user) \in Seq(User)
    BY <1>2, <2>1
  <2>3. \/ awaitingPosts' = awaitingPosts
        \/ awaitingPosts' = [awaitingPosts EXCEPT ![h.other] = Append(@, h.user)]
    BY DEF PostDeliver
  <2> QED  BY <1>2, <2>1, <2>2, <2>3
<1>8. RestOK' /\ usersMap' = usersMap
  BY <1>6, <1>7 DEF PostDeliver, RestOK, TypeInv, TypeOK, maps, status, graph, counter
<1> QED  BY <1>1, <1>5, <1>8, SteppedType

LEMMA PostSendType ==
  ASSUME TypeInv, NEW c \in Conn, PostSend(c)
  PROVE  TypeInv'
<1> DEFINE h == handler[c]
<1>1. At(c, "sendPost") /\ handler[c] # Idle
  BY DEF PostSend, At, Idle
<1>2. h.user \in User /\ h.other \in User /\ h.post \in Post /\ h.to \in ConnId
  BY <1>1, RunningFields DEF TypeInv
<1>3. OnFrom(h, h.other) \in Handler /\ OnFrom(h, h.other).step # "register"
  BY <1>2, OnFromType
<1>4. frames' \subseteq Frame
  BY <1>2, NotifyType DEF PostSend, AllOps
<1>5. Stepped(c)
  BY <1>3, <1>4 DEF PostSend, Stepped
<1>6. stale' \subseteq Steps \X User \X User
  BY <1>2, NoteStaleType DEF PostSend, TypeInv
<1>7. RestOK' /\ usersMap' = usersMap
  BY <1>6 DEF PostSend, RestOK, TypeInv, TypeOK, maps, status, graph, counter, mail
<1> QED  BY <1>1, <1>5, <1>7, SteppedType

LEMMA PmScanType ==
  ASSUME TypeInv, NEW c \in Conn, NEW words \in SUBSET Name, PmScan(c, words)
  PROVE  TypeInv'
<1> DEFINE me == MeOrLast(c)
           other == UserOf(IF Named(words) # {} THEN FirstOf[Named(words)] ELSE LastOf[Registered])
           h == [step |-> "pm", user |-> me, other |-> other]
<1>1. CASE me # NoUser /\ Registered # {} /\ Continue(c, h)
  <2>1. Named(words) \subseteq Registered /\ Registered \in SUBSET Name
    BY DEF Named, Registered
  <2>2. other \in User
    BY <1>1, <2>1, LookupTypes DEF TypeInv
  <2>3. h \in Handler /\ h.step # "register"
    BY <1>1, <2>2, LookupTypes DEF Handler, TypeInv
  <2>4. Stepped(c)
    BY <1>1, <2>3, SteppedContinue
  <2> QED  BY <2>4, ScanType DEF PmScan
<1>2. CASE Finish(c, {Reply(c, "ERROR", "PM")})
  <2>1. Stepped(c)
    BY <1>2, ReplyType, SteppedFinish DEF AllOps
  <2> QED  BY <2>1, ScanType DEF PmScan
<1> QED  BY <1>1, <1>2 DEF PmScan

LEMMA PmCutType ==
  ASSUME TypeInv, NEW c \in Conn, PmCut(c)
  PROVE  TypeInv'
<1> DEFINE h == handler[c]
           g == [step |-> "sendPm", user |-> h.user, other |-> h.other, to |-> connId[h.other]]
<1>1. h.user \in User /\ h.other \in User
  BY RunningFields DEF PmCut, TypeInv
<1>2. g \in Handler /\ g.step # "register"
  <2>1. connId[h.other] \in ConnId
    BY <1>1 DEF TypeInv, TypeOK
  <2> QED  BY <1>1, <2>1 DEF Handler
<1>3. Stepped(c)
  BY <1>2, SteppedContinue, SteppedFinish DEF PmCut
<1>4. stale' \subseteq Steps \X User \X User
  BY <1>1, NoteStaleType DEF PmCut, TypeInv
<1>5. RestOK' /\ usersMap' = usersMap
  BY <1>4 DEF PmCut, RestOK, TypeInv, TypeOK, maps, status, graph, counter, mail
<1>6. handler[c] # Idle
  BY DEF PmCut, At, Idle
<1> QED  BY <1>3, <1>5, <1>6, SteppedType

LEMMA PmSendType ==
  ASSUME TypeInv, NEW c \in Conn, PmSend(c)
  PROVE  TypeInv'
<1> DEFINE h == handler[c]
<1>1. h.user \in User /\ h.other \in User /\ h.to \in ConnId
  BY RunningFields DEF PmSend, TypeInv
<1>2. {Notify(h.to, h.other, "PM", h.user), Reply(c, "ACK", "PM")} \in SUBSET Frame
  BY <1>1, NotifyType, ReplyType DEF AllOps
<1>3. Stepped(c)
  BY <1>2, SteppedFinish DEF PmSend
<1>4. stale' \subseteq Steps \X User \X User
  BY <1>1, NoteStaleType DEF PmSend, TypeInv
<1>5. RestOK' /\ usersMap' = usersMap
  BY <1>4 DEF PmSend, RestOK, TypeInv, TypeOK, maps, status, graph, counter, mail
<1>6. handler[c] # Idle
  BY DEF PmSend, At, Idle
<1> QED  BY <1>3, <1>5, <1>6, SteppedType

LEMMA LogstatType ==
  ASSUME TypeInv, NEW c \in Conn, Logstat(c)
  PROVE  TypeInv'
<1>1. \A k \in Active : activeUsersMap[k] \in User \cup {NoUser}
  BY DEF Active, TypeInv, TypeOK
<1>2. \A keys \in SUBSET Active : Statistics(c, keys) \in SUBSET Frame
  BY <1>1 DEF Statistics, Frame, AllOps, ConnId
<1>3. Active \in SUBSET Active
      /\ \A k : {j \in Active \ {k} : FirstOf[{j, k}] = j} \in SUBSET Active
  OBVIOUS
<1>4. Stepped(c)
  BY <1>2, <1>3, SteppedFinish DEF Logstat
<1> QED  BY <1>4, ScanType DEF Logstat

LEMMA StatType ==
  ASSUME TypeInv, NEW c \in Conn, Stat(c)
  PROVE  TypeInv'
<1>1. Stepped(c)
  BY ReplyType, SteppedFinish DEF Stat, AllOps
<1> QED  BY <1>1, ScanType DEF Stat

LEMMA BlockScanType ==
  ASSUME TypeInv, NEW c \in Conn, NEW words \in SUBSET Name, BlockScan(c, words)
  PROVE  TypeInv'
<1> DEFINE h == [step |-> "block", user |-> Me(c), other |-> UserOf(FirstOf[Named(words)])]
<1>1. CASE Me(c) # NoUser /\ Named(words) # {} /\ Continue(c, h)
  <2>1. FirstOf[Named(words)] \in Registered
    BY <1>1, LookupTypes DEF Named, Registered, TypeInv
  <2>2. h \in Handler /\ h.step # "register"
    BY <1>1, <2>1, LookupTypes DEF Handler, TypeInv
  <2>3. Stepped(c)
    BY <1>1, <2>2, SteppedContinue
  <2> QED  BY <2>3, ScanType DEF BlockScan
<1>2. CASE Finish(c, {Reply(c, "ERROR", "BLOCK")})
  <2>1. Stepped(c)
    BY <1>2, ReplyType, SteppedFinish DEF AllOps
  <2> QED  BY <2>1, ScanType DEF BlockScan
<1> QED  BY <1>1, <1>2 DEF BlockScan

LEMMA BlockAddType ==
  ASSUME TypeInv, NEW c \in Conn, BlockAdd(c)
  PROVE  TypeInv'
<1> DEFINE u == handler[c].user
           v == handler[c].other
           h == [handler[c] EXCEPT !.step = "drop"]
<1>1. u \in User /\ v \in User /\ handler[c] \in Handler /\ handler[c].step = "block"
  BY RunningFields DEF BlockAdd, At, TypeInv
<1>2. handler[c] \in [step : {"follow", "unfollow", "pm", "block", "drop"}, user : User, other : User]
  BY <1>1, PairFields
<1>3. h \in Handler /\ h.step # "register"
  BY <1>2 DEF Handler
<1>4. Stepped(c)
  BY <1>3, SteppedContinue DEF BlockAdd
<1>5. stale' \subseteq Steps \X User \X User
  BY <1>1, NoteStaleType DEF BlockAdd, TypeInv
<1>6. RestOK'
  BY <1>1, <1>5 DEF BlockAdd, RestOK, TypeInv, TypeOK, maps, status, counter, mail
<1>7. usersMap' = usersMap /\ handler[c] # Idle
  BY DEF BlockAdd, At, Idle, maps
<1> QED  BY <1>4, <1>6, <1>7, SteppedType

LEMMA BlockDropType ==
  ASSUME TypeInv, NEW c \in Conn, BlockDrop(c)
  PROVE  TypeInv'
<1>1. handler[c].user \in User /\ handler[c].other \in User
  BY RunningFields DEF BlockDrop, TypeInv
<1>2. Stepped(c)
  BY ReplyType, SteppedFinish DEF BlockDrop, AllOps
<1>3. followers' \in [User -> [User -> Nat]]
  BY <1>1, DroppedType DEF BlockDrop, TypeInv, TypeOK
<1>4. RestOK'
  BY <1>3 DEF BlockDrop, RestOK, TypeInv, TypeOK, maps, status, counter, mail, history
<1>5. usersMap' = usersMap /\ handler[c] # Idle
  BY DEF BlockDrop, At, Idle, maps
<1> QED  BY <1>2, <1>4, <1>5, SteppedType

-----------------------------------------------------------------------------
(* The loops of LOGIN and POST *)

(***************************************************************************)
(* One turn of POST's loops: done, past a name, or to the next addressee,  *)
(* who follows the author or is taken out of the bag.                      *)
(***************************************************************************)
LEMMA VisitSteps ==
  ASSUME TypeOK, NEW c \in Conn, PostVisit(c)
  PROVE  LET h == handler[c]
             g == handler'[c]
             n == FirstOf[h.post.left]
         IN  /\ \A d \in Conn : d # c => handler'[d] = handler[d]
             /\ \/ g.step = "idle"
                \/ /\ g.step \in {"visit", "deliver"} /\ g.user = h.user
                   /\ g.post.free = h.post.free /\ g.post.due = h.post.due
             /\ \/ g.step = "idle"
                \/ /\ h.post.left # {} /\ g.post.left = h.post.left \ {n}
                   /\ g.post.tagged = h.post.tagged
                   /\ g.step = "deliver" => Follows(UserOf(n), h.user) /\ g.other = UserOf(n)
                   /\ g.step = "visit" => ~Follows(UserOf(n), h.user)
                \/ /\ h.post.left = {} /\ g.post.left = {} /\ g.step = "deliver"
                   /\ g.other \in User /\ h.post.tagged[g.other] > 0
                   /\ g.post.tagged = [h.post.tagged EXCEPT ![g.other] = @ - 1]
             /\ g.step = "deliver" => g.online = isActivated[g.other]
<1> DEFINE h == handler[c]
           g == handler'[c]
           n == FirstOf[h.post.left]
           rest == [h.post EXCEPT !.left = @ \ {n}]
           next(u, post) == [step |-> "deliver", user |-> h.user, post |-> post,
                             other |-> u, online |-> isActivated[u]]
<1>1. h \in Handler /\ h.step = "visit" /\ h.post \in Post
  BY RunningFields DEF PostVisit, At
<1>2. \A d \in Conn : d # c => handler'[d] = handler[d]
  BY DEF PostVisit, Deliver, Continue, Finish, TypeOK
<1>3. \A f : handler' = [handler EXCEPT ![c] = f] => g = f
  BY DEF TypeOK
<1>4. /\ rest.left = h.post.left \ {n} /\ rest.tagged = h.post.tagged
      /\ rest.free = h.post.free /\ rest.due = h.post.due
  BY <1>1 DEF Post
<1>5. CASE h.post.left # {} /\ Follows(UserOf(n), h.user) /\ Deliver(c, UserOf(n), rest)
  <2>1. g = next(UserOf(n), rest)
    BY <1>3, <1>5 DEF Deliver, Continue
  <2> HIDE DEF rest, n
  <2> QED  BY <1>2, <1>4, <1>5, <2>1 DEF n
<1>6. CASE h.post.left # {} /\ ~Follows(UserOf(n), h.user) /\ Continue(c, [h EXCEPT !.post = rest])
  <2>1. g = [h EXCEPT !.post = rest]
    BY <1>3, <1>6 DEF Continue
  <2>2. h \in [step : {"visit"}, user : User, post : Post]
    BY <1>1, VisitFields
  <2> HIDE DEF rest
  <2>3. g.step = "visit" /\ g.user = h.user /\ g.post = rest
    BY <2>1, <2>2
  <2> QED  BY <1>2, <1>4, <1>6, <2>3
<1>7. ASSUME NEW v \in User, h.post.tagged[v] > 0, h.post.left = {},
             Deliver(c, v, [h.post EXCEPT !.tagged[v] = @ - 1])
      PROVE  /\ g.step = "deliver" /\ g.user = h.user /\ g.other = v
             /\ g.post.free = h.post.free /\ g.post.due = h.post.due
             /\ g.post.left = {} /\ g.post.tagged = [h.post.tagged EXCEPT ![v] = @ - 1]
             /\ g.online = isActivated[v]
  <2> DEFINE post == [h.post EXCEPT !.tagged[v] = @ - 1]
  <2>1. g = next(v, post)
    BY <1>3, <1>7 DEF Deliver, Continue
  <2>2. /\ post.left = {} /\ post.free = h.post.free /\ post.due = h.post.due
        /\ post.tagged = [h.post.tagged EXCEPT ![v] = @ - 1]
    BY <1>1, <1>7 DEF Post
  <2> HIDE DEF post
  <2> QED  BY <2>1, <2>2
<1>8. CASE Finish(c, {Reply(c, "ACK", "POST")})
  BY <1>2, <1>3, <1>8 DEF Finish, Idle
<1>9. CASE h.post.left = {} /\ \E v \in {w \in User : h.post.tagged[w] > 0} :
                                 Deliver(c, v, [h.post EXCEPT !.tagged[v] = @ - 1])
  BY <1>2, <1>7, <1>9
<1> QED  BY <1>5, <1>6, <1>8, <1>9 DEF PostVisit

\* what OnFrom leaves alone
LEMMA OnSteps ==
  ASSUME NEW h, h.post \in Post, NEW u \in User
  PROVE  /\ OnFrom(h, u).step = "visit" /\ OnFrom(h, u).user = h.user
         /\ OnFrom(h, u).post.left = h.post.left /\ OnFrom(h, u).post.tagged = h.post.tagged
         /\ OnFrom(h, u).post.free = h.post.free
<1> DEFINE post == [h.post EXCEPT !.due[u] = IF @ > 0 THEN @ - 1 ELSE 0]
<1>1. post.left = h.post.left /\ post.tagged = h.post.tagged /\ post.free = h.post.free
  BY DEF Post
<1>2. OnFrom(h, u) = [step |-> "visit", user |-> h.user, post |-> post]
  BY DEF OnFrom
<1> HIDE DEF post
<1> QED  BY <1>1, <1>2

LEMMA LoopKept ==
  ASSUME TypeInv, TypeInv', LoopInv, NEW c \in Conn,
         \A d \in Conn : d # c => handler'[d] = handler[d],
         \A n \in Name : usersMap[n] <= usersMap'[n],
         \A u \in User : Len(awaitingPosts[u]) <= Len(awaitingPosts'[u]),
         handler'[c].step \in {"idle", "visit", "deliver", "sendPost"},
         handler'[c].step \in {"visit", "deliver", "sendPost"} =>
           handler'[c].post.left \subseteq Registered'
  PROVE  LoopInv'
<1>1. Registered \subseteq Registered'
  BY ParameterAssumption DEF Registered, TypeInv, TypeOK
<1>2. ASSUME NEW d \in Conn, d # c
      PROVE  /\ (At(d, "drain") \/ At(d, "sendKept"))' =>
                  handler'[d].next \in 1..Len(awaitingPosts'[handler'[d].user])
             /\ At(d, "sendKept")' /\ handler'[d].more =>
                  handler'[d].next < Len(awaitingPosts'[handler'[d].user])
             /\ (At(d, "visit") \/ At(d, "deliver") \/ At(d, "sendPost"))' =>
                  handler'[d].post.left \subseteq Registered'
  <2>1. handler'[d] = handler[d]
    BY <1>2
  <2>2. CASE At(d, "drain") \/ At(d, "sendKept")
    <3>1. handler[d].user \in User /\ handler[d].next \in Nat
      BY <2>2, RunningFields DEF TypeInv
    <3>2. /\ Len(awaitingPosts[handler[d].user]) \in Nat
          /\ Len(awaitingPosts'[handler[d].user]) \in Nat
          /\ Len(awaitingPosts[handler[d].user]) <= Len(awaitingPosts'[handler[d].user])
      BY <3>1 DEF TypeInv, TypeOK
    <3>3. ~At(d, "visit") /\ ~At(d, "deliver") /\ ~At(d, "sendPost")
      BY <2>2 DEF At
    <3>4. /\ handler[d].next \in 1..Len(awaitingPosts[handler[d].user])
          /\ At(d, "sendKept") /\ handler[d].more =>
               handler[d].next < Len(awaitingPosts[handler[d].user])
      BY <2>2 DEF LoopInv
    <3> QED  BY <2>1, <3>1, <3>2, <3>3, <3>4 DEF At
  <2>3. CASE ~At(d, "drain") /\ ~At(d, "sendKept")
    BY <1>1, <2>1, <2>3 DEF LoopInv, At
  <2> QED  BY <2>2, <2>3
<1>3. QED  BY <1>2 DEF LoopInv, At

\* one handler moves, not into a loop, and no queue changes
LoopFree(c) ==
  /\ \E h : h.step \notin {"drain", "sendKept", "visit", "deliver", "sendPost"}
          /\ handler' = [handler EXCEPT ![c] = h]
  /\ awaitingPosts' = awaitingPosts /\ usersMap' = usersMap

LEMMA LoopFreeKept ==
  ASSUME TypeInv, LoopInv, NEW c \in Conn, LoopFree(c)
  PROVE  LoopInv'
  BY DEF LoopFree, LoopInv, At, Registered, TypeInv, TypeOK

LEMMA RequestLoops ==
  ASSUME TypeInv, LoopInv, NEW c \in Conn, Request(c)
  PROVE  LoopInv'
<1> USE DEF LoopFree, Continue, Finish, Idle, shared, maps, mail
<1>1. ASSUME NEW n \in Name, RegisterScan(c, n) PROVE LoopFree(c)
  BY <1>1 DEF RegisterScan
<1>2. ASSUME NEW n \in Name, NEW valid \in BOOLEAN, LoginScan(c, n, valid) PROVE LoopFree(c)
  BY <1>2 DEF LoginScan
<1>3. ASSUME LogoutScan(c) PROVE LoopFree(c)
  BY <1>3 DEF LogoutScan
<1>4. ASSUME NEW words \in Texts, FollowScan(c, words) PROVE LoopFree(c)
  BY <1>4 DEF FollowScan, FollowRequest
<1>5. ASSUME NEW words \in Texts, UnfollowScan(c, words) PROVE LoopFree(c)
  BY <1>5 DEF UnfollowScan, FollowRequest
<1>6. ASSUME NEW words \in Texts, PmScan(c, words) PROVE LoopFree(c)
  BY <1>6 DEF PmScan
<1>7. ASSUME NEW words \in Texts, BlockScan(c, words) PROVE LoopFree(c)
  BY <1>7 DEF BlockScan
<1>8. ASSUME Logstat(c) PROVE LoopFree(c)
  BY <1>8 DEF Logstat
<1>9. ASSUME Stat(c) PROVE LoopFree(c)
  BY <1>9 DEF Stat
<1>10. ASSUME NEW tags \in Tags, PostScan(c, tags) PROVE LoopInv'
  <2>1. \A d \in Conn : d # c => handler'[d] = handler[d]
    BY <1>10 DEF PostScan, TypeInv, TypeOK
  <2>2. handler'[c].step = "idle" \/ (handler'[c].step = "visit" /\ handler'[c].post.left = Registered)
    BY <1>10 DEF PostScan, TypeInv, TypeOK
  <2>3. awaitingPosts' = awaitingPosts /\ Registered' = Registered
    BY <1>10 DEF PostScan, Registered
  <2> QED  BY <2>1, <2>2, <2>3 DEF LoopInv, At
<1> QED
  BY <1>1, <1>2, <1>3, <1>4, <1>5, <1>6, <1>7, <1>8, <1>9, <1>10, LoopFreeKept DEF Request

LEMMA AdvanceLoops ==
  ASSUME TypeInv, TypeInv', LoopInv, NEW c \in Conn, Advance(c)
  PROVE  LoopInv'
<1> USE DEF LoopFree, Continue, Finish, Idle, shared, maps, mail
<1>1. CASE RegisterPut(c)
  <2>1. \E n \in Name : usersMap' = [usersMap EXCEPT ![n] = @ + 1]
    BY <1>1, RunningFields DEF RegisterPut, TypeInv
  <2>2. \A n \in Name : usersMap[n] <= usersMap'[n]
    BY <2>1, ParameterAssumption DEF TypeInv, TypeOK
  <2>3. \A u \in User : Len(awaitingPosts[u]) \in Nat
    BY DEF TypeInv, TypeOK
  <2>4. handler'[c] = Idle /\ \A d \in Conn : d # c => handler'[d] = handler[d]
    BY <1>1 DEF RegisterPut, TypeInv, TypeOK
  <2>5. awaitingPosts' = awaitingPosts
    BY <1>1 DEF RegisterPut
  <2>6. \A u \in User : Len(awaitingPosts[u]) <= Len(awaitingPosts'[u])
    BY <2>3, <2>5
  <2>7. handler'[c].step = "idle"
    BY <2>4
  <2> HIDE DEF LoopFree, Continue, Finish, Idle, shared, maps, mail
  <2> QED  BY <2>2, <2>4, <2>6, <2>7, LoopKept
<1>2. CASE LoginAck(c)
  <2>1. handler[c].user \in User
    BY <1>2, RunningFields DEF LoginAck, TypeInv
  <2>2. awaitingPosts[handler[c].user] \in Seq(User)
    BY <2>1 DEF TypeInv, TypeOK
  <2>3. \/ handler'[c].step = "idle"
        \/ /\ awaitingPosts[handler[c].user] # <<>>
           /\ handler'[c] = [step |-> "drain", user |-> handler[c].user, next |-> 1]
    BY <1>2 DEF LoginAck, TypeInv, TypeOK
  <2>4. /\ \A d \in Conn : d # c => handler'[d] = handler[d]
        /\ awaitingPosts' = awaitingPosts /\ Registered' = Registered
    BY <1>2 DEF LoginAck, TypeInv, TypeOK, Registered
  <2>5. handler'[c].step = "drain" =>
          handler'[c].next \in 1..Len(awaitingPosts[handler'[c].user])
    BY <2>2, <2>3
  <2>6. handler'[c].step \notin {"sendKept", "visit", "deliver", "sendPost"}
    BY <2>3
  <2> QED  BY <2>4, <2>5, <2>6 DEF LoopInv, At
<1>3. CASE LoginDrain(c)
  <2> DEFINE u == handler[c].user
             i == handler[c].next
             more == i < Len(awaitingPosts[u])
  <2>1. i \in 1..Len(awaitingPosts[u])
    BY <1>3 DEF LoginDrain, LoopInv
  <2>2. handler'[c] = [step |-> "sendKept", user |-> u, next |-> i, more |-> more, to |-> connId[u]]
    BY <1>3 DEF LoginDrain, TypeInv, TypeOK
  <2>3. /\ \A d \in Conn : d # c => handler'[d] = handler[d]
        /\ awaitingPosts' = awaitingPosts /\ Registered' = Registered
    BY <1>3 DEF LoginDrain, TypeInv, TypeOK, Registered
  <2> HIDE DEF u, i, LoopFree, Continue, Finish, Idle, shared, maps, mail
  <2>4. handler'[c].next \in 1..Len(awaitingPosts'[handler'[c].user])
    BY <2>1, <2>2, <2>3
  <2>5. handler'[c].more => handler'[c].next < Len(awaitingPosts'[handler'[c].user])
    <3>1. handler'[c].next = i /\ handler'[c].user = u /\ handler'[c].more = more
      <4> HIDE DEF more
      <4> QED  BY <2>2
    <3>2. more => i < Len(awaitingPosts[u])
      OBVIOUS
    <3> HIDE DEF more
    <3> QED  BY <2>3, <3>1, <3>2
  <2>6. handler'[c].step = "sendKept"
    BY <2>2
  <2> QED  BY <2>3, <2>4, <2>5, <2>6 DEF LoopInv, At
<1>4. CASE LoginSend(c)
  <2>1. handler[c].user \in User /\ handler[c].next \in Nat
    BY <1>4, RunningFields DEF LoginSend, TypeInv
  <2>2. Len(awaitingPosts[handler[c].user]) \in Nat
    BY <2>1 DEF TypeInv, TypeOK
  <2>3. \/ handler'[c].step = "idle"
        \/ /\ handler[c].next < Len(awaitingPosts[handler[c].user])
           /\ handler'[c] = [step |-> "drain", user |-> handler[c].user,
                             next |-> handler[c].next + 1]
    BY <1>4 DEF LoginSend, LoopInv, TypeInv, TypeOK
  <2>4. /\ \A d \in Conn : d # c => handler'[d] = handler[d]
        /\ awaitingPosts' = awaitingPosts /\ Registered' = Registered
    BY <1>4 DEF LoginSend, TypeInv, TypeOK, Registered
  <2>5. handler'[c].step = "drain" =>
          handler'[c].next \in 1..Len(awaitingPosts[handler'[c].user])
    BY <2>1, <2>2, <2>3
  <2>6. handler'[c].step \notin {"sendKept", "visit", "deliver", "sendPost"}
    BY <2>3
  <2> QED  BY <2>4, <2>5, <2>6 DEF LoopInv, At
<1>5. CASE PostVisit(c)
  <2>1. handler[c].post.left \subseteq Registered
    BY <1>5 DEF PostVisit, LoopInv
  <2>2. /\ \/ handler'[c].step = "idle"
           \/ /\ handler'[c].step \in {"visit", "deliver"}
              /\ handler'[c].post.left \subseteq handler[c].post.left
        /\ \A d \in Conn : d # c => handler'[d] = handler[d]
    <3> HIDE DEF LoopFree, Continue, Finish, Idle, shared, maps, mail
    <3> QED  BY <1>5, VisitSteps DEF TypeInv
  <2>3. awaitingPosts' = awaitingPosts /\ Registered' = Registered
    BY <1>5 DEF PostVisit, Registered
  <2>4. handler'[c].step \notin {"drain", "sendKept", "sendPost"}
    BY <2>2
  <2> QED  BY <2>1, <2>2, <2>3, <2>4 DEF LoopInv, At
<1>6. CASE PostDeliver(c)
  <2>1. /\ handler[c].post.left \subseteq Registered /\ handler[c].post \in Post
        /\ handler[c].user \in User /\ handler[c].other \in User
    BY <1>6, RunningFields DEF PostDeliver, LoopInv, TypeInv
  <2>2. handler'[c].step \in {"visit", "sendPost"} /\ handler'[c].post.left = handler[c].post.left
    <3>1. \/ handler'[c] = OnFrom(handler[c], handler[c].other)
          \/ handler'[c].step = "sendPost" /\ handler'[c].post = handler[c].post
      BY <1>6 DEF PostDeliver, TypeInv, TypeOK
    <3>2. /\ OnFrom(handler[c], handler[c].other).step = "visit"
          /\ OnFrom(handler[c], handler[c].other).post.left = handler[c].post.left
      <4> HIDE DEF LoopFree, Continue, Finish, Idle, shared, maps, mail
      <4> QED  BY <2>1, OnSteps
    <3> QED  BY <3>1, <3>2
  <2>3. /\ \A d \in Conn : d # c => handler'[d] = handler[d]
        /\ usersMap' = usersMap /\ Registered' = Registered
    BY <1>6 DEF PostDeliver, TypeInv, TypeOK, Registered
  <2>4. \A n \in Name : usersMap[n] <= usersMap'[n]
    BY <2>3, ParameterAssumption DEF TypeInv, TypeOK
  <2>5. ASSUME NEW u \in User
        PROVE  Len(awaitingPosts[u]) <= Len(awaitingPosts'[u])
    <3>1. awaitingPosts \in [User -> Seq(User)] /\ Len(awaitingPosts[u]) \in Nat
      BY DEF TypeInv, TypeOK
    <3>2. \/ awaitingPosts' = awaitingPosts
          \/ awaitingPosts' = [awaitingPosts EXCEPT
                                 ![handler[c].other] = Append(@, handler[c].user)]
      BY <1>6 DEF PostDeliver
    <3>3. Len(Append(awaitingPosts[handler[c].other], handler[c].user)) =
            Len(awaitingPosts[handler[c].other]) + 1
      BY <2>1, <3>1
    <3> QED  BY <3>1, <3>2, <3>3
  <2> HIDE DEF LoopFree, Continue, Finish, Idle, shared, maps, mail
  <2> QED  BY <2>1, <2>2, <2>3, <2>4, <2>5, LoopKept
<1>7. CASE PostSend(c)
  <2>1. handler[c].post.left \subseteq Registered /\ handler[c].post \in Post /\ handler[c].other \in User
    BY <1>7, RunningFields DEF PostSend, LoopInv, TypeInv
  <2>2. handler'[c] = OnFrom(handler[c], handler[c].other)
    BY <1>7 DEF PostSend, TypeInv, TypeOK
  <2>3. handler'[c].step = "visit" /\ handler'[c].post.left \subseteq Registered
    <3>1. /\ OnFrom(handler[c], handler[c].other).step = "visit"
          /\ OnFrom(handler[c], handler[c].other).post.left = handler[c].post.left
      <4> HIDE DEF LoopFree, Continue, Finish, Idle, shared, maps, mail
      <4> QED  BY <2>1, OnSteps
    <3> QED  BY <2>1, <2>2, <3>1
  <2>4. /\ \A d \in Conn : d # c => handler'[d] = handler[d]
        /\ awaitingPosts' = awaitingPosts /\ Registered' = Registered
    BY <1>7 DEF PostSend, TypeInv, TypeOK, Registered
  <2> QED  BY <2>3, <2>4 DEF LoopInv, At
<1>8. CASE LoginActivate(c)
  <2>1. LoopFree(c)
    BY <1>8 DEF LoginActivate
  <2> QED  BY <2>1, LoopFreeKept
<1>9. CASE LoginSetConn(c)
  <2>1. LoopFree(c)
    BY <1>9 DEF LoginSetConn
  <2> QED  BY <2>1, LoopFreeKept
<1>10. CASE LogoutDeactivate(c)
  <2>1. LoopFree(c)
    BY <1>10 DEF LogoutDeactivate
  <2> QED  BY <2>1, LoopFreeKept
<1>11. CASE FollowAdd(c)
  <2>1. LoopFree(c)
    BY <1>11 DEF FollowAdd
  <2> QED  BY <2>1, LoopFreeKept
<1>12. CASE UnfollowRemove(c)
  <2>1. LoopFree(c)
    BY <1>12 DEF UnfollowRemove
  <2> QED  BY <2>1, LoopFreeKept
<1>13. CASE FollowCount(c)
  <2>1. LoopFree(c)
    BY <1>13 DEF FollowCount
  <2> QED  BY <2>1, LoopFreeKept
<1>14. CASE PmCut(c)
  <2>1. LoopFree(c)
    BY <1>14 DEF PmCut
  <2> QED  BY <2>1, LoopFreeKept
<1>15. CASE PmSend(c)
  <2>1. LoopFree(c)
    BY <1>15 DEF PmSend
  <2> QED  BY <2>1, LoopFreeKept
<1>16. CASE BlockAdd(c)
  <2>1. [handler[c] EXCEPT !.step = "drop"].step = "drop"
    BY <1>16, PairFields DEF BlockAdd, At, TypeInv, TypeOK
  <2>2. LoopFree(c)
    BY <1>16, <2>1 DEF BlockAdd
  <2> QED  BY <2>2, LoopFreeKept
<1>17. CASE BlockDrop(c)
  <2>1. LoopFree(c)
    BY <1>17 DEF BlockDrop
  <2> QED  BY <2>1, LoopFreeKept
<1> QED
  BY <1>1, <1>2, <1>3, <1>4, <1>5, <1>6, <1>7, <1>8, <1>9, <1>10, <1>11, <1>12, <1>13, <1>14, <1>15, <1>16, <1>17
     DEF Advance

-----------------------------------------------------------------------------
(* The inductive invariant *)

IInv == TypeInv /\ LoopInv

LEMMA InitIInv == Init => IInv
<1> SUFFICES ASSUME Init PROVE IInv
  OBVIOUS
<1>1. TypeOK
  BY ParameterAssumption DEF Init, TypeOK, Handler, Steps, ConnId, ShortRange
<1>2. Busy = {} /\ \A n \in Name : Registering(n) = {}
  BY DEF Init, Busy, Registering, At, Idle
<1>3. RegisterInv
  <2>1. Cardinality({}) = 0
    BY FS_EmptySet
  <2>2. Cardinality(Busy) = 0 /\ \A n \in Name : Cardinality(Registering(n)) = 0
    BY <1>2, <2>1
  <2> QED  BY <2>2, ParameterAssumption DEF Init, RegisterInv
<1>4. LoopInv
  BY DEF Init, LoopInv, At, Idle
<1> QED  BY <1>1, <1>3, <1>4 DEF IInv, TypeInv

LEMMA RequestType ==
  ASSUME IInv, NEW c \in Conn, Request(c)
  PROVE  TypeInv'
<1>1. /\ \A words \in Texts : words \in SUBSET Name
      /\ \A tags \in Tags : tags \in Seq(Name)
  BY ParameterAssumption
<1> QED
  BY <1>1, RegisterScanType, LoginScanType, LogoutScanType, FollowScanType, UnfollowScanType,
     PostScanType, PmScanType, LogstatType, StatType, BlockScanType DEF Request, IInv

LEMMA AdvanceType ==
  ASSUME IInv, NEW c \in Conn, Advance(c)
  PROVE  TypeInv'
  BY RegisterPutType, LoginActivateType, LoginSetConnType, LoginAckType,
     LoginDrainType, LoginSendType, LogoutDeactivateType, FollowAddType, UnfollowRemoveType,
     FollowCountType, PostVisitType, PostDeliverType, PostSendType, PmCutType, PmSendType,
     BlockAddType, BlockDropType DEF Advance, IInv

LEMMA NextIInv == IInv /\ [Next]_vars => IInv'
<1> SUFFICES ASSUME IInv, [Next]_vars PROVE IInv'
  OBVIOUS
<1>1. ASSUME NEW c \in Conn, Request(c) PROVE IInv'
  BY <1>1, RequestType, RequestLoops DEF IInv
<1>2. ASSUME NEW c \in Conn, Advance(c) PROVE IInv'
  BY <1>2, AdvanceType, AdvanceLoops DEF IInv
<1>3. CASE UNCHANGED vars
  <2>1. TypeOK'
    BY <1>3 DEF IInv, TypeInv, TypeOK, vars, shared, maps, status, graph, counter, mail, history
  <2>2. RegisterInv' /\ LoopInv'
    BY <1>3 DEF IInv, TypeInv, RegisterInv, LoopInv, Busy, Registering, Registered, At,
                vars, shared, maps, mail
  <2> QED  BY <2>1, <2>2 DEF IInv, TypeInv
<1> QED  BY <1>1, <1>2, <1>3 DEF Next

(***************************************************************************)
(* The inductive invariant holds in every state of every behaviour.        *)
(***************************************************************************)
THEOREM Invariance == Spec => []IInv
<1> QED  BY InitIInv, NextIInv, PTL DEF Spec

(***************************************************************************)
(* Every variable keeps its type: in particular no handler dereferences a  *)
(* user that was never registered, and LOGIN reads awaitingPosts only      *)
(* where there is a post.                                                  *)
(***************************************************************************)
THEOREM Typing == Spec => []TypeOK
<1>1. IInv => TypeOK
  BY DEF IInv, TypeInv
<1> QED  BY <1>1, Invariance, PTL

(***************************************************************************)
(* Racing REGISTERs put at most one User per thread under one name,        *)
(* however often clients send the request.                                 *)
(***************************************************************************)
THEOREM Registrations == Spec => []RegistrationsBounded
<1>1. IInv => RegistrationsBounded
  <2> SUFFICES ASSUME IInv, NEW n \in Name PROVE usersMap[n] <= NThreads
    BY DEF RegistrationsBounded
  <2>1. usersMap[n] \in Nat /\ usersMap[n] + Cardinality(Registering(n)) <= NThreads
    BY ParameterAssumption DEF IInv, TypeInv, TypeOK, RegisterInv
  <2> QED  BY <2>1, Finiteness, ParameterAssumption
<1> QED  BY <1>1, Invariance, PTL

-----------------------------------------------------------------------------
(* FOLLOW against BLOCK *)

(***************************************************************************)
(* BLOCK removes one occurrence from a queue that could hold several: it   *)
(* holds several only after a FOLLOW whose check had become false.         *)
(***************************************************************************)
FollowedOnce ==
  \A u, v \in User : followers[u][v] > 1 => Raced({"follow"}, u, v)

GraphInv == FollowedOnce /\ BlockedNotFollowed

\* one handler moves, not out of BLOCK's removals, and neither queue changes
GraphFree(c) ==
  /\ ~At(c, "drop")
  /\ \E h : handler' = [handler EXCEPT ![c] = h]
  /\ UNCHANGED <<followers, blockingUsers>>
  /\ stale \subseteq stale'

LEMMA GraphFreeKept ==
  ASSUME TypeOK, GraphInv, NEW c \in Conn, GraphFree(c)
  PROVE  GraphInv'
<1>1. \A d \in Conn : At(d, "drop") => handler'[d] = handler[d]
  BY DEF GraphFree, At, TypeOK
<1>2. FollowedOnce'
  BY DEF GraphInv, FollowedOnce, GraphFree, Raced
<1>3. BlockedNotFollowed'
  BY <1>1 DEF GraphInv, BlockedNotFollowed, GraphFree, Raced, Follows, At
<1> QED  BY <1>2, <1>3 DEF GraphInv

LEMMA FollowAddGraph ==
  ASSUME TypeOK, GraphInv, NEW c \in Conn, FollowAdd(c)
  PROVE  GraphInv'
<1> DEFINE a == handler[c].user
           b == handler[c].other
<1>1. a \in User /\ b \in User /\ handler[c].step = "follow"
  BY RunningFields DEF FollowAdd, At
<1>2. CanFollow(a, b) \/ <<"follow", a, b>> \in stale'
  BY <1>1 DEF FollowAdd, NoteStale, CheckHolds
<1>3. stale \subseteq stale'
  BY DEF FollowAdd, NoteStale
<1>4. \A u, v \in User : <<u, v>> # <<a, b>> => followers'[u][v] = followers[u][v]
  BY <1>1 DEF FollowAdd, TypeOK
<1>5. followers'[a][b] = followers[a][b] + 1 /\ followers[a][b] \in Nat
  BY <1>1 DEF FollowAdd, TypeOK
<1>6. \A d \in Conn : At(d, "drop") => handler'[d] = handler[d]
  BY <1>1 DEF FollowAdd, Continue, At, TypeOK
<1>7. blockingUsers' = blockingUsers
  BY DEF FollowAdd
<1>8. ASSUME NEW u \in User, NEW v \in User, followers'[u][v] > 1
      PROVE  <<"follow", u, v>> \in stale'
  <2>1. CASE <<u, v>> = <<a, b>>
    <3>1. ~CanFollow(a, b)
      BY <1>5, <1>8, <2>1 DEF CanFollow, Follows
    <3> QED  BY <1>2, <2>1, <3>1
  <2>2. CASE <<u, v>> # <<a, b>>
    BY <1>3, <1>4, <1>8, <2>2 DEF GraphInv, FollowedOnce, Raced
  <2> QED  BY <2>1, <2>2
<1>9. ASSUME NEW u \in User, NEW v \in User, followers'[u][v] > 0, u \in blockingUsers[v]
      PROVE  \/ <<"follow", u, v>> \in stale'
             \/ \E d \in Conn : At(d, "drop") /\ handler[d].user = v /\ handler[d].other = u
  <2>1. CASE <<u, v>> = <<a, b>>
    <3>1. ~CanFollow(a, b)
      BY <1>9, <2>1 DEF CanFollow
    <3> QED  BY <1>2, <2>1, <3>1
  <2>2. CASE <<u, v>> # <<a, b>>
    BY <1>3, <1>4, <1>9, <2>2 DEF GraphInv, BlockedNotFollowed, Raced, Follows
  <2> QED  BY <2>1, <2>2
<1>10. FollowedOnce'
  BY <1>8 DEF FollowedOnce, Raced
<1>11. BlockedNotFollowed'
  BY <1>6, <1>7, <1>9 DEF BlockedNotFollowed, Raced, Follows, At
<1> QED  BY <1>10, <1>11 DEF GraphInv

\* a removal makes no queue longer
LEMMA DroppedShrinks ==
  ASSUME NEW f \in [User -> [User -> Nat]], NEW a \in User, NEW b \in User
  PROVE  /\ Dropped(f, a, b) \in [User -> [User -> Nat]]
         /\ \A u, v \in User : Dropped(f, a, b)[u][v] <= f[u][v]
         /\ f[a][b] <= 1 => Dropped(f, a, b)[a][b] = 0
<1>1. Dropped(f, a, b) \in [User -> [User -> Nat]]
  BY DroppedType
<1>2. ASSUME NEW u \in User, NEW v \in User
      PROVE  Dropped(f, a, b)[u][v] =
               IF u = a /\ v = b THEN (IF f[a][b] > 0 THEN f[a][b] - 1 ELSE 0) ELSE f[u][v]
  BY DEF Dropped
<1>3. \A u, v \in User : f[u][v] \in Nat
  OBVIOUS
<1> QED  BY <1>1, <1>2, <1>3

LEMMA UnfollowRemoveGraph ==
  ASSUME TypeOK, GraphInv, NEW c \in Conn, UnfollowRemove(c)
  PROVE  GraphInv'
<1>1. handler[c].user \in User /\ handler[c].other \in User /\ handler[c].step = "unfollow"
  BY RunningFields DEF UnfollowRemove, At
<1>2. \A u, v \in User : followers'[u][v] <= followers[u][v]
  BY <1>1, DroppedShrinks DEF UnfollowRemove, TypeOK
<1>3. followers' \in [User -> [User -> Nat]]
  BY <1>1, DroppedShrinks DEF UnfollowRemove, TypeOK
<1>4. \A u, v \in User : followers'[u][v] \in Nat /\ followers[u][v] \in Nat
  BY <1>3 DEF TypeOK
<1>5. stale \subseteq stale' /\ blockingUsers' = blockingUsers
  BY DEF UnfollowRemove, NoteStale
<1>6. \A d \in Conn : At(d, "drop") => handler'[d] = handler[d]
  BY <1>1 DEF UnfollowRemove, Continue, At, TypeOK
<1>7. FollowedOnce'
  BY <1>2, <1>4, <1>5 DEF GraphInv, FollowedOnce, Raced
<1>8. \A u, v \in User : Follows(u, v)' => Follows(u, v)
  BY <1>2, <1>4 DEF Follows
<1>9. BlockedNotFollowed'
  BY <1>5, <1>6, <1>8 DEF GraphInv, BlockedNotFollowed, Raced, At
<1> QED  BY <1>7, <1>9 DEF GraphInv

\* between its two parts BLOCK itself is the exception of BlockedNotFollowed
LEMMA BlockAddGraph ==
  ASSUME TypeOK, GraphInv, NEW c \in Conn, BlockAdd(c)
  PROVE  GraphInv'
<1> DEFINE a == handler[c].user
           b == handler[c].other
<1>1. a \in User /\ b \in User /\ handler[c].step = "block" /\ handler[c] \in Handler
  BY RunningFields DEF BlockAdd, At
<1>2. handler[c] \in [step : {"follow", "unfollow", "pm", "block", "drop"}, user : User, other : User]
  BY <1>1, PairFields
<1>3. handler'[c] = [step |-> "drop", user |-> a, other |-> b]
  BY <1>2 DEF BlockAdd, Continue, TypeOK
<1>4. \A d \in Conn : At(d, "drop") => handler'[d] = handler[d]
  BY <1>1 DEF BlockAdd, Continue, At, TypeOK
<1>5. followers' = followers /\ stale \subseteq stale'
  BY DEF BlockAdd, NoteStale
<1>6. \A u, v \in User : u \in blockingUsers'[v] => u \in blockingUsers[v] \/ (v = a /\ u = b)
  BY <1>1 DEF BlockAdd, TypeOK
<1>7. FollowedOnce'
  BY <1>5 DEF GraphInv, FollowedOnce, Raced
<1>8. BlockedNotFollowed'
  BY <1>3, <1>4, <1>5, <1>6 DEF GraphInv, BlockedNotFollowed, Raced, Follows, At
<1> QED  BY <1>7, <1>8 DEF GraphInv

LEMMA BlockDropGraph ==
  ASSUME TypeOK, GraphInv, NEW c \in Conn, BlockDrop(c)
  PROVE  GraphInv'
<1> DEFINE a == handler[c].user
           b == handler[c].other
           first == Dropped(followers, a, b)
<1>1. a \in User /\ b \in User
  BY RunningFields DEF BlockDrop
<1>2. /\ first \in [User -> [User -> Nat]]
      /\ \A u, v \in User : first[u][v] <= followers[u][v]
  BY <1>1, DroppedShrinks DEF TypeOK
<1>3. /\ followers' \in [User -> [User -> Nat]]
      /\ \A u, v \in User : followers'[u][v] <= first[u][v]
      /\ first[b][a] <= 1 => followers'[b][a] = 0
  BY <1>1, <1>2, DroppedShrinks DEF BlockDrop
<1>4. \A u, v \in User : /\ followers[u][v] \in Nat /\ first[u][v] \in Nat
                         /\ followers'[u][v] \in Nat
  BY <1>2, <1>3 DEF TypeOK
<1>5. /\ \A u, v \in User : followers'[u][v] <= followers[u][v]
      /\ followers[b][a] <= 1 => followers'[b][a] = 0
  BY <1>1, <1>2, <1>3, <1>4
<1>6. stale' = stale /\ blockingUsers' = blockingUsers
  BY DEF BlockDrop, history
<1>7. \A d \in Conn : d # c => handler'[d] = handler[d]
  BY DEF BlockDrop, Finish, TypeOK
<1>8. FollowedOnce'
  BY <1>4, <1>5, <1>6 DEF GraphInv, FollowedOnce, Raced
<1>9. ASSUME NEW u \in User, NEW v \in User, followers'[u][v] > 0, u \in blockingUsers[v]
      PROVE  \/ <<"follow", u, v>> \in stale
             \/ \E d \in Conn \ {c} :
                  At(d, "drop") /\ handler[d].user = v /\ handler[d].other = u
  <2>1. followers[u][v] > 0
    BY <1>4, <1>5, <1>9
  <2>2. CASE v = a /\ u = b
    <3>1. followers[u][v] > 1
      BY <1>4, <1>5, <1>9, <2>2
    <3> QED  BY <3>1 DEF GraphInv, FollowedOnce, Raced
  <2>3. CASE ~(v = a /\ u = b)
    BY <1>9, <2>1, <2>3 DEF GraphInv, BlockedNotFollowed, Raced, Follows
  <2> QED  BY <2>2, <2>3
<1>10. BlockedNotFollowed'
  BY <1>6, <1>7, <1>9 DEF BlockedNotFollowed, Raced, Follows, At
<1> QED  BY <1>8, <1>10 DEF GraphInv

LEMMA RequestGraph ==
  ASSUME TypeOK, GraphInv, NEW c \in Conn, Request(c)
  PROVE  GraphInv'
<1> USE DEF GraphFree, Ready, At, Idle, Continue, Finish, shared, graph, history
<1>1. ASSUME NEW n \in Name, RegisterScan(c, n) PROVE GraphFree(c)
  BY <1>1 DEF RegisterScan
<1>2. ASSUME NEW n \in Name, NEW valid \in BOOLEAN, LoginScan(c, n, valid) PROVE GraphFree(c)
  BY <1>2 DEF LoginScan
<1>3. ASSUME LogoutScan(c) PROVE GraphFree(c)
  BY <1>3 DEF LogoutScan
<1>4. ASSUME NEW words \in Texts, FollowScan(c, words) PROVE GraphFree(c)
  BY <1>4 DEF FollowScan, FollowRequest
<1>5. ASSUME NEW words \in Texts, UnfollowScan(c, words) PROVE GraphFree(c)
  BY <1>5 DEF UnfollowScan, FollowRequest
<1>6. ASSUME NEW tags \in Tags, PostScan(c, tags) PROVE GraphFree(c)
  BY <1>6 DEF PostScan
<1>7. ASSUME NEW words \in Texts, PmScan(c, words) PROVE GraphFree(c)
  BY <1>7 DEF PmScan
<1>8. ASSUME NEW words \in Texts, BlockScan(c, words) PROVE GraphFree(c)
  BY <1>8 DEF BlockScan
<1>9. ASSUME Logstat(c) PROVE GraphFree(c)
  <2>1. handler[c] = Idle /\ handler' = [handler EXCEPT ![c] = Idle] /\ UNCHANGED shared
    BY <1>9 DEF Logstat
  <2>2. ~At(c, "drop")
    BY <2>1
  <2>3. UNCHANGED <<followers, blockingUsers, stale>>
    BY <2>1
  <2>4. \E h : handler' = [handler EXCEPT ![c] = h]
    BY <2>1, Zenon
  <2> HIDE DEF Ready, At, Idle, Continue, Finish, shared, graph, history
  <2> QED  BY <2>2, <2>3, <2>4
<1>10. ASSUME Stat(c) PROVE GraphFree(c)
  <2>1. handler[c] = Idle /\ handler' = [handler EXCEPT ![c] = Idle] /\ UNCHANGED shared
    BY <1>10 DEF Stat
  <2>2. ~At(c, "drop")
    BY <2>1
  <2>3. UNCHANGED <<followers, blockingUsers, stale>>
    BY <2>1
  <2>4. \E h : handler' = [handler EXCEPT ![c] = h]
    BY <2>1, Zenon
  <2> HIDE DEF Ready, At, Idle, Continue, Finish, shared, graph, history
  <2> QED  BY <2>2, <2>3, <2>4
<1> QED
  BY <1>1, <1>2, <1>3, <1>4, <1>5, <1>6, <1>7, <1>8, <1>9, <1>10,
     GraphFreeKept DEF Request

LEMMA AdvanceGraph ==
  ASSUME TypeOK, GraphInv, NEW c \in Conn, Advance(c)
  PROVE  GraphInv'
<1> USE DEF GraphFree, At, Idle, Continue, Finish, NoteStale, Deliver, graph, history
<1>1. ASSUME RegisterPut(c) PROVE GraphFree(c)
  BY <1>1 DEF RegisterPut
<1>2. ASSUME LoginActivate(c) PROVE GraphFree(c)
  BY <1>2 DEF LoginActivate
<1>3. ASSUME LoginSetConn(c) PROVE GraphFree(c)
  BY <1>3 DEF LoginSetConn
<1>4. ASSUME LoginAck(c) PROVE GraphFree(c)
  BY <1>4 DEF LoginAck
<1>5. ASSUME LoginDrain(c) PROVE GraphFree(c)
  BY <1>5 DEF LoginDrain, shared
<1>6. ASSUME LogoutDeactivate(c) PROVE GraphFree(c)
  BY <1>6 DEF LogoutDeactivate
<1>7. ASSUME FollowCount(c) PROVE GraphFree(c)
  BY <1>7 DEF FollowCount
<1>8. ASSUME PostVisit(c) PROVE GraphFree(c)
  BY <1>8 DEF PostVisit
<1>9. ASSUME PostDeliver(c) PROVE GraphFree(c)
  BY <1>9 DEF PostDeliver
<1>10. ASSUME PmSend(c) PROVE GraphFree(c)
  BY <1>10 DEF PmSend
<1>11. ASSUME LoginSend(c) PROVE GraphFree(c)
  BY <1>11 DEF LoginSend
<1>12. ASSUME PostSend(c) PROVE GraphFree(c)
  BY <1>12 DEF PostSend
<1>13. ASSUME PmCut(c) PROVE GraphFree(c)
  BY <1>13 DEF PmCut
<1> QED
  BY <1>1, <1>2, <1>3, <1>4, <1>5, <1>6, <1>7, <1>8, <1>9, <1>10, <1>11, <1>12, <1>13,
     GraphFreeKept, FollowAddGraph, UnfollowRemoveGraph, BlockAddGraph, BlockDropGraph
     DEF Advance

LEMMA NextGraphInv == TypeOK /\ GraphInv /\ [Next]_vars => GraphInv'
<1> SUFFICES ASSUME TypeOK, GraphInv, [Next]_vars PROVE GraphInv'
  OBVIOUS
<1>1. CASE UNCHANGED vars
  BY <1>1 DEF GraphInv, FollowedOnce, BlockedNotFollowed, Raced, Follows, At,
              vars, shared, graph, history
<1> QED  BY <1>1, RequestGraph, AdvanceGraph DEF Next

(***************************************************************************)
(* No interleaving of FOLLOW, UNFOLLOW and BLOCK leaves a user following   *)
(* one who blocked it, but for the two windows BlockedNotFollowed names.   *)
(***************************************************************************)
THEOREM BlockEndsFollowing == Spec => []BlockedNotFollowed
<1>1. Init => GraphInv
  <2> SUFFICES ASSUME Init PROVE GraphInv
    OBVIOUS
  <2>1. \A u, v \in User : followers[u][v] = 0
    BY DEF Init
  <2> QED  BY <2>1 DEF GraphInv, FollowedOnce, BlockedNotFollowed, Follows
<1>2. GraphInv => BlockedNotFollowed
  BY DEF GraphInv
<1> QED  BY <1>1, <1>2, NextGraphInv, Typing, PTL DEF Spec

-----------------------------------------------------------------------------
(* One thread *)

\* what the handler's scan found still holds, also for the rest of its loop
Settled(c) ==
  /\ CheckHolds(c)
  /\ At(c, "visit") \/ At(c, "deliver") \/ At(c, "sendPost") =>
       \A u \in handler[c].post.free :
         handler[c].post.tagged[u] > 0 => ~Follows(u, handler[c].user)

SerialInv == NThreads = 1 => stale = {} /\ \A c \in Conn : Settled(c)

(***************************************************************************)
(* With one thread there is at most one running handler.                   *)
(***************************************************************************)
LEMMA Alone ==
  ASSUME TypeInv, NThreads = 1, NEW c \in Conn, NEW d \in Conn, c # d, handler[c] # Idle
  PROVE  handler[d] = Idle
<1> SUFFICES ASSUME handler[d] # Idle PROVE FALSE
  OBVIOUS
<1>1. {c, d} \subseteq Busy
  BY DEF Busy
<1>2. IsFiniteSet({c}) /\ Cardinality({c}) = 1
  BY FS_Singleton
<1>3. Cardinality({c} \cup {d}) = 2
  BY <1>2, FS_AddElement
<1>4. Cardinality({c, d}) <= Cardinality(Busy)
  BY <1>1, Finiteness, FS_Subset
<1>5. {c, d} = {c} \cup {d}
  OBVIOUS
<1> QED  BY <1>3, <1>4, <1>5, Finiteness DEF TypeInv, RegisterInv

LEMMA NoneRuns ==
  ASSUME NThreads = 1, NEW c \in Conn, NEW op, Ready(c, op), NEW d \in Conn
  PROVE  handler[d] = Idle
<1>1. Cardinality(Busy) = 0
  BY Finiteness DEF Ready, Busy
<1>2. Busy = {}
  BY <1>1, Finiteness, FS_EmptySet
<1> QED  BY <1>2 DEF Busy

LEMMA SettledElsewhere ==
  ASSUME NEW c \in Conn,
         handler'[c].step \in {"idle", "setConn", "ackLogin", "drain", "sendKept", "drop"}
  PROVE  Settled(c)'
  BY DEF Settled, CheckHolds, At

\* CheckHolds and Settled, step by step
LEMMA SettledParts ==
  ASSUME NEW c \in Conn,
         (At(c, "register") => Matching(handler[c].name) = {})',
         (At(c, "activate") => ~isActivated[handler[c].user] /\ LoggingIn(handler[c].user) = {})',
         (At(c, "deactivate") => connId[handler[c].user] = c /\ LoggingIn(handler[c].user) = {})',
         (At(c, "follow") => CanFollow(handler[c].user, handler[c].other))',
         (At(c, "unfollow") => Follows(handler[c].user, handler[c].other))',
         (At(c, "count") => following[handler[c].user] = handler[c].read)',
         (At(c, "visit") \/ At(c, "deliver") \/ At(c, "sendPost") =>
            \A u \in handler[c].post.free :
              handler[c].post.tagged[u] > 0 => ~Follows(u, handler[c].user))',
         (At(c, "deliver") \/ At(c, "sendPost") =>
            isActivated[handler[c].other] = handler[c].online)',
         (At(c, "sendPost") \/ At(c, "sendPm") => connId[handler[c].other] = handler[c].to)',
         (At(c, "pm") => CanMessage(handler[c].user, handler[c].other))',
         (At(c, "block") => handler[c].other \notin blockingUsers[handler[c].user])'
  PROVE  Settled(c)'
  BY DEF Settled, CheckHolds, At

LEMMA RequestSettled ==
  ASSUME TypeInv, NThreads = 1, NEW c \in Conn, Request(c)
  PROVE  stale' = stale /\ \A d \in Conn : Settled(d)'
<1>1. \A d \in Conn : handler[d] = Idle
  <2>1. \E op \in AllOps : Ready(c, op)
    BY DEF Request, RegisterScan, LoginScan, LogoutScan, FollowScan, UnfollowScan, FollowRequest,
           PostScan, PmScan, BlockScan, Logstat, Stat, AllOps
  <2> QED  BY <2>1, NoneRuns
<1>2. /\ UNCHANGED <<maps, status, graph, stale>>
      /\ \E h : handler' = [handler EXCEPT ![c] = h]
  BY Zenon DEF Request, RegisterScan, LoginScan, LogoutScan, FollowScan, UnfollowScan,
     FollowRequest, PostScan, PmScan, BlockScan, Logstat, Stat, shared, history, Continue, Finish
<1>3. \A d \in Conn : d # c => handler'[d].step = "idle"
  BY <1>1, <1>2 DEF Idle, TypeInv, TypeOK
<1>4. handler'[c].step \in {"activate", "deactivate"} => LoggingIn(handler[c].user)' = {}
  BY <1>3 DEF LoggingIn
<1>5. handler'[c] = Idle => Settled(c)'
  BY SettledElsewhere DEF Idle
<1>6. \A h : handler' = [handler EXCEPT ![c] = h] => handler'[c] = h
  BY DEF TypeInv, TypeOK
<1>7. ASSUME NEW n \in Name, RegisterScan(c, n), handler'[c] # Idle PROVE Settled(c)'
  <2>1. /\ handler'[c] = [step |-> "register", name |-> n]
        /\ Matching(n) = {}
    BY <1>6, <1>7 DEF RegisterScan, Continue, Finish
  <2>2. Matching(n)' = {}
    BY <1>2, <2>1 DEF maps, status, graph, counter, Matching, Registered
  <2> QED  BY <2>1, <2>2, SettledParts DEF At
<1>8. ASSUME NEW n \in Name, NEW valid \in BOOLEAN, LoginScan(c, n, valid), handler'[c] # Idle
      PROVE  Settled(c)'
  <2> DEFINE u == UserOf(FirstOf[Matching(n)])
  <2>1. /\ handler'[c] = [step |-> "activate", user |-> u, name |-> n]
        /\ Matching(n) # {} /\ ~isActivated[u]
    BY <1>6, <1>8 DEF LoginScan, Continue, Finish
  <2>2. Matching(n) \in SUBSET Name /\ Matching(n) \subseteq Registered
    BY DEF Matching, Registered
  <2>3. u \in User
    BY <2>1, <2>2, LookupTypes DEF TypeInv
  <2>4. ~isActivated'[handler'[c].user] /\ LoggingIn(handler[c].user)' = {}
    BY <1>2, <1>4, <2>1, <2>3 DEF status
  <2> QED  BY <2>1, <2>4, SettledParts DEF At
<1>9. ASSUME LogoutScan(c), handler'[c] # Idle PROVE Settled(c)'
  <2>1. handler'[c] = [step |-> "deactivate", user |-> Me(c)] /\ Me(c) # NoUser
    BY <1>6, <1>9 DEF LogoutScan, Continue, Finish
  <2>2. Mine(c) # {} /\ Me(c) = activeUsersMap[FirstOf[Mine(c)]] /\ Mine(c) \in SUBSET Name
    BY <2>1 DEF Me, Mine, Active
  <2>3. connId[Me(c)] = c /\ Me(c) \in User
    BY <2>1, <2>2, OrderAssumption, LookupTypes DEF Mine, TypeInv
  <2>4. connId'[handler'[c].user] = c /\ LoggingIn(handler[c].user)' = {}
    BY <1>2, <1>4, <2>1, <2>3 DEF status
  <2> QED  BY <2>1, <2>4, SettledParts DEF At
<1>10. ASSUME NEW words \in Texts, FollowScan(c, words), handler'[c] # Idle PROVE Settled(c)'
  <2>1. /\ handler'[c] = [step |-> "follow", user |-> Me(c), other |-> UserOf(FirstOf[Named(words)])]
        /\ CanFollow(Me(c), UserOf(FirstOf[Named(words)]))
    BY <1>6, <1>10 DEF FollowScan, FollowRequest, Continue, Finish
  <2>2. CanFollow(handler[c].user, handler[c].other)'
    BY <1>2, <2>1 DEF maps, status, graph, counter, CanFollow, Follows
  <2> QED  BY <2>1, <2>2, SettledParts DEF At
<1>11. ASSUME NEW words \in Texts, UnfollowScan(c, words), handler'[c] # Idle PROVE Settled(c)'
  <2>1. /\ handler'[c] = [step |-> "unfollow", user |-> Me(c), other |-> UserOf(FirstOf[Named(words)])]
        /\ Follows(Me(c), UserOf(FirstOf[Named(words)]))
    BY <1>6, <1>11 DEF UnfollowScan, FollowRequest, Continue, Finish
  <2>2. Follows(handler[c].user, handler[c].other)'
    BY <1>2, <2>1 DEF maps, status, graph, counter, Follows
  <2> QED  BY <2>1, <2>2, SettledParts DEF At
<1>12. ASSUME NEW tags \in Tags, PostScan(c, tags), handler'[c] # Idle PROVE Settled(c)'
  <2>1. /\ handler'[c].step = "visit" /\ handler'[c].user = Me(c)
        /\ \A u \in handler'[c].post.free : ~Follows(u, Me(c))
    BY <1>6, <1>12 DEF PostScan, Continue, Finish
  <2>2. \A u \in handler'[c].post.free : ~Follows(u, handler[c].user)'
    BY <1>2, <2>1 DEF graph, Follows
  <2> QED  BY <2>1, <2>2, SettledParts DEF At
<1>13. ASSUME NEW words \in Texts, PmScan(c, words), handler'[c] # Idle PROVE Settled(c)'
  <2>1. handler'[c].step = "pm" /\ CanMessage(handler'[c].user, handler'[c].other)
    BY <1>6, <1>13 DEF PmScan, Continue, Finish
  <2>2. CanMessage(handler[c].user, handler[c].other)'
    BY <1>2, <2>1 DEF graph, CanMessage, Follows
  <2> QED  BY <2>1, <2>2, SettledParts DEF At
<1>14. ASSUME NEW words \in Texts, BlockScan(c, words), handler'[c] # Idle PROVE Settled(c)'
  <2>1. handler'[c].step = "block" /\ handler'[c].other \notin blockingUsers[handler'[c].user]
    BY <1>6, <1>14 DEF BlockScan, Continue, Finish
  <2>2. handler'[c].other \notin blockingUsers'[handler'[c].user]
    BY <1>2, <2>1 DEF graph
  <2> QED  BY <2>1, <2>2, SettledParts DEF At
<1>15. ASSUME Logstat(c) \/ Stat(c) PROVE Settled(c)'
  BY <1>5, <1>6, <1>15 DEF Logstat, Stat, Finish
<1>16. Settled(c)'
  BY <1>5, <1>7, <1>8, <1>9, <1>10, <1>11, <1>12, <1>13, <1>14, <1>15 DEF Request
<1>17. \A d \in Conn : d # c => Settled(d)'
  BY <1>3, SettledElsewhere
<1>18. stale' = stale
  BY <1>2
<1> QED  BY <1>16, <1>17, <1>18

LEMMA AdvanceSettled ==
  ASSUME TypeInv, NThreads = 1, \A d \in Conn : Settled(d), NEW c \in Conn, Advance(c)
  PROVE  stale' = stale /\ \A d \in Conn : Settled(d)'
<1>1. handler[c] # Idle
  <2>1. CASE \/ RegisterPut(c) \/ LoginActivate(c) \/ LoginSetConn(c) \/ LoginAck(c)
             \/ LoginDrain(c) \/ LoginSend(c)
    BY <2>1 DEF RegisterPut, LoginActivate, LoginSetConn, LoginAck, LoginDrain, LoginSend, At, Idle
  <2>2. CASE LogoutDeactivate(c) \/ FollowAdd(c) \/ UnfollowRemove(c) \/ FollowCount(c)
    BY <2>2 DEF LogoutDeactivate, FollowAdd, UnfollowRemove, FollowCount, At, Idle
  <2>3. CASE PostVisit(c) \/ PostDeliver(c) \/ PostSend(c)
    BY <2>3 DEF PostVisit, PostDeliver, PostSend, At, Idle
  <2>4. CASE PmCut(c) \/ PmSend(c) \/ BlockAdd(c) \/ BlockDrop(c)
    BY <2>4 DEF PmCut, PmSend, BlockAdd, BlockDrop, At, Idle
  <2> QED  BY <2>1, <2>2, <2>3, <2>4 DEF Advance
<1>2. CheckHolds(c)
  BY DEF Settled
<1>3. stale' = stale
  BY <1>2 DEF Advance, RegisterPut, LoginActivate, LoginSetConn, LoginAck, LoginDrain, LoginSend,
              LogoutDeactivate, FollowAdd, UnfollowRemove, FollowCount, PostVisit, PostDeliver,
              PostSend, PmCut, PmSend, BlockAdd, BlockDrop, NoteStale, history, shared
<1>4. \A h : handler' = [handler EXCEPT ![c] = h] => handler'[c] = h
  BY DEF TypeInv, TypeOK
<1>5. ASSUME NEW d \in Conn, d # c PROVE Settled(d)'
  <2>1. handler[d] = Idle
    BY <1>1, <1>5, Alone
  <2>2. \E h : handler' = [handler EXCEPT ![c] = h]
    BY Zenon DEF Advance, RegisterPut, LoginActivate, LoginSetConn, LoginAck, LoginDrain, LoginSend,
       LogoutDeactivate, FollowAdd, UnfollowRemove, FollowCount, PostVisit, PostDeliver,
       PostSend, PmCut, PmSend, BlockAdd, BlockDrop, Continue, Finish, Deliver
  <2>3. handler'[d].step = "idle"
    BY <1>5, <2>1, <2>2 DEF Idle, TypeInv, TypeOK
  <2> QED  BY <2>3, SettledElsewhere
<1>6. handler'[c].step \in {"idle", "setConn", "ackLogin", "drain", "drop"} => Settled(c)'
  BY SettledElsewhere
<1>7. ASSUME RegisterPut(c) \/ LoginActivate(c) \/ LoginSetConn(c) \/ LogoutDeactivate(c)
             \/ FollowCount(c) \/ PmSend(c) \/ BlockDrop(c)
      PROVE  handler'[c].step \in {"idle", "setConn", "ackLogin", "drain", "drop"}
  BY <1>4, <1>7 DEF RegisterPut, LoginActivate, LoginSetConn, LogoutDeactivate, FollowCount,
                    PmSend, BlockDrop, Continue, Finish, Idle
<1>8. ASSUME LoginAck(c) \/ LoginSend(c)
      PROVE  handler'[c].step \in {"idle", "setConn", "ackLogin", "drain", "drop"}
  <2>1. ASSUME LoginAck(c) PROVE handler'[c].step \in {"idle", "drain"}
    BY <2>1 DEF LoginAck, Idle, TypeInv, TypeOK
  <2>2. ASSUME LoginSend(c) PROVE handler'[c].step \in {"idle", "drain"}
    BY <2>2 DEF LoginSend, Idle, TypeInv, TypeOK
  <2> QED  BY <1>8, <2>1, <2>2
<1>9. ASSUME BlockAdd(c)
      PROVE  handler'[c].step \in {"idle", "setConn", "ackLogin", "drain", "drop"}
  <2>1. handler[c] \in [step : {"follow", "unfollow", "pm", "block", "drop"}, user : User, other : User]
    BY <1>9, PairFields DEF BlockAdd, At, TypeInv, TypeOK
  <2>2. handler'[c] = [handler[c] EXCEPT !.step = "drop"]
    BY <1>4, <1>9 DEF BlockAdd, Continue
  <2> QED  BY <2>1, <2>2
<1>10. ASSUME FollowAdd(c) \/ UnfollowRemove(c) PROVE Settled(c)'
  <2>1. /\ handler'[c].step = "count" /\ following' = following
        /\ handler'[c].read = following[handler'[c].user]
    BY <1>4, <1>10 DEF FollowAdd, UnfollowRemove, Continue, counter
  <2> QED  BY <2>1, SettledParts DEF At
<1>11. ASSUME PostVisit(c), handler'[c].step # "idle" PROVE Settled(c)'
  <2> DEFINE h == handler[c]
             g == handler'[c]
  <2>1. \A u \in h.post.free : h.post.tagged[u] > 0 => ~Follows(u, h.user)
    BY <1>11 DEF PostVisit, Settled
  <2>2. isActivated' = isActivated /\ followers' = followers
    BY <1>11 DEF PostVisit, status, graph
  <2>3. h.post.tagged \in [User -> Nat] /\ h.post.free \subseteq User
    BY <1>11, RunningFields, PostFields DEF PostVisit, TypeInv
  <2>4. /\ g.step \in {"visit", "deliver"} /\ g.user = h.user /\ g.post.free = h.post.free
        /\ g.step = "deliver" => g.online = isActivated[g.other]
    BY <1>11, VisitSteps DEF TypeInv
  <2>5. \A u \in User : g.post.tagged[u] > 0 => h.post.tagged[u] > 0
    <3>1. \/ g.post.tagged = h.post.tagged
          \/ /\ g.other \in User
             /\ g.post.tagged = [h.post.tagged EXCEPT ![g.other] = @ - 1]
      BY <1>11, VisitSteps DEF TypeInv
    <3> HIDE DEF g, h
    <3> QED  BY <2>3, <3>1
  <2>6. \A u \in g.post.free : g.post.tagged[u] > 0 => ~Follows(u, handler[c].user)'
    BY <2>1, <2>2, <2>3, <2>4, <2>5 DEF Follows
  <2> QED  BY <2>2, <2>4, <2>6, SettledParts DEF At
<1>12. ASSUME NEW u \in User, handler'[c] = OnFrom(handler[c], u), followers' = followers,
              At(c, "deliver") \/ At(c, "sendPost")
       PROVE  Settled(c)'
  <2>1. handler[c].post \in Post
    BY <1>12, RunningFields DEF TypeInv
  <2>2. /\ handler'[c].step = "visit" /\ handler'[c].user = handler[c].user
        /\ handler'[c].post.free = handler[c].post.free
        /\ handler'[c].post.tagged = handler[c].post.tagged
    <3>1. /\ OnFrom(handler[c], u).step = "visit"
          /\ OnFrom(handler[c], u).user = handler[c].user
          /\ OnFrom(handler[c], u).post.free = handler[c].post.free
          /\ OnFrom(handler[c], u).post.tagged = handler[c].post.tagged
      BY <1>12, <2>1, OnSteps
    <3> QED  BY <1>12, <3>1
  <2>3. \A v \in handler[c].post.free :
          handler[c].post.tagged[v] > 0 => ~Follows(v, handler[c].user)
    BY <1>12 DEF Settled
  <2>4. \A v \in handler'[c].post.free :
          handler'[c].post.tagged[v] > 0 => ~Follows(v, handler[c].user)'
    BY <1>12, <2>2, <2>3 DEF Follows
  <2> QED  BY <2>2, <2>4, SettledParts DEF At
<1>13. ASSUME PostDeliver(c) PROVE Settled(c)'
  <2>1. /\ handler[c].other \in User /\ followers' = followers
        /\ isActivated' = isActivated /\ connId' = connId
    BY <1>13, RunningFields DEF PostDeliver, TypeInv, graph, status
  <2>2. CASE handler'[c] = OnFrom(handler[c], handler[c].other)
    BY <1>12, <1>13, <2>1, <2>2 DEF PostDeliver
  <2>3. CASE /\ handler[c].online
             /\ Continue(c, [step |-> "sendPost", user |-> handler[c].user, post |-> handler[c].post,
                              other |-> handler[c].other, online |-> TRUE,
                              to |-> connId[handler[c].other]])
    <3>1. /\ handler'[c].step = "sendPost" /\ handler'[c].user = handler[c].user
          /\ handler'[c].post = handler[c].post /\ handler'[c].other = handler[c].other
          /\ handler'[c].online = TRUE /\ handler'[c].to = connId[handler[c].other]
      BY <1>4, <2>3 DEF Continue
    <3>2. isActivated[handler[c].other] = TRUE
      BY <1>2, <1>13, <2>1, <2>3 DEF PostDeliver, CheckHolds, At, TypeInv, TypeOK
    <3>3. \A v \in handler[c].post.free :
            handler[c].post.tagged[v] > 0 => ~Follows(v, handler[c].user)
      BY <1>13 DEF PostDeliver, Settled
    <3>4. \A v \in handler'[c].post.free :
            handler'[c].post.tagged[v] > 0 => ~Follows(v, handler[c].user)'
      BY <2>1, <3>1, <3>3 DEF Follows
    <3> QED  BY <2>1, <3>1, <3>2, <3>4, SettledParts DEF At
  <2> QED  BY <1>4, <1>13, <2>2, <2>3 DEF PostDeliver, Continue
<1>14. ASSUME PostSend(c) PROVE Settled(c)'
  <2>1. handler[c].other \in User /\ followers' = followers
    BY <1>14, RunningFields DEF PostSend, TypeInv, graph
  <2>2. handler'[c] = OnFrom(handler[c], handler[c].other)
    BY <1>4, <1>14 DEF PostSend
  <2> QED  BY <1>12, <1>14, <2>1, <2>2 DEF PostSend
<1>15. ASSUME LoginDrain(c) PROVE Settled(c)'
  <2>1. handler'[c].step = "sendKept"
    BY <1>4, <1>15 DEF LoginDrain, Continue
  <2> QED  BY <2>1, SettledElsewhere
<1>16. ASSUME PmCut(c) PROVE Settled(c)'
  <2>1. connId' = connId
    BY <1>16 DEF PmCut, status
  <2>2. \/ handler'[c].step = "idle"
        \/ /\ handler'[c].step = "sendPm" /\ handler'[c].other = handler[c].other
           /\ handler'[c].to = connId[handler[c].other]
    BY <1>4, <1>16 DEF PmCut, Continue, Finish, Idle
  <2>3. (At(c, "sendPost") \/ At(c, "sendPm") => connId[handler[c].other] = handler[c].to)'
    BY <2>1, <2>2 DEF At
  <2> QED  BY <2>2, <2>3, SettledParts DEF At
<1>17. Settled(c)'
  BY <1>6, <1>7, <1>8, <1>9, <1>10, <1>11, <1>13, <1>14, <1>15, <1>16 DEF Advance
<1> QED  BY <1>3, <1>5, <1>17

LEMMA NextSerialInv == IInv /\ SerialInv /\ [Next]_vars => SerialInv'
<1> SUFFICES ASSUME IInv, SerialInv, [Next]_vars, NThreads = 1
             PROVE  stale' = {} /\ \A c \in Conn : Settled(c)'
  BY DEF SerialInv
<1>1. ASSUME NEW c \in Conn, Request(c) PROVE stale' = {} /\ \A d \in Conn : Settled(d)'
  BY <1>1, RequestSettled DEF IInv, SerialInv
<1>2. ASSUME NEW c \in Conn, Advance(c) PROVE stale' = {} /\ \A d \in Conn : Settled(d)'
  BY <1>2, AdvanceSettled DEF IInv, SerialInv
<1>3. CASE UNCHANGED vars
  BY <1>3 DEF SerialInv, Settled, CheckHolds, Matching, Registered, LoggingIn, CanFollow,
              CanMessage, Follows, At, vars, shared, maps, status, graph, counter, history
<1> QED  BY <1>1, <1>2, <1>3 DEF Next

(***************************************************************************)
(* A server with one thread never acts on an outdated check, whatever the  *)
(* clients send: the races that the other properties except are only those *)
(* of handlers that really run at once.                                    *)
(***************************************************************************)
THEOREM OneThread == Spec => []SerialHandlers
<1>1. Init => SerialInv
  <2> SUFFICES ASSUME Init PROVE stale = {} /\ \A c \in Conn : Settled(c)
    BY DEF SerialInv
  <2> QED  BY DEF Init, Settled, CheckHolds, At, Idle
<1>2. SerialInv => SerialHandlers
  BY DEF SerialInv, SerialHandlers
<1> QED  BY <1>1, <1>2, NextSerialInv, Invariance, PTL DEF Spec

=============================================================================
