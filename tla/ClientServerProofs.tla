------------------------- MODULE ClientServerProofs -------------------------
(***************************************************************************)
(* Theorems about ClientServer, for any number of clients, lines of any    *)
(* length and sockets of any size.  The streams of the server: a thread    *)
(* sends on those of other connections, which their own threads open.  The *)
(* types.  The requests: what the server reads is what was typed.  The     *)
(* answers: what a client decodes is what threads of the server sent to    *)
(* it.  The counts: a request is answered once.  LOGOUT: an acknowledged   *)
(* one is the last line.  Each part rests on those before it.              *)
(***************************************************************************)
EXTENDS ClientServer, FramingProofs, FiniteSetTheorems, SequenceTheorems, TLAPS

\* where a thread of the server can be
Steps == {"none", "started", "read", "send", "flush", "ended"}

\* a thread, with messages for anybody whose answers are of A
Thread(A) == [step : Steps, sends : Seq([to : Conn \cup {S!NoConn}, answer : A])]

IsThread(t) == \E A : t \in Thread(A)

\* a thread has a message to send while it sends
ThreadsInv ==
  \A c \in Conn :
    /\ IsThread(thread[c])
    /\ thread[c].step \in {"send", "flush"} => thread[c].sends # <<>>

\* a connection has no thread before its id is given, so that accept starts one once
IdsInv ==
  /\ connectionId \in Nat
  /\ \A c \in Conn : c >= connectionId => thread[c].step = "none"

\* the connections of users that logged in
LoggedInv ==
  /\ connIds \subseteq Conn
  /\ \A c \in connIds : S!HasStreams(c)

\* whom a message may be for
Reachable(d) == d # S!NoConn => S!HasStreams(d)

\* all that a thread has still to send, not only the next message
SendsInv == \A c \in Conn : \A i \in DOMAIN thread[c].sends : Reachable(thread[c].sends[i].to)

StreamsInv ==
  /\ DOMAIN thread = Conn
  /\ ThreadsInv
  /\ IdsInv
  /\ LoggedInv
  /\ SendsInv

-----------------------------------------------------------------------------
(* Facts about the operators of the server *)

\* ids are numbers, and none is what stands for no connection
LEMMA Ids == Conn \subseteq Int /\ S!NoConn \notin Conn
<1>1. \A c \in Conn : c \in Int /\ c >= 0
  BY ConnAssumption, FS_CardinalityType
<1> QED  BY <1>1 DEF S!NoConn

\* the branches of process
LEMMA Branches ==
  ASSUME NEW message
  PROVE  S!ReadRequest(message).op \in {0, 1, 2, 3, 4, 5, 6, 7, 8, 12}
<1> DEFINE code(op) == S!Two(op) = SubSeq(message, 1, 2)
<1>1. CASE \E op \in {1, 2} : code(op)
  <2>1. (CHOOSE op \in {1, 2} : code(op)) \in {1, 2}
    BY <1>1
  <2> QED  BY <1>1, <2>1 DEF S!ReadRequest
<1>2. CASE ~(\E op \in {1, 2} : code(op)) /\ code(4)
  BY <1>2 DEF S!ReadRequest
<1>3. CASE ~(\E op \in {1, 2} : code(op)) /\ ~code(4) /\ \E op \in {3, 7} : code(op)
  <2>1. (CHOOSE op \in {3, 7} : code(op)) \in {3, 7}
    BY <1>3
  <2> QED  BY <1>3, <2>1 DEF S!ReadRequest
<1>4. CASE /\ ~(\E op \in {1, 2} : code(op)) /\ ~code(4)
           /\ ~(\E op \in {3, 7} : code(op)) /\ \E op \in {5, 6, 8, 12} : code(op)
  <2>1. (CHOOSE op \in {5, 6, 8, 12} : code(op)) \in {5, 6, 8, 12}
    BY <1>4
  <2> QED  BY <1>4, <2>1 DEF S!ReadRequest
<1>5. CASE /\ ~(\E op \in {1, 2} : code(op)) /\ ~code(4)
           /\ ~(\E op \in {3, 7} : code(op)) /\ ~(\E op \in {5, 6, 8, 12} : code(op))
  BY <1>5 DEF S!ReadRequest
<1> QED  BY <1>1, <1>2, <1>3, <1>4, <1>5

\* the lists that process makes of two messages
Lists(m, n) == {<<>>, <<m>>, Append(<<m>>, n), <<m>> \o <<n>>}

\* such a list is one of messages to x and y
LEMMA Listed ==
  ASSUME NEW T, NEW x \in T, NEW y \in T, NEW a, NEW b, NEW s \in Lists(S!To(x, a), S!To(y, b))
  PROVE  \E A : s \in Seq([to : T, answer : A])
<1> DEFINE M == [to : T, answer : {a, b}]
<1>1. S!To(x, a) \in M /\ S!To(y, b) \in M
  BY DEF S!To
<1>2. ASSUME NEW m \in M, NEW n \in M
      PROVE  Lists(m, n) \subseteq Seq(M)
  <2>1. <<m>> \in Seq(M) /\ <<n>> \in Seq(M)
    BY <1>2
  <2>2. Append(<<m>>, n) \in Seq(M) /\ <<m>> \o <<n>> \in Seq(M)
    BY <2>1
  <2> QED  BY <2>1, <2>2 DEF Lists
<1> QED  BY <1>1, <1>2

\* what process sends: to the client itself, to users that logged in, or to nobody
LEMMA Answers ==
  ASSUME NEW c \in Conn, NEW request, NEW sends \in S!Sends(c, request),
         request.op \in {0, 1, 2, 3, 4, 5, 6, 7, 8, 12}
  PROVE  \E A : sends \in Seq([to : connIds \cup {c, S!NoConn}, answer : A])
<1> DEFINE T == connIds \cup {c, S!NoConn}
           op == request.op
           own(a) == S!To(c, a)
           note == S!NoteOf(request.fields[1])
<1>1. CASE op \in {0, 1, 3, 8, 12}
  <2>1. sends \in Lists(own(S!Error(op)), own(S!Ack(op))) \cup Lists(own(S!Ack(op)), own(S!Ack(op)))
    BY <1>1 DEF S!Sends, Lists
  <2> QED  BY <2>1, Listed
<1>2. CASE op = 2
  <2>1. \/ sends \in {<<own(S!Error(2))>>, <<own(S!Ack(2))>>}
        \/ \E d \in connIds \cup {c} : sends = Append(<<own(S!Ack(2))>>, S!To(d, S!NoteOf(<<>>)))
    BY <1>2 DEF S!Sends, S!Targets
  <2>2. \/ sends \in Lists(own(S!Error(2)), own(S!Ack(2))) \cup Lists(own(S!Ack(2)), own(S!Ack(2)))
        \/ \E d \in connIds \cup {c} : sends \in Lists(own(S!Ack(2)), S!To(d, S!NoteOf(<<>>)))
    BY <2>1 DEF Lists
  <2> QED  BY <2>2, Listed
<1>3. CASE op = 4
  <2> DEFINE a == S!FollowAck(request.fields[1], request.fields[2])
  <2>1. sends \in Lists(own(S!Error(4)), own(a)) \cup Lists(own(a), own(a))
    BY <1>3 DEF S!Sends, Lists
  <2> QED  BY <2>1, Listed
<1>4. CASE op \in {5, 6}
  <2>1. \/ sends \in Lists(own(S!Error(op)), own(S!Ack(op))) \cup Lists(own(S!Ack(op)), own(S!Ack(op)))
        \/ \E d \in connIds \cup {S!NoConn} : sends \in Lists(S!To(d, note), own(S!Ack(op)))
    BY <1>4 DEF S!Sends, S!Targets, Lists
  <2> QED  BY <2>1, Listed
<1>5. CASE op = 7
  <2> DEFINE a == S!Statistics(S!Numbers)
  <2>1. sends \in Lists(own(S!Error(7)), own(a)) \cup Lists(own(a), own(S!Error(7)))
                   \cup Lists(own(a), own(a))
    BY <1>5 DEF S!Sends, Lists
  <2> QED  BY <2>1, Listed
<1> QED  BY <1>1, <1>2, <1>3, <1>4, <1>5

-----------------------------------------------------------------------------
(* The steps of a thread *)

\* a step of the thread of c, which goes on as t
Advance(c, t) ==
  /\ thread' = [thread EXCEPT ![c] = t]
  /\ connectionId' = connectionId
  /\ IsThread(t)
  /\ t.step # "none"
  /\ S!HasStreams(c) => t.step # "started"
  /\ t.step \in {"send", "flush"} => t.sends # <<>>
  /\ \A i \in DOMAIN t.sends : Reachable(t.sends[i].to)
  /\ \/ connIds' = connIds
     \/ connIds' = connIds \cup {c} /\ S!HasStreams(c)

\* a message is for a connection or for none
LEMMA Messages ==
  ASSUME NEW t, IsThread(t), NEW i \in DOMAIN t.sends
  PROVE  t.sends[i].to \in Conn \cup {S!NoConn}
<1>1. PICK A : t \in Thread(A)
  BY DEF IsThread
<1> DEFINE M == [to : Conn \cup {S!NoConn}, answer : A]
<1>2. t.sends \in Seq(M)
  BY <1>1 DEF Thread
<1>3. t.sends[i] \in M
  <2> HIDE DEF M
  <2> QED  BY <1>2
<1> QED  BY <1>3

\* streams are not closed: what was reachable remains so
LEMMA AdvanceKept ==
  ASSUME StreamsInv, NEW c \in Conn, NEW t, thread[c].step # "none", Advance(c, t)
  PROVE  StreamsInv'
<1>1. thread'[c] = t /\ \A d \in Conn \ {c} : thread'[d] = thread[d]
  BY DEF Advance, StreamsInv
<1>2. \A d \in Conn : S!HasStreams(d) => S!HasStreams(d)'
  BY <1>1 DEF S!HasStreams, Advance
<1>3. \A d \in Conn \cup {S!NoConn} : Reachable(d) => Reachable(d)'
  BY <1>2, Ids DEF Reachable, S!NoConn
<1>4. ThreadsInv'
  <2>1. ASSUME NEW d \in Conn
        PROVE  /\ IsThread(thread'[d])
               /\ thread'[d].step \in {"send", "flush"} => thread'[d].sends # <<>>
    <3>1. CASE d = c
      BY <1>1, <3>1 DEF Advance
    <3>2. CASE d # c
      BY <1>1, <3>2 DEF StreamsInv, ThreadsInv
    <3> QED  BY <3>1, <3>2
  <2> QED  BY <2>1 DEF ThreadsInv, IsThread, Thread
<1>5. IdsInv'
  <2>1. c < connectionId
    BY Ids DEF StreamsInv, IdsInv
  <2> QED  BY <1>1, <2>1, Ids DEF IdsInv, StreamsInv, Advance
<1>6. LoggedInv'
  BY <1>2 DEF LoggedInv, StreamsInv, Advance
<1>7. SendsInv'
  <2>1. ASSUME NEW d \in Conn \ {c}, NEW i \in DOMAIN thread[d].sends
        PROVE  Reachable(thread[d].sends[i].to)'
    <3>1. thread[d].sends[i].to \in Conn \cup {S!NoConn}
      BY Messages DEF StreamsInv, ThreadsInv
    <3>2. Reachable(thread[d].sends[i].to)
      BY DEF StreamsInv, SendsInv
    <3> QED  BY <1>1, <1>3, <3>1, <3>2
  <2>2. ASSUME NEW i \in DOMAIN t.sends
        PROVE  Reachable(thread[c].sends[i].to)'
    <3>1. t.sends[i].to \in Conn \cup {S!NoConn}
      BY Messages DEF Advance
    <3> QED  BY <1>1, <1>3, <3>1 DEF Advance
  <2> QED  BY <1>1, <2>1, <2>2 DEF SendsInv
<1>8. (DOMAIN thread)' = Conn
  BY DEF Advance, StreamsInv
<1> QED  BY <1>4, <1>5, <1>6, <1>7, <1>8 DEF StreamsInv

\* a step that changes only where the thread is
LEMMA StepAlone ==
  ASSUME StreamsInv, NEW c \in Conn, NEW step \in {"read", "flush", "ended"},
         thread' = [thread EXCEPT ![c].step = step],
         thread[c].step # "none",
         step = "flush" => thread[c].sends # <<>>,
         UNCHANGED <<connectionId, connIds>>
  PROVE  StreamsInv'
<1> DEFINE t == [thread[c] EXCEPT !.step = step]
<1>1. PICK A : thread[c] \in Thread(A)
  BY DEF StreamsInv, ThreadsInv, IsThread
<1>2. t \in Thread(A) /\ t.step = step /\ t.sends = thread[c].sends
  BY <1>1 DEF Thread, Steps
<1>3. thread' = [thread EXCEPT ![c] = t]
  BY DEF StreamsInv
<1>4. \A i \in DOMAIN thread[c].sends : Reachable(thread[c].sends[i].to)
  BY DEF StreamsInv, SendsInv
<1>5. IsThread(t)
  BY <1>2 DEF IsThread
<1>6. Advance(c, t)
  <2> HIDE DEF t
  <2> QED  BY <1>2, <1>3, <1>4, <1>5 DEF Advance
<1> QED  BY <1>6, AdvanceKept

\* the list that the thread goes on with
LEMMA HasToSendFields ==
  ASSUME NEW A, NEW s \in Seq([to : Conn \cup {S!NoConn}, answer : A])
  PROVE  LET t == S!HasToSend(s)
         IN  /\ IsThread(t) /\ t \in Thread(A)
             /\ t.sends = s
             /\ t.step \in {"read", "send"}
             /\ t.step = "send" => s # <<>>
<1> DEFINE t == S!HasToSend(s)
<1>1. \/ t = [step |-> "read", sends |-> s] /\ s = <<>>
      \/ t = [step |-> "send", sends |-> s] /\ s # <<>>
  BY DEF S!HasToSend
<1>2. t \in Thread(A)
  BY <1>1 DEF Thread, Steps
<1>3. IsThread(t)
  BY <1>2 DEF IsThread
<1> QED  BY <1>1, <1>2, <1>3

\* the message is sent: those behind it remain
LEMMA Sent ==
  ASSUME StreamsInv, NEW c \in Conn,
         thread[c].step \in {"send", "flush"},
         thread' = [thread EXCEPT ![c] = S!NextSend(c)],
         UNCHANGED <<connectionId, connIds>>
  PROVE  StreamsInv'
<1> DEFINE s == thread[c].sends
           t == S!HasToSend(Tail(s))
<1>1. PICK A : thread[c] \in Thread(A)
  BY DEF StreamsInv, ThreadsInv, IsThread
<1> DEFINE M == [to : Conn \cup {S!NoConn}, answer : A]
<1>2. s \in Seq(M) /\ s # <<>>
  BY <1>1 DEF Thread, StreamsInv, ThreadsInv
<1>3. Tail(s) \in Seq(M) /\ \A i \in DOMAIN Tail(s) : i + 1 \in DOMAIN s /\ Tail(s)[i] = s[i + 1]
  <2> HIDE DEF M, s
  <2> QED  BY <1>2
<1>4. \A i \in DOMAIN Tail(s) : Reachable(Tail(s)[i].to)
  BY <1>3 DEF StreamsInv, SendsInv
<1>5. /\ IsThread(t)
      /\ t.sends = Tail(s)
      /\ t.step \in {"read", "send"}
      /\ t.step = "send" => Tail(s) # <<>>
  BY <1>3, HasToSendFields
<1>6. thread' = [thread EXCEPT ![c] = t]
  BY DEF S!NextSend
<1>7. Advance(c, t)
  <2> HIDE DEF t, s
  <2> QED  BY <1>4, <1>5, <1>6 DEF Advance
<1> QED  BY <1>7, AdvanceKept

\* a request is processed by a thread that reads, whose own streams are open
LEMMA ProcessKept ==
  ASSUME StreamsInv, NEW c \in Conn, S!Process(c)
  PROVE  StreamsInv'
<1>1. thread[c].step = "read" /\ S!HasStreams(c)
  BY DEF S!Process, S!At, S!HasStreams
<1>2. PICK message : \E sends \in S!Sends(c, S!ReadRequest(message)) :
        /\ thread' = [thread EXCEPT ![c] = S!HasToSend(sends)]
        /\ connIds' \in {connIds, connIds \cup {c}}
  BY DEF S!Process
<1> DEFINE request == S!ReadRequest(message)
<1>3. PICK sends \in S!Sends(c, request) :
        /\ thread' = [thread EXCEPT ![c] = S!HasToSend(sends)]
        /\ connIds' \in {connIds, connIds \cup {c}}
  BY <1>2
<1>4. PICK A : sends \in Seq([to : connIds \cup {c, S!NoConn}, answer : A])
  <2>1. request.op \in {0, 1, 2, 3, 4, 5, 6, 7, 8, 12}
    BY Branches
  <2> QED  BY <2>1, Answers
<1> DEFINE M == [to : connIds \cup {c, S!NoConn}, answer : A]
<1>5. \A i \in DOMAIN sends : sends[i].to \in connIds \cup {c, S!NoConn}
  <2>1. sends \in Seq(M)
    BY <1>4
  <2>2. \A i \in DOMAIN sends : sends[i] \in M
    <3> HIDE DEF M
    <3> QED  BY <2>1
  <2> QED  BY <2>2
<1>6. \A i \in DOMAIN sends : Reachable(sends[i].to)
  BY <1>1, <1>5 DEF StreamsInv, LoggedInv, Reachable
<1> DEFINE N == [to : Conn \cup {S!NoConn}, answer : A]
<1>7. sends \in Seq(N)
  <2>1. sends \in Seq(M) /\ M \subseteq N
    BY <1>4 DEF StreamsInv, LoggedInv
  <2> HIDE DEF M, N
  <2> QED  BY <2>1, SeqMonotonic
<1> DEFINE t == S!HasToSend(sends)
<1>8. /\ IsThread(t)
      /\ t.sends = sends
      /\ t.step \in {"read", "send"}
      /\ t.step = "send" => sends # <<>>
  BY <1>7, HasToSendFields
<1>9. connectionId' = connectionId
  BY DEF S!Process, S!serveVars
<1>10. Advance(c, t)
  <2> HIDE DEF t
  <2> QED  BY <1>1, <1>3, <1>6, <1>8, <1>9 DEF Advance, t
<1> QED  BY <1>1, <1>10, AdvanceKept

\* accept starts a thread that was not there
LEMMA AcceptKept ==
  ASSUME StreamsInv, NEW c \in Conn, S!Accept(c)
  PROVE  StreamsInv'
<1> DEFINE t == [thread[c] EXCEPT !.step = "started"]
<1>1. /\ c = connectionId /\ connectionId' = connectionId + 1 /\ connIds' = connIds
      /\ thread' = [thread EXCEPT ![c] = t]
  BY DEF S!Accept, StreamsInv
<1>2. thread[c].step = "none" /\ connectionId \in Nat
  BY <1>1, Ids DEF StreamsInv, IdsInv
<1>3. PICK A : thread[c] \in Thread(A)
  BY DEF StreamsInv, ThreadsInv, IsThread
<1>4. t \in Thread(A) /\ t.step = "started" /\ t.sends = thread[c].sends
  BY <1>3 DEF Thread, Steps
<1>5. IsThread(t)
  BY <1>4 DEF IsThread
<1> HIDE DEF t
<1>6. thread'[c] = t /\ \A d \in Conn \ {c} : thread'[d] = thread[d]
  BY <1>1 DEF StreamsInv
<1>7. \A d \in Conn : S!HasStreams(d) => S!HasStreams(d)'
  BY <1>2, <1>6 DEF S!HasStreams
<1>8. \A d \in Conn \cup {S!NoConn} : Reachable(d) => Reachable(d)'
  BY <1>7 DEF Reachable, S!NoConn
<1>9. ThreadsInv'
  <2>1. ASSUME NEW d \in Conn
        PROVE  /\ IsThread(thread'[d])
               /\ thread'[d].step \in {"send", "flush"} => thread'[d].sends # <<>>
    <3>1. CASE d = c
      BY <1>4, <1>5, <1>6, <3>1
    <3>2. CASE d # c
      BY <1>6, <3>2 DEF StreamsInv, ThreadsInv
    <3> QED  BY <3>1, <3>2
  <2> QED  BY <2>1 DEF ThreadsInv, IsThread, Thread
<1>10. IdsInv'
  BY <1>1, <1>2, <1>6, Ids DEF StreamsInv, IdsInv
<1>11. LoggedInv'
  BY <1>1, <1>7 DEF StreamsInv, LoggedInv
<1>12. SendsInv'
  <2>1. \A d \in Conn : thread'[d].sends = thread[d].sends
    BY <1>4, <1>6
  <2>2. ASSUME NEW d \in Conn, NEW i \in DOMAIN thread[d].sends
        PROVE  Reachable(thread[d].sends[i].to)'
    <3>1. thread[d].sends[i].to \in Conn \cup {S!NoConn}
      BY Messages DEF StreamsInv, ThreadsInv
    <3>2. Reachable(thread[d].sends[i].to)
      BY DEF StreamsInv, SendsInv
    <3> QED  BY <1>8, <2>1, <3>1, <3>2
  <2> QED  BY <2>1, <2>2 DEF SendsInv
<1>13. (DOMAIN thread)' = Conn
  BY <1>1 DEF StreamsInv
<1> QED  BY <1>9, <1>10, <1>11, <1>12, <1>13 DEF StreamsInv

\* every step of run and of send
LEMMA ThreadKept ==
  ASSUME StreamsInv, NEW c \in Conn, S!ThreadStep(c)
  PROVE  StreamsInv'
<1>1. CASE S!OpenStreams(c)
  BY <1>1, StepAlone DEF S!OpenStreams, S!At, S!serveVars
<1>2. CASE S!Process(c)
  BY <1>2, ProcessKept
<1>3. CASE S!ProcessThrows(c)
  BY <1>3, StepAlone DEF S!ProcessThrows, S!At, S!serveVars
<1>4. CASE S!ReadEnds(c) \/ S!LogstatThrows(c)
  BY <1>4, StepAlone DEF S!ReadEnds, S!LogstatThrows, S!At, S!serveVars
<1>5. CASE S!SendNowhere(c)
  BY <1>5, Sent DEF S!SendNowhere, S!Sending, S!At, S!serveVars
<1>6. CASE S!SendWrite(c)
  <2>1. thread[c].step = "send" /\ thread[c].sends # <<>>
    BY <1>6 DEF S!SendWrite, S!Sending, S!At, StreamsInv, ThreadsInv
  <2>2. /\ thread' = [thread EXCEPT ![c].step = "flush"]
        /\ UNCHANGED <<connectionId, connIds>>
    BY <1>6 DEF S!SendWrite, S!serveVars
  <2> QED  BY <2>1, <2>2, StepAlone
<1>7. CASE S!SendLarge(c)
  BY <1>7, Sent DEF S!SendLarge, S!Sending, S!At, S!serveVars
<1>8. CASE S!SendFlush(c)
  BY <1>8, Sent DEF S!SendFlush, S!At, S!serveVars
<1>9. CASE S!SendFails(c)
  BY <1>9, Sent DEF S!SendFails, S!Sending, S!At, S!serveVars
<1> QED
  BY <1>1, <1>2, <1>3, <1>4, <1>5, <1>6, <1>7, <1>8, <1>9 DEF S!ThreadStep

\* clients, lost connections and a failing accept change no thread of the server
LEMMA StutterKept ==
  ASSUME StreamsInv, UNCHANGED <<thread, connectionId, connIds>>
  PROVE  StreamsInv'
BY DEF StreamsInv, ThreadsInv, IsThread, Thread, IdsInv, LoggedInv, SendsInv, Reachable,
       S!HasStreams

\* the invariant is inductive
LEMMA Kept == StreamsInv /\ [Next]_vars => StreamsInv'
<1> SUFFICES ASSUME StreamsInv, [Next]_vars
             PROVE  StreamsInv'
  OBVIOUS
<1>1. CASE ServerStep
  <2>1. CASE S!AcceptFails
    BY <2>1, StutterKept DEF S!AcceptFails
  <2>2. ASSUME NEW c \in Conn, S!Accept(c)
        PROVE  StreamsInv'
    BY <2>2, AcceptKept
  <2>3. ASSUME NEW c \in Conn, S!ThreadStep(c)
        PROVE  StreamsInv'
    BY <2>3, ThreadKept
  <2> QED  BY <1>1, <2>1, <2>2, <2>3 DEF ServerStep, S!ServerStep, S!ServeStep
<1>2. ASSUME NEW c \in Conn, ClientStep(c) \/ Lose(c)
      PROVE  StreamsInv'
  BY <1>2, StutterKept DEF ClientStep, Lose, serverVars
<1>3. CASE UNCHANGED vars
  BY <1>3, StutterKept DEF vars, serverVars
<1> QED  BY <1>1, <1>2, <1>3 DEF Next

\* at the start there is no thread
LEMMA Start == Init => StreamsInv
<1> SUFFICES ASSUME Init
             PROVE  StreamsInv
  OBVIOUS
<1> DEFINE t == [step |-> "none", sends |-> <<>>]
<1>1. thread = [c \in Conn |-> t] /\ connectionId = 0 /\ connIds = {}
  BY DEF Init, S!Init
<1>2. IsThread(t)
  <2>1. t \in Thread({})
    BY DEF Thread, Steps
  <2> QED  BY <2>1 DEF IsThread
<1>3. ThreadsInv
  BY <1>1, <1>2 DEF ThreadsInv
<1> QED  BY <1>1, <1>3 DEF StreamsInv, IdsInv, LoggedInv, SendsInv

\* a message that is addressed to a known connection finds its streams
LEMMA Opened == StreamsInv => StreamsOpen
<1> SUFFICES ASSUME StreamsInv, NEW c \in Conn, S!Sending(c), S!Receiver(c) \in S!Known
             PROVE  S!HasStreams(S!Receiver(c))
  BY DEF StreamsOpen
<1> DEFINE s == thread[c].sends
<1>1. PICK A : thread[c] \in Thread(A)
  BY DEF StreamsInv, ThreadsInv, IsThread
<1> DEFINE M == [to : Conn \cup {S!NoConn}, answer : A]
<1>2. s \in Seq(M) /\ s # <<>>
  BY <1>1 DEF Thread, StreamsInv, ThreadsInv, S!Sending, S!At
<1>3. 1 \in DOMAIN s /\ Head(s) = s[1]
  <2> HIDE DEF M, s
  <2> QED  BY <1>2
<1>4. Reachable(S!Receiver(c))
  BY <1>3 DEF StreamsInv, SendsInv, S!Receiver
<1>5. S!Receiver(c) # S!NoConn
  BY Ids DEF S!Known
<1> QED  BY <1>4, <1>5 DEF Reachable

(***************************************************************************)
(* The inductive invariant holds in every behaviour.                       *)
(***************************************************************************)
THEOREM Invariance == Spec => []StreamsInv
BY Start, Kept, PTL DEF Spec

(***************************************************************************)
(* ConnectionHandlerImpl.send is never called on a connection whose thread *)
(* has not set up its streams yet, so that out is not null, for any number *)
(* of clients, lines and losses of connections.                            *)
(***************************************************************************)
THEOREM Streams == Spec => []StreamsOpen
BY Invariance, Opened, PTL


-----------------------------------------------------------------------------
(* Client, ThreadPerClient and this module have the same Framing *)

\* what a client sends
LEMMA SameEncoder == ASSUME NEW line PROVE C!Encoder(line) = Encoder(line)
BY DEF C!Encoder, Encoder, C!Body, Body, C!Two, Two, C!Op, Op, C!Digit, Digit, C!Text, Text,
       C!ReplaceAll, ReplaceAll, C!Blank, Blank, C!NUL, NUL, C!Semicolon, Semicolon,
       C!WithoutBlanks, WithoutBlanks

\* how the server reads it
LEMMA SameRead == ASSUME NEW m PROVE S!ReadRequest(m) = ReadRequest(m)
BY DEF S!ReadRequest, ReadRequest, S!Two, Two, S!Digit, Digit, S!Trimmed, Trimmed, S!Split, Split,
       S!NUL, NUL, S!Cardinality, Cardinality, S!SelectLastInSeq, SelectLastInSeq, S!Max, Max,
       S!Min, Min

\* where it finds the end of a message
LEMMA SameMessage ==
  ASSUME NEW bytes
  PROVE  S!MessageLength(bytes) = MessageLength(bytes) /\ S!HasMessage(bytes) = HasMessage(bytes)
BY DEF S!MessageLength, MessageLength, S!SelectInSeq, SelectInSeq, S!Min, Min, S!Semicolon, Semicolon,
       S!HasMessage, HasMessage, S!Contains, Contains

\* which messages it cannot read
LEMMA SameMalformed == ASSUME NEW m PROVE S!Malformed(m) = Malformed(m)
BY SameRead DEF S!Malformed, Malformed

\* what it answers
LEMMA SameAnswers ==
  /\ \A op : S!Ack(op) = Ack(op) /\ S!Error(op) = Error(op)
  /\ \A action, name : S!FollowAck(action, name) = FollowAck(action, name)
  /\ \A numbers : S!Statistics(numbers) = Statistics(numbers)
  /\ \A stat, user, content :
       S!Notification(stat, user, content) = Notification(stat, user, content)
BY DEF S!Ack, Ack, S!Error, Error, S!FollowAck, FollowAck, S!Statistics, Statistics,
       S!Notification, Notification, S!Digit, Digit

\* and what it sends of that
LEMMA SameEncode ==
  ASSUME NEW answer
  PROVE  S!Encode(answer) = Encode(answer) /\ S!IsTable(answer) = IsTable(answer)
BY DEF S!Encode, Encode, S!IsTable, IsTable, S!Two, Two, S!Digit, Digit, S!TableBytes, TableBytes,
       S!ShortToBytes, ShortToBytes, S!Semicolon, Semicolon, S!NUL, NUL, S!Padding, Padding

\* what arrives of a stream
LEMMA SamePrefixes ==
  ASSUME NEW s
  PROVE  C!Prefixes(s) = Prefixes(s) /\ S!Prefixes(s) = Prefixes(s)
BY DEF C!Prefixes, S!Prefixes, Prefixes

-----------------------------------------------------------------------------
(* What the server answers *)

\* answers with actions of A and names and texts of F
AnswersFrom(A, F) ==
  {Ack(op) : op \in {1, 2, 3, 5, 6, 12}} \cup {Error(op) : op \in Ops}
    \cup {FollowAck(action, name) : action \in A, name \in F}
    \cup {Statistics(S!Numbers)}
    \cup {Notification(<<Digit(1)>>, <<97>>, content) : content \in F}

\* messages that the thread of c may send: all but notifications go to its own client
Mail(c, A, F) ==
  {m \in [to : Conn \cup {S!NoConn}, answer : AnswersFrom(A, F)] :
     m.answer.kind # "NOTIFICATION" => m.to = c}

\* what process sends, if the request has such parts
LEMMA SendsFrom ==
  ASSUME NEW A, NEW F, <<>> \in F, NEW c \in Conn, NEW request, connIds \subseteq Conn,
         request.op \in Ops \cup {0},
         request.op = 4 => request.fields[1] \in A /\ request.fields[2] \in F,
         request.op \in {5, 6} => request.fields[1] \in F,
         NEW sends \in S!Sends(c, request)
  PROVE  sends \in Seq(Mail(c, A, F))
<1> DEFINE op == request.op
           T == Conn \cup {S!NoConn}
           X == AnswersFrom(A, F)
           own(a) == S!To(c, a)
           M == Mail(c, A, F)
<1>1. \A d \in T : \A a \in X : (a.kind # "NOTIFICATION" => d = c) => S!To(d, a) \in M
  BY DEF S!To, Mail
<1>2. ASSUME NEW m \in M, NEW n \in M
      PROVE  Lists(m, n) \subseteq Seq(M)
  <2>1. <<m>> \in Seq(M) /\ <<n>> \in Seq(M)
    BY <1>2
  <2>2. Append(<<m>>, n) \in Seq(M) /\ <<m>> \o <<n>> \in Seq(M)
    BY <2>1
  <2> QED  BY <2>1, <2>2 DEF Lists
<1>3. /\ \A x \in Ops : S!Error(x) \in X
      /\ \A x \in {1, 2, 3, 5, 6, 12} : S!Ack(x) \in X
      /\ \A a \in A, n \in F : S!FollowAck(a, n) \in X
      /\ S!Statistics(S!Numbers) \in X
      /\ \A t \in F : S!NoteOf(t) \in X
  <2>1. \A t : S!NoteOf(t) = Notification(<<Digit(1)>>, <<97>>, t)
    BY SameAnswers DEF S!NoteOf, S!Digit, Digit
  <2> QED  BY <2>1, SameAnswers DEF AnswersFrom
<1>4. c \in T /\ S!NoConn \in T /\ connIds \cup {c} \subseteq T
  OBVIOUS
<1> SUFFICES sends \in Seq(M)
  OBVIOUS
<1>5. \A a : S!NoteOf(a).kind = "NOTIFICATION"
  BY DEF S!NoteOf, S!Notification
<1> HIDE DEF X, M, T
<1>6. \A a, b \in X : Lists(own(a), own(b)) \subseteq Seq(M)
  BY <1>1, <1>2, <1>4
<1>7. \A t, b : \A d \in T :
         S!NoteOf(t) \in X /\ b \in X => /\ Lists(S!To(d, S!NoteOf(t)), own(b)) \subseteq Seq(M)
                                          /\ Lists(own(b), S!To(d, S!NoteOf(t))) \subseteq Seq(M)
  BY <1>1, <1>2, <1>4, <1>5
<1>8. CASE op \in {1, 3, 12}
  <2>1. sends \in Lists(own(S!Error(op)), own(S!Ack(op))) \cup Lists(own(S!Ack(op)), own(S!Ack(op)))
    BY <1>8 DEF S!Sends, Lists
  <2>2. S!Error(op) \in X /\ S!Ack(op) \in X
    BY <1>3, <1>8 DEF Ops
  <2> QED  BY <1>4, <1>6, <1>7, <2>1, <2>2
<1>9. CASE op \in {0, 8}
  <2>1. sends \in Lists(own(S!Error(8)), own(S!Error(8)))
    BY <1>9 DEF S!Sends, Lists
  <2>2. S!Error(8) \in X
    BY <1>3 DEF Ops
  <2> QED  BY <1>4, <1>6, <1>7, <2>1, <2>2
<1>10. CASE op = 2
  <2>1. \/ sends \in Lists(own(S!Error(2)), own(S!Ack(2))) \cup Lists(own(S!Ack(2)), own(S!Ack(2)))
        \/ \E d \in connIds \cup {c} : sends \in Lists(own(S!Ack(2)), S!To(d, S!NoteOf(<<>>)))
    BY <1>10 DEF S!Sends, S!Targets, Lists
  <2>2. S!Error(2) \in X /\ S!Ack(2) \in X /\ S!NoteOf(<<>>) \in X
    BY <1>3 DEF Ops
  <2> QED  BY <1>4, <1>6, <1>7, <2>1, <2>2
<1>11. CASE op = 4
  <2> DEFINE a == S!FollowAck(request.fields[1], request.fields[2])
  <2>1. sends \in Lists(own(S!Error(4)), own(a)) \cup Lists(own(a), own(a))
    BY <1>11 DEF S!Sends, Lists
  <2>2. S!Error(4) \in X /\ a \in X
    BY <1>3, <1>11 DEF Ops
  <2> HIDE DEF a
  <2> QED  BY <1>4, <1>6, <1>7, <2>1, <2>2
<1>12. CASE op \in {5, 6}
  <2> DEFINE note == S!NoteOf(request.fields[1])
  <2>1. \/ sends \in Lists(own(S!Error(op)), own(S!Ack(op))) \cup Lists(own(S!Ack(op)), own(S!Ack(op)))
        \/ \E d \in connIds \cup {S!NoConn} : sends \in Lists(S!To(d, note), own(S!Ack(op)))
    BY <1>12 DEF S!Sends, S!Targets, Lists
  <2>2. S!Error(op) \in X /\ S!Ack(op) \in X /\ note \in X
    BY <1>3, <1>12 DEF Ops
  <2>3. \A d \in T : Lists(S!To(d, note), own(S!Ack(op))) \subseteq Seq(M)
    BY <1>7, <2>2
  <2> HIDE DEF note
  <2> QED  BY <1>4, <1>6, <2>1, <2>2, <2>3
<1>13. CASE op = 7
  <2> DEFINE a == S!Statistics(S!Numbers)
  <2>1. sends \in Lists(own(S!Error(7)), own(a)) \cup Lists(own(a), own(S!Error(7)))
                   \cup Lists(own(a), own(a))
    BY <1>13 DEF S!Sends, Lists
  <2>2. S!Error(7) \in X /\ a \in X
    BY <1>3 DEF Ops
  <2> HIDE DEF a
  <2> QED  BY <1>4, <1>6, <1>7, <2>1, <2>2
<1>14. op \in {1, 3, 12} \/ op \in {0, 8} \/ op = 2 \/ op = 4 \/ op \in {5, 6} \/ op = 7
  BY DEF Ops
<1> QED  BY <1>8, <1>9, <1>10, <1>11, <1>12, <1>13, <1>14

-----------------------------------------------------------------------------
(* Types *)

\* lines that are sent
Typable == {line \in C!Line : line.word \in DOMAIN Op}

\* any answers at all
Answered == AnswersFrom(Seq(Byte), Seq(Byte))

\* what the reader of a client does, and what it has of the answer
IsReader(r) == \E A : r \in [step : C!ReaderSteps, answer : A]

IsSeq(s) == \E T : s \in Seq(T)

WiresType ==
  /\ link \in [Conn -> {"none", "up", "down"}]
  /\ toServer \in [Conn -> Seq(Byte)] /\ toClient \in [Conn -> Seq(Byte)]

FlagsType ==
  /\ terminate \in [Conn -> BOOLEAN]
  /\ logoutSent \in [Conn -> BOOLEAN] /\ logoutFailed \in [Conn -> BOOLEAN]

ProgramsType ==
  /\ process \in [Conn -> {"running", "misread", "cutOff", "exited"}]
  /\ keyboard \in [Conn -> {"none", "test", "getline", "wait", "reset", "done"}]
  /\ stdin \in [Conn -> {"ok", "failed"}]

TypedType == typed \in [Conn -> Seq(Typable)]

ReadersType ==
  /\ DOMAIN reader = Conn /\ \A c \in Conn : IsReader(reader[c])
  /\ DOMAIN printed = Conn /\ \A c \in Conn : IsSeq(printed[c])

ServerType ==
  /\ serving \in BOOLEAN
  /\ thread \in [Conn -> Thread(Answered)]
  /\ \A c \in Conn : thread[c].step = "flush" => S!Receiver(c) \in Conn
  /\ out \in [Conn -> Seq(Byte)]
  /\ sent \in [Conn -> Seq(Answered)]
  /\ DOMAIN received = Conn /\ \A c \in Conn : IsSeq(received[c])

TypesInv ==
  /\ WiresType
  /\ FlagsType
  /\ ProgramsType
  /\ TypedType
  /\ ReadersType
  /\ ServerType

\* every line is one of a user: text, and where anything follows the word, a blank first
LEMMA LinesAre == \A line \in C!Line : IsLine(line)
<1>1. ASSUME NEW c \in Conn, NEW i \in DOMAIN Lines[c], NEW line \in Lines[c][i]
      PROVE  IsLine(line)
  <2> DEFINE L == [word : STRING, rest : Seq(1 .. 127)]
  <2>1. Lines[c] \in Seq(SUBSET L)
    BY LinesAssumption
  <2>2. Lines[c][i] \in SUBSET L
    <3> HIDE DEF L
    <3> QED  BY <2>1
  <2>3. line.rest \in Seq(Letter)
    BY <2>2 DEF Letter
  <2>4. line.rest # <<>> => Head(line.rest) = Blank
    BY LinesAssumption
  <2> QED  BY <2>3, <2>4 DEF IsLine
<1>2. IsLine(C!EmptyLine)
  <2>1. <<>> \in Seq(Letter)
    BY EmptySeq
  <2> QED  BY <2>1 DEF IsLine, C!EmptyLine
<1> QED  BY <1>1, <1>2 DEF C!Line

\* ... also one that is still to be typed
LEMMA MayBeTyped ==
  ASSUME TypesInv, NEW c \in Conn, NEW line \in C!MayType(c)
  PROVE  line \in C!Line
<1> DEFINE n == Len(typed[c])
<1>1. n \in Nat
  BY LenProperties DEF TypesInv, TypedType
<1>2. n < Len(Lines[c]) /\ line \in Lines[c][n + 1]
  BY DEF C!MayType
<1>3. Len(Lines[c]) \in Nat /\ DOMAIN Lines[c] = 1 .. Len(Lines[c])
  BY LinesAssumption, LenProperties
<1>4. n + 1 \in DOMAIN Lines[c]
  BY <1>1, <1>2, <1>3
<1> QED  BY <1>2, <1>4 DEF C!Line

\* what a line is sent as
LEMMA Sendable ==
  ASSUME NEW line \in C!Line
  PROVE  /\ IsLine(line)
         /\ C!Encoder(line) = Encoder(line)
         /\ Encoder(line) \in Seq(Byte)
         /\ Encoder(line) # <<>> <=> line.word \in DOMAIN Op
<1>1. IsLine(line)
  BY LinesAre
<1>2. C!Encoder(line) = Encoder(line)
  BY SameEncoder
<1>3. CASE line.word \in DOMAIN Op
  <2> DEFINE m == Message(line)
  <2>1. Encoder(line) = m \o <<Semicolon>> /\ m \in Seq(Ascii)
    BY <1>1, <1>3, MessageIs
  <2>2. Ascii \subseteq Byte
    BY DEF Ascii, Byte
  <2>3. m \in Seq(Byte) /\ <<Semicolon>> \in Seq(Byte) /\ Len(<<Semicolon>>) = 1
    BY <2>1, <2>2, SeqMonotonic, Bytes
  <2> HIDE DEF m
  <2>4. m \o <<Semicolon>> \in Seq(Byte) /\ Len(m \o <<Semicolon>>) = Len(m) + Len(<<Semicolon>>)
    BY <2>3, ConcatProperties
  <2>5. Len(m) \in Nat
    BY <2>3, LenProperties
  <2> QED  BY <1>1, <1>2, <1>3, <2>1, <2>3, <2>4, <2>5
<1>4. CASE line.word \notin DOMAIN Op
  BY <1>1, <1>2, <1>4, UnknownIs, EmptySeq
<1> QED  BY <1>3, <1>4

\* all that is written to a client is bytes
LEMMA AnswerBytes ==
  ASSUME NEW a \in Answered
  PROVE  Encode(a) \in Seq(Byte)
<1>1. CASE \E op \in {1, 2, 3, 5, 6, 12} : a = Ack(op)
  BY <1>1, AckIs
<1>2. CASE \E op \in Ops : a = Error(op)
  BY <1>2, ErrorIs
<1>3. CASE \E action \in Seq(Byte), name \in Seq(Byte) : a = FollowAck(action, name)
  BY <1>3, FollowAckIs
<1>4. CASE a = Statistics(S!Numbers)
  <2>1. S!Numbers = Row
    BY DEF S!Numbers, Row
  <2> QED  BY <1>4, <2>1, StatisticsIs
<1>5. CASE \E content \in Seq(Byte) : a = Notification(<<Digit(1)>>, <<97>>, content)
  BY <1>5, NoteIs
<1> QED  BY <1>1, <1>2, <1>3, <1>4, <1>5 DEF Answered, AnswersFrom

\* what is left of a stream behind the bytes that were read
LEMMA LeftOver == \A s \in Seq(Byte) : \A n \in Nat : SubSeq(s, n + 1, Len(s)) \in Seq(Byte)
<1> SUFFICES ASSUME NEW s \in Seq(Byte), NEW n \in Nat
             PROVE  SubSeq(s, n + 1, Len(s)) \in Seq(Byte)
  OBVIOUS
<1>1. Len(s) \in Nat /\ \A i \in n + 1 .. Len(s) : s[i] \in Byte
  BY LenProperties, ElementOfSeq
<1> QED  BY <1>1, SubSeqProperties

\* what is lost of a stream
LEMMA Arriving ==
  \A s \in Seq(Byte) :
    /\ \A p \in C!Prefixes(s) : p \in Seq(Byte)
    /\ \A p \in S!Prefixes(s) : p \in Seq(Byte)
BY PrefixOf, SamePrefixes

\* the socket of a client is closed
LEMMA ClosedByClient ==
  ASSUME WiresType, NEW c \in Conn, C!Closed(c)
  PROVE  WiresType'
<1>1. PICK s \in C!Prefixes(toServer[c]) : toServer' = [toServer EXCEPT ![c] = s]
  BY DEF C!Closed, C!ArrivesAtServer
<1>2. s \in Seq(Byte) /\ <<>> \in Seq(Byte)
  BY Arriving, EmptySeq DEF WiresType
<1> QED  BY <1>1, <1>2 DEF WiresType, C!Closed

\* ... by the server, or by the network
LEMMA ClosedByServer ==
  ASSUME WiresType, NEW c \in Conn, S!Closed(c)
  PROVE  WiresType'
<1>1. PICK s \in S!Prefixes(toClient[c]) : toClient' = [toClient EXCEPT ![c] = s]
  BY DEF S!Closed
<1>2. s \in Seq(Byte) /\ <<>> \in Seq(Byte)
  BY Arriving, EmptySeq DEF WiresType
<1> QED  BY <1>1, <1>2 DEF WiresType, S!Closed

\* a line is sent
LEMMA LineTypes ==
  ASSUME TypesInv, NEW c \in Conn, NEW line \in C!Line, C!SendLine(c, line),
         stdin' \in [Conn -> {"ok", "failed"}], UNCHANGED serverVars
  PROVE  TypesInv'
<1>1. WiresType'
  <2>1. toServer[c] \in Seq(Byte) /\ C!Encoder(line) \in Seq(Byte)
    BY Sendable DEF TypesInv, WiresType
  <2>2. toServer[c] \o C!Encoder(line) \in Seq(Byte)
    BY <2>1, JoinType, Zenon
  <2> QED  BY <2>2 DEF TypesInv, WiresType, C!SendLine
<1>2. FlagsType'
  <2>1. logoutSent' \in [Conn -> BOOLEAN]
    BY DEF TypesInv, FlagsType, C!SendLine
  <2> QED  BY <2>1 DEF TypesInv, FlagsType, C!SendLine
<1>3. ProgramsType'
  BY DEF TypesInv, ProgramsType, C!SendLine, C!KeyboardTo
<1>4. TypedType'
  <2>1. CASE C!Encoder(line) = <<>>
    BY <2>1 DEF TypesInv, TypedType, C!SendLine
  <2>2. CASE C!Encoder(line) # <<>>
    <3>1. line \in Typable
      BY <2>2, Sendable DEF Typable
    <3>2. typed[c] \in Seq(Typable) /\ typed' = [typed EXCEPT ![c] = Append(typed[c], line)]
      BY <2>2 DEF TypesInv, TypedType, C!SendLine
    <3>3. Append(typed[c], line) \in Seq(Typable)
      BY <3>1, <3>2
    <3> QED  BY <3>2, <3>3 DEF TypesInv, TypedType
  <2> QED  BY <2>1, <2>2
<1>5. ReadersType'
  BY DEF TypesInv, ReadersType, C!SendLine, C!readerVars, IsReader, IsSeq
<1>6. ServerType'
  BY DEF TypesInv, ServerType, serverVars, IsSeq, S!Receiver
<1> QED  BY <1>1, <1>2, <1>3, <1>4, <1>5, <1>6 DEF TypesInv

\* main and the keyboard thread
LEMMA KeyboardTypes ==
  ASSUME TypesInv, NEW c \in Conn,
         C!MainStep(c) \/ C!UserStep(c) \/ C!KeyboardStep(c), UNCHANGED serverVars
  PROVE  TypesInv'
<1>1. CASE C!Start(c)
  <2>1. WiresType'
    BY <1>1 DEF C!Start, TypesInv, WiresType
  <2>2. ProgramsType'
    BY <1>1 DEF C!Start, TypesInv, ProgramsType
  <2>3. ReadersType'
    <3>1. PICK A : reader[c] \in [step : C!ReaderSteps, answer : A]
      BY DEF TypesInv, ReadersType, IsReader
    <3>2. [reader[c] EXCEPT !.step = "opCode"] \in [step : C!ReaderSteps, answer : A]
      BY <3>1 DEF C!ReaderSteps, C!Size
    <3>3. reader' = [reader EXCEPT ![c] = [reader[c] EXCEPT !.step = "opCode"]]
      BY <1>1 DEF C!Start
    <3>4. \A d \in Conn : IsReader(reader'[d])
      BY <3>2, <3>3 DEF TypesInv, ReadersType, IsReader
    <3> QED  BY <1>1, <3>3, <3>4 DEF C!Start, TypesInv, ReadersType, IsReader, IsSeq
  <2> QED
    BY <1>1, <2>1, <2>2, <2>3 DEF C!Start, C!flagVars, serverVars, TypesInv, FlagsType, TypedType,
                                  ServerType, IsSeq, S!Receiver
<1>2. CASE C!StartFails(c) \/ C!Exit(c)
  <2>1. WiresType'
    BY <1>2, ClosedByClient DEF C!StartFails, C!Exit, C!wireVars, TypesInv, WiresType
  <2>2. ProgramsType'
    BY <1>2 DEF C!StartFails, C!Exit, C!keyboardVars, TypesInv, ProgramsType
  <2> QED
    BY <1>2, <2>1, <2>2 DEF C!StartFails, C!Exit, C!flagVars, C!keyboardVars, C!readerVars, serverVars,
                            TypesInv, FlagsType, TypedType, ReadersType, ServerType, IsReader, IsSeq, S!Receiver
<1>3. CASE C!Type(c) \/ C!TypeTooLong(c)
  <2>1. PICK line \in C!MayType(c) : C!SendLine(c, line)
    BY <1>3 DEF C!Type, C!TypeTooLong
  <2>2. line \in C!Line
    BY MayBeTyped
  <2>3. stdin' \in [Conn -> {"ok", "failed"}]
    BY <1>3 DEF C!Type, C!TypeTooLong, TypesInv, ProgramsType
  <2> QED  BY <2>1, <2>2, <2>3, LineTypes
<1>4. CASE C!InputEnds(c) \/ C!GetNothing(c)
  <2>1. C!SendLine(c, C!EmptyLine) /\ C!EmptyLine \in C!Line
    BY <1>4 DEF C!InputEnds, C!GetNothing, C!Line
  <2>2. stdin' \in [Conn -> {"ok", "failed"}]
    BY <1>4 DEF C!InputEnds, C!GetNothing, TypesInv, ProgramsType
  <2> QED  BY <2>1, <2>2, LineTypes
<1>5. CASE C!KeyboardTest(c) \/ C!WaitEnds(c)
  <2>1. ProgramsType'
    BY <1>5 DEF C!KeyboardTest, C!WaitEnds, C!KeyboardTo, TypesInv, ProgramsType
  <2> QED
    BY <1>5, <2>1 DEF C!KeyboardTest, C!WaitEnds, C!wireVars, C!flagVars, C!readerVars, serverVars,
                      TypesInv, WiresType, FlagsType, TypedType, ReadersType, ServerType, IsReader, IsSeq, S!Receiver
<1>6. CASE C!ResetLogout(c)
  <2>1. ProgramsType'
    BY <1>6 DEF C!ResetLogout, C!KeyboardTo, TypesInv, ProgramsType
  <2>2. FlagsType'
    BY <1>6 DEF C!ResetLogout, TypesInv, FlagsType
  <2> QED
    BY <1>6, <2>1, <2>2 DEF C!ResetLogout, C!wireVars, C!readerVars, serverVars,
                            TypesInv, WiresType, TypedType, ReadersType, ServerType, IsReader, IsSeq, S!Receiver
<1> QED
  BY <1>1, <1>2, <1>3, <1>4, <1>5, <1>6 DEF C!MainStep, C!UserStep, C!KeyboardStep

\* the reader goes on to another step
LEMMA OnToTypes ==
  ASSUME TypesInv, NEW c \in Conn, NEW step \in C!ReaderSteps, NEW answer, C!OnTo(c, step, answer)
  PROVE  DOMAIN reader' = Conn /\ \A d \in Conn : IsReader(reader'[d])
<1> DEFINE r == [step |-> step, answer |-> answer]
<1>1. r \in [step : C!ReaderSteps, answer : {answer}]
  OBVIOUS
<1>2. IsReader(r)
  BY <1>1 DEF IsReader
<1>3. reader' = [reader EXCEPT ![c] = r]
  BY DEF C!OnTo
<1> HIDE DEF r
<1> QED  BY <1>2, <1>3 DEF TypesInv, ReadersType

\* the reader has read some bytes
LEMMA ConsumeTypes ==
  ASSUME WiresType, NEW c \in Conn, NEW n \in Nat, C!Consume(c, n), UNCHANGED <<link, toServer>>
  PROVE  WiresType'
<1>1. SubSeq(toClient[c], n + 1, Len(toClient[c])) \in Seq(Byte)
  BY LeftOver DEF WiresType
<1> QED  BY <1>1 DEF WiresType, C!Consume

\* the steps of the reader
LEMMA Parts ==
  /\ \A step \in {"opCode", "stat", "messageOpcode", "action", "extra", "arguments", "arg", "last"} :
       step \in C!ReaderSteps /\ step \in DOMAIN C!Size /\ C!Size[step] \in {1, 2, 8}
  /\ \A step \in C!Frames : step \in C!ReaderSteps
  /\ \A step \in DOMAIN C!After : C!After[step] \in C!ReaderSteps
  /\ {"stat", "action", "extra", "arguments"} \cup C!Frames \subseteq DOMAIN C!After
  /\ {"done", "repeat", "opCode"} \subseteq C!ReaderSteps
BY DEF C!ReaderSteps, C!Size, C!Frames, C!After

\* where the NUL is
LEMMA FrameEndType ==
  ASSUME WiresType, NEW c \in Conn
  PROVE  C!FrameEnd(c) \in Nat
<1> DEFINE s == toClient[c]
           I == {i \in 1 .. Len(s) : s[i] = C!NUL}
<1>1. C!FrameEnd(c) = IF I = {} THEN 0 ELSE C!Min(I)
  BY DEF C!FrameEnd, C!SelectInSeq
<1>2. Len(s) \in Nat
  BY LenProperties DEF WiresType
<1>3. I # {} => C!Min(I) \in I
  <2>1. I \subseteq 1 .. Len(s) /\ C!Min(I) = Min(I)
    BY DEF C!Min, Min
  <2> HIDE DEF I, s
  <2> QED  BY <1>2, <2>1, Ends
<1> QED  BY <1>1, <1>2, <1>3

\* an action of the reader that keeps the program and the server as they are
LEMMA ReaderKept ==
  ASSUME TypesInv, WiresType', FlagsType', ReadersType',
         UNCHANGED <<process, keyboard, stdin, typed>>, UNCHANGED serverVars
  PROVE  TypesInv'
BY DEF TypesInv, ProgramsType, TypedType, ServerType, serverVars, IsSeq, S!Receiver

\* the socket thread
LEMMA ReaderTypes ==
  ASSUME TypesInv, NEW c \in Conn, C!ReaderStep(c), UNCHANGED serverVars
  PROVE  TypesInv'
<1>1. CASE C!DecodeOpcode(c)
  <2>1. WiresType'
    BY <1>1, ConsumeTypes DEF C!DecodeOpcode, TypesInv
  <2>2. FlagsType'
    BY <1>1 DEF C!DecodeOpcode, C!flagVars, TypesInv, FlagsType
  <2>3. \E step \in C!ReaderSteps : \E answer : C!OnTo(c, step, answer)
    BY <1>1, Parts DEF C!DecodeOpcode, C!ReaderSteps, C!Size
  <2>4. ReadersType'
    BY <1>1, <2>3, OnToTypes DEF C!DecodeOpcode, TypesInv, ReadersType, IsSeq
  <2> QED  BY <1>1, <2>1, <2>2, <2>4, ReaderKept DEF C!DecodeOpcode, C!keyboardVars
<1>2. CASE C!DecodeNothing(c)
  <2>1. WiresType'
    BY <1>2, ClosedByClient DEF C!DecodeNothing, TypesInv
  <2>2. ProgramsType'
    BY <1>2 DEF C!DecodeNothing, C!keyboardVars, TypesInv, ProgramsType
  <2> QED
    BY <1>2, <2>1, <2>2 DEF C!DecodeNothing, C!flagVars, C!keyboardVars, C!readerVars, serverVars,
                            TypesInv, FlagsType, TypedType, ReadersType, ServerType, IsReader, IsSeq, S!Receiver
<1>3. CASE C!DecodeAck(c)
  <2>1. WiresType'
    BY <1>3, ConsumeTypes DEF C!DecodeAck, TypesInv
  <2>2. FlagsType'
    BY <1>3 DEF C!DecodeAck, TypesInv, FlagsType
  <2>3. \E step \in C!ReaderSteps : \E answer : C!OnTo(c, step, answer)
    <3> DEFINE op == C!Number(C!Got(c, "messageOpcode"))
               next == CASE op = 4 -> "action" [] op \in {7, 8} -> "arguments" [] OTHER -> "last"
    <3>1. C!OnTo(c, next, [reader[c].answer EXCEPT !.op = op])
      BY <1>3 DEF C!DecodeAck
    <3>2. next \in {"action", "arguments", "last"}
      OBVIOUS
    <3> HIDE DEF next
    <3> QED  BY <3>1, <3>2, Parts
  <2>4. ReadersType'
    BY <1>3, <2>3, OnToTypes DEF C!DecodeAck, TypesInv, ReadersType, IsSeq
  <2> QED  BY <1>3, <2>1, <2>2, <2>4, ReaderKept DEF C!DecodeAck, C!keyboardVars
<1>4. CASE C!DecodeError(c)
  <2>1. WiresType'
    BY <1>4, ConsumeTypes DEF C!DecodeError, TypesInv
  <2>2. FlagsType'
    BY <1>4 DEF C!DecodeError, TypesInv, FlagsType
  <2>3. \E step \in C!ReaderSteps : \E answer : C!OnTo(c, step, answer)
    BY <1>4, Parts DEF C!DecodeError
  <2>4. ReadersType'
    BY <1>4, <2>3, OnToTypes DEF C!DecodeError, TypesInv, ReadersType, IsSeq
  <2> QED  BY <1>4, <2>1, <2>2, <2>4, ReaderKept DEF C!DecodeError, C!keyboardVars
<1>5. CASE C!PrintAnswer(c)
  <2>1. WiresType'
    BY <1>5, ConsumeTypes DEF C!PrintAnswer, TypesInv
  <2>2. FlagsType'
    BY <1>5 DEF C!PrintAnswer, C!flagVars, TypesInv, FlagsType
  <2>3. \E step \in C!ReaderSteps : \E answer : C!OnTo(c, step, answer)
    <3> DEFINE next == IF terminate[c] THEN "done" ELSE "opCode"
    <3>1. C!OnTo(c, next, C!NoAnswer)
      BY <1>5 DEF C!PrintAnswer
    <3>2. next \in {"done", "opCode"}
      OBVIOUS
    <3> HIDE DEF next
    <3> QED  BY <3>1, <3>2, Parts
  <2>4. ReadersType'
    <3>1. PICK T : printed[c] \in Seq(T)
      BY DEF TypesInv, ReadersType, IsSeq
    <3>2. Append(printed[c], reader[c].answer) \in Seq(T \cup {reader[c].answer})
      <4> DEFINE U == T \cup {reader[c].answer}
      <4>1. printed[c] \in Seq(U) /\ reader[c].answer \in U
        BY <3>1, SeqMonotonic
      <4> HIDE DEF U
      <4>2. Append(printed[c], reader[c].answer) \in Seq(U)
        BY <4>1
      <4> QED  BY <4>2 DEF U
    <3>3. IsSeq(Append(printed[c], reader[c].answer))
      BY <3>2 DEF IsSeq
    <3>4. printed' = [printed EXCEPT ![c] = Append(printed[c], reader[c].answer)]
      BY <1>5 DEF C!PrintAnswer
    <3>5. DOMAIN printed' = Conn /\ \A d \in Conn : IsSeq(printed'[d])
      BY <3>3, <3>4 DEF TypesInv, ReadersType
    <3> QED  BY <2>3, <3>5, OnToTypes DEF ReadersType
  <2> QED  BY <1>5, <2>1, <2>2, <2>4, ReaderKept DEF C!PrintAnswer, C!keyboardVars
<1>6. ASSUME NEW step \in {"stat", "action", "extra", "arguments"}, C!DecodeBytes(c, step)
      PROVE  TypesInv'
  <2>1. WiresType'
    <3>1. C!Size[step] \in Nat
      BY Parts
    <3> QED  BY <1>6, <3>1, ConsumeTypes DEF C!DecodeBytes, TypesInv
  <2>2. FlagsType'
    BY <1>6 DEF C!DecodeBytes, C!flagVars, TypesInv, FlagsType
  <2>3. \E next \in C!ReaderSteps : \E answer : C!OnTo(c, next, answer)
    <3>1. C!After[step] \in C!ReaderSteps
      BY Parts
    <3> QED  BY <1>6, <3>1 DEF C!DecodeBytes
  <2>4. ReadersType'
    BY <1>6, <2>3, OnToTypes DEF C!DecodeBytes, TypesInv, ReadersType, IsSeq
  <2> QED  BY <1>6, <2>1, <2>2, <2>4, ReaderKept DEF C!DecodeBytes, C!keyboardVars
<1>7. ASSUME NEW step \in C!Frames, C!DecodeFrame(c, step)
      PROVE  TypesInv'
  <2>1. WiresType'
    BY <1>7, FrameEndType, ConsumeTypes DEF C!DecodeFrame, TypesInv
  <2>2. FlagsType'
    BY <1>7 DEF C!DecodeFrame, C!flagVars, TypesInv, FlagsType
  <2>3. \E next \in C!ReaderSteps : \E answer : C!OnTo(c, next, answer)
    <3>1. C!After[step] \in C!ReaderSteps
      BY Parts
    <3> QED  BY <1>7, <3>1 DEF C!DecodeFrame
  <2>4. ReadersType'
    BY <1>7, <2>3, OnToTypes DEF C!DecodeFrame, TypesInv, ReadersType, IsSeq
  <2> QED  BY <1>7, <2>1, <2>2, <2>4, ReaderKept DEF C!DecodeFrame, C!keyboardVars
<1>8. ASSUME NEW step \in C!Frames, C!FrameRepeats(c, step)
      PROVE  TypesInv'
  <2>1. WiresType'
    BY <1>8, EmptySeq DEF C!FrameRepeats, TypesInv, WiresType
  <2>2. FlagsType'
    BY <1>8 DEF C!FrameRepeats, C!flagVars, TypesInv, FlagsType
  <2>3. ReadersType'
    <3>1. PICK A : reader[c] \in [step : C!ReaderSteps, answer : A]
      BY DEF TypesInv, ReadersType, IsReader
    <3>2. [reader[c] EXCEPT !.step = "repeat"] \in [step : C!ReaderSteps, answer : A]
      BY <3>1, Parts
    <3>3. reader' = [reader EXCEPT ![c] = [reader[c] EXCEPT !.step = "repeat"]]
      BY <1>8 DEF C!FrameRepeats
    <3>4. \A d \in Conn : IsReader(reader'[d])
      BY <3>2, <3>3 DEF TypesInv, ReadersType, IsReader
    <3> QED  BY <1>8, <3>3, <3>4 DEF C!FrameRepeats, TypesInv, ReadersType, IsReader, IsSeq
  <2> QED  BY <1>8, <2>1, <2>2, <2>3, ReaderKept DEF C!FrameRepeats, C!keyboardVars
<1>9. ASSUME NEW step \in C!Frames, C!FrameOfNothing(c, step)
      PROVE  TypesInv'
  <2>1. WiresType' /\ FlagsType'
    BY <1>9 DEF C!FrameOfNothing, C!wireVars, C!flagVars, TypesInv, WiresType, FlagsType
  <2>2. \E next \in C!ReaderSteps : \E answer : C!OnTo(c, next, answer)
    <3>1. C!After[step] \in C!ReaderSteps
      BY Parts
    <3> QED  BY <1>9, <3>1 DEF C!FrameOfNothing
  <2>3. ReadersType'
    BY <1>9, <2>2, OnToTypes DEF C!FrameOfNothing, TypesInv, ReadersType, IsSeq
  <2> QED  BY <1>9, <2>1, <2>3, ReaderKept DEF C!FrameOfNothing, C!keyboardVars
<1>10. ASSUME NEW step \in DOMAIN C!Size, C!ReadFails(c, step)
       PROVE  TypesInv'
  <2>1. ProgramsType'
    BY <1>10 DEF C!ReadFails, C!keyboardVars, TypesInv, ProgramsType
  <2> QED
    BY <1>10, <2>1 DEF C!ReadFails, C!wireVars, C!flagVars, C!keyboardVars, C!readerVars, serverVars,
                       TypesInv, WiresType, FlagsType, TypedType, ReadersType, ServerType, IsReader, IsSeq, S!Receiver
<1> QED  BY <1>1, <1>2, <1>3, <1>4, <1>5, <1>6, <1>7, <1>8, <1>9, <1>10 DEF C!ReaderStep

\* messages of the server, whoever they are for
Outgoing == [to : Conn \cup {S!NoConn}, answer : Answered]

\* a step of the thread of c, which goes on as t
LEMMA GoOn ==
  ASSUME TypesInv, NEW c \in Conn, NEW t \in Thread(Answered), thread' = [thread EXCEPT ![c] = t],
         t.step = "flush" => Head(t.sends).to \in Conn
  PROVE  /\ thread' \in [Conn -> Thread(Answered)]
         /\ \A d \in Conn : thread'[d].step = "flush" => S!Receiver(d)' \in Conn
<1>1. thread' \in [Conn -> Thread(Answered)]
  BY DEF TypesInv, ServerType
<1>2. \A d \in Conn : thread'[d] = IF d = c THEN t ELSE thread[d]
  BY DEF TypesInv, ServerType
<1> QED  BY <1>1, <1>2 DEF TypesInv, ServerType, S!Receiver

\* ... which only goes on to another step
LEMMA StepOn ==
  ASSUME TypesInv, NEW c \in Conn, NEW step \in Steps, thread' = [thread EXCEPT ![c].step = step],
         step = "flush" => S!Receiver(c) \in Conn
  PROVE  /\ thread' \in [Conn -> Thread(Answered)]
         /\ \A d \in Conn : thread'[d].step = "flush" => S!Receiver(d)' \in Conn
<1> DEFINE t == [thread[c] EXCEPT !.step = step]
<1>1. thread[c] \in Thread(Answered)
  BY DEF TypesInv, ServerType
<1>2. t \in Thread(Answered) /\ t.step = step /\ t.sends = thread[c].sends
  BY <1>1 DEF Thread
<1>3. thread' = [thread EXCEPT ![c] = t]
  OBVIOUS
<1> HIDE DEF t
<1> QED  BY <1>2, <1>3, GoOn DEF S!Receiver

\* ... or has sent a message
LEMMA SentOn ==
  ASSUME TypesInv, StreamsInv, NEW c \in Conn, thread[c].step \in {"send", "flush"},
         thread' = [thread EXCEPT ![c] = S!NextSend(c)]
  PROVE  /\ thread' \in [Conn -> Thread(Answered)]
         /\ \A d \in Conn : thread'[d].step = "flush" => S!Receiver(d)' \in Conn
<1> DEFINE s == thread[c].sends
           t == S!HasToSend(Tail(s))
<1>1. s \in Seq(Outgoing) /\ s # <<>>
  BY DEF TypesInv, ServerType, StreamsInv, ThreadsInv, Thread, Outgoing
<1>2. Tail(s) \in Seq(Outgoing)
  BY <1>1, HeadTailProperties
<1>3. t \in Thread(Answered) /\ t.step # "flush"
  BY <1>2, HasToSendFields DEF Outgoing
<1>4. thread' = [thread EXCEPT ![c] = t]
  BY DEF S!NextSend
<1> HIDE DEF t
<1> QED  BY <1>3, <1>4, GoOn

\* what is about to be sent
LEMMA NowSent ==
  ASSUME TypesInv, StreamsInv, NEW c \in Conn, thread[c].step \in {"send", "flush"}
  PROVE  /\ S!Answer(c) \in Answered
         /\ S!Receiver(c) \in Conn \cup {S!NoConn}
         /\ Encode(S!Answer(c)) \in Seq(Byte) /\ S!Encode(S!Answer(c)) = Encode(S!Answer(c))
         /\ S!IsTable(S!Answer(c)) = IsTable(S!Answer(c))
<1>1. thread[c].sends \in Seq(Outgoing) /\ thread[c].sends # <<>>
  BY DEF TypesInv, ServerType, StreamsInv, ThreadsInv, Thread, Outgoing
<1>2. Head(thread[c].sends) \in Outgoing
  BY <1>1, HeadTailProperties
<1>3. S!Answer(c) \in Answered /\ S!Receiver(c) \in Conn \cup {S!NoConn}
  BY <1>2 DEF Outgoing, S!Answer, S!Receiver
<1> QED  BY <1>3, AnswerBytes, SameEncode

\* a request that has arrived whole, and what is behind it
LEMMA ArrivedIs ==
  ASSUME WiresType, NEW c \in Conn, NEW m \in S!Arrived(c)
  PROVE  /\ HasMessage(toServer[c]) /\ m = SubSeq(toServer[c], 1, MessageLength(toServer[c]))
         /\ m \in Seq(Byte)
         /\ SubSeq(toServer[c], Len(m) + 2, Len(toServer[c])) \in Seq(Byte)
<1> DEFINE s == toServer[c]
           n == MessageLength(s)
           I == {i \in 1 .. Len(s) : s[i] = Semicolon}
<1>1. HasMessage(s) /\ m = SubSeq(s, 1, n)
  BY SameMessage DEF S!Arrived
<1>2. s \in Seq(Byte) /\ Len(s) \in Nat
  BY LenProperties DEF WiresType
<1>3. n \in 0 .. Len(s) - 1
  <2>1. I # {}
    BY <1>1 DEF HasMessage, Contains
  <2>2. n = Min(I) - 1
    BY <2>1 DEF MessageLength, SelectInSeq
  <2>3. I \subseteq 1 .. Len(s)
    OBVIOUS
  <2> HIDE DEF I, s, n
  <2>4. Min(I) \in 1 .. Len(s)
    BY <1>2, <2>1, <2>3, Ends
  <2> QED  BY <1>2, <2>2, <2>4
<1> HIDE DEF s, n
<1>4. SubSeq(s, 1, n) \in Seq(Byte)
  <2>1. \A i \in 1 .. n : s[i] \in Byte
    BY <1>2, <1>3, ElementOfSeq
  <2> QED  BY <1>3, <2>1, SubSeqProperties
<1>5. Len(m) + 1 \in Nat /\ Len(m) + 2 = (Len(m) + 1) + 1
  BY <1>1, <1>4, LenProperties
<1>6. SubSeq(s, Len(m) + 2, Len(s)) \in Seq(Byte)
  <2> DEFINE k == Len(m) + 1
  <2>1. k \in Nat /\ Len(m) + 2 = k + 1
    BY <1>5
  <2> HIDE DEF k
  <2>2. SubSeq(s, k + 1, Len(s)) \in Seq(Byte)
    BY <1>2, <2>1, LeftOver
  <2> QED  BY <2>1, <2>2
<1> QED  BY <1>1, <1>4, <1>6 DEF s, n

\* a request is processed
LEMMA ProcessTypes ==
  ASSUME TypesInv, StreamsInv, NEW c \in Conn, S!Process(c), UNCHANGED clientVars
  PROVE  TypesInv'
<1>1. PICK m \in S!Arrived(c) :
        /\ ~S!Malformed(m)
        /\ \E request \in {S!ReadRequest(m)} :
             /\ \E sends \in S!Sends(c, request) : thread' = [thread EXCEPT ![c] = S!HasToSend(sends)]
             /\ received' = [received EXCEPT ![c] = Append(@, request)]
        /\ toServer' = [toServer EXCEPT ![c] = SubSeq(@, Len(m) + 2, Len(@))]
  BY DEF S!Process
<1> DEFINE request == S!ReadRequest(m)
<1>2. PICK sends \in S!Sends(c, request) : thread' = [thread EXCEPT ![c] = S!HasToSend(sends)]
  BY <1>1
<1>3. received' = [received EXCEPT ![c] = Append(received[c], request)]
  BY <1>1
<1>4. m \in Seq(Byte) /\ SubSeq(toServer[c], Len(m) + 2, Len(toServer[c])) \in Seq(Byte)
  BY ArrivedIs DEF TypesInv
<1>5. WiresType'
  BY <1>1, <1>4 DEF S!Process, TypesInv, WiresType
<1>6. sends \in Seq(Outgoing)
  <2>1. /\ request.op \in Ops \cup {0}
        /\ request.op = 4 => request.fields[1] \in Seq(Byte) /\ request.fields[2] \in Seq(Byte)
        /\ request.op \in {5, 6} => request.fields[1] \in Seq(Byte)
    <3>1. ~Malformed(m) /\ request = ReadRequest(m)
      BY <1>1, SameMalformed, SameRead
    <3> QED  BY <1>4, <3>1, ReadFields
  <2>2. connIds \subseteq Conn /\ <<>> \in Seq(Byte)
    BY EmptySeq DEF StreamsInv, LoggedInv
  <2> HIDE DEF request
  <2>3. sends \in Seq(Mail(c, Seq(Byte), Seq(Byte)))
    BY <1>2, <2>1, <2>2, SendsFrom
  <2>4. Mail(c, Seq(Byte), Seq(Byte)) \subseteq Outgoing
    BY DEF Mail, Outgoing, Answered
  <2> QED  BY <2>3, <2>4, SeqMonotonic
<1>7. /\ thread' \in [Conn -> Thread(Answered)]
      /\ \A d \in Conn : thread'[d].step = "flush" => S!Receiver(d)' \in Conn
  <2> DEFINE t == S!HasToSend(sends)
  <2>1. t \in Thread(Answered) /\ t.step # "flush"
    BY <1>6, HasToSendFields DEF Outgoing
  <2> HIDE DEF t
  <2>2. thread' = [thread EXCEPT ![c] = t]
    BY <1>2 DEF t
  <2> QED  BY <2>1, <2>2, GoOn
<1>8. DOMAIN received' = Conn /\ \A d \in Conn : IsSeq(received'[d])
  <2> HIDE DEF request
  <2>1. PICK T : received[c] \in Seq(T)
    BY DEF TypesInv, ServerType, IsSeq
  <2> DEFINE U == T \cup {request}
  <2>2. received[c] \in Seq(U) /\ request \in U
    BY <2>1, SeqMonotonic
  <2> HIDE DEF U
  <2>3. Append(received[c], request) \in Seq(U)
    BY <2>2
  <2>4. IsSeq(Append(received[c], request))
    BY <2>3 DEF IsSeq
  <2> QED  BY <1>3, <2>4 DEF TypesInv, ServerType
<1>9. ServerType'
  BY <1>7, <1>8 DEF S!Process, S!serveVars, TypesInv, ServerType
<1> QED
  BY <1>5, <1>9 DEF clientVars, TypesInv, FlagsType, ProgramsType, TypedType, ReadersType, IsReader,
                    IsSeq

\* accept and the threads
LEMMA ServerTypes ==
  ASSUME TypesInv, StreamsInv, ServerStep
  PROVE  TypesInv'
<1>0. UNCHANGED clientVars
  BY DEF ServerStep
<1>1. ASSUME WiresType', ServerType'
      PROVE  TypesInv'
  BY <1>0, <1>1 DEF clientVars, TypesInv, FlagsType, ProgramsType, TypedType, ReadersType, IsReader, IsSeq
<1>2. ASSUME thread' \in [Conn -> Thread(Answered)],
             \A d \in Conn : thread'[d].step = "flush" => S!Receiver(d)' \in Conn,
             UNCHANGED <<serving, out, sent, received>>
      PROVE  ServerType'
  BY <1>2 DEF TypesInv, ServerType, IsSeq
<1>3. CASE S!AcceptFails
  <2>1. ServerType'
    BY <1>3 DEF S!AcceptFails, S!historyVars, TypesInv, ServerType, IsSeq, S!Receiver
  <2> QED  BY <1>1, <1>3, <2>1 DEF S!AcceptFails, S!wireVars, TypesInv, WiresType
<1>4. ASSUME NEW c \in Conn, S!Accept(c)
      PROVE  TypesInv'
  <2>1. ServerType'
    BY <1>2, <1>4, StepOn DEF S!Accept, S!historyVars, Steps
  <2> QED  BY <1>1, <1>4, <2>1 DEF S!Accept, S!wireVars, TypesInv, WiresType
<1>5. ASSUME NEW c \in Conn, S!ThreadStep(c)
      PROVE  TypesInv'
  <2>1. CASE S!OpenStreams(c)
    <3>1. ServerType'
      BY <1>2, <2>1, StepOn DEF S!OpenStreams, S!serveVars, S!historyVars, Steps
    <3> QED  BY <1>1, <2>1, <3>1 DEF S!OpenStreams, S!wireVars, TypesInv, WiresType
  <2>2. CASE S!Process(c)
    BY <1>0, <2>2, ProcessTypes
  <2>3. CASE S!ProcessThrows(c) \/ S!LogstatThrows(c) \/ S!ReadEnds(c)
    <3>1. ServerType'
      BY <1>2, <2>3, StepOn DEF S!ProcessThrows, S!LogstatThrows, S!ReadEnds, S!serveVars,
                                S!historyVars, Steps
    <3>2. WiresType'
      BY <2>3, ClosedByServer DEF S!ProcessThrows, S!LogstatThrows, S!ReadEnds, TypesInv
    <3> QED  BY <1>1, <3>1, <3>2
  <2>4. CASE S!SendNowhere(c)
    <3>1. ServerType'
      BY <1>2, <2>4, SentOn DEF S!SendNowhere, S!Sending, S!At, S!serveVars, S!historyVars
    <3> QED  BY <1>1, <2>4, <3>1 DEF S!SendNowhere, S!wireVars, TypesInv, WiresType
  <2>5. CASE S!SendWrite(c)
    <3>1. thread[c].step = "send" /\ S!Receiver(c) \in Conn
      BY <2>5 DEF S!SendWrite, S!Sending, S!At, S!Known
    <3>2. /\ thread' \in [Conn -> Thread(Answered)]
          /\ \A d \in Conn : thread'[d].step = "flush" => S!Receiver(d)' \in Conn
      BY <2>5, <3>1, StepOn DEF S!SendWrite, Steps
    <3>3. out' \in [Conn -> Seq(Byte)]
      <4>1. S!Encode(S!Answer(c)) \in Seq(Byte) /\ out[S!Receiver(c)] \in Seq(Byte)
        BY <3>1, NowSent DEF TypesInv, ServerType
      <4>2. out[S!Receiver(c)] \o S!Encode(S!Answer(c)) \in Seq(Byte)
        BY <4>1, JoinType, Zenon
      <4>3. out' = [out EXCEPT ![S!Receiver(c)] = out[S!Receiver(c)] \o S!Encode(S!Answer(c))]
        BY <2>5 DEF S!SendWrite
      <4> QED  BY <4>2, <4>3 DEF TypesInv, ServerType
    <3>4. sent' \in [Conn -> Seq(Answered)]
      <4>1. Append(sent[S!Receiver(c)], S!Answer(c)) \in Seq(Answered)
        BY <3>1, NowSent DEF TypesInv, ServerType
      <4>2. sent' = [sent EXCEPT ![S!Receiver(c)] = Append(sent[S!Receiver(c)], S!Answer(c))]
        BY <2>5 DEF S!SendWrite, S!Noted
      <4> QED  BY <4>1, <4>2 DEF TypesInv, ServerType
    <3>5. ServerType'
      BY <2>5, <3>2, <3>3, <3>4 DEF S!SendWrite, S!serveVars, TypesInv, ServerType, IsSeq
    <3> QED  BY <1>1, <2>5, <3>5 DEF S!SendWrite, S!wireVars, TypesInv, WiresType
  <2>6. CASE S!SendLarge(c)
    <3>1. thread[c].step = "send"
      BY <2>6 DEF S!SendLarge, S!Sending, S!At
    <3>2. /\ thread' \in [Conn -> Thread(Answered)]
          /\ \A d \in Conn : thread'[d].step = "flush" => S!Receiver(d)' \in Conn
      BY <2>6, <3>1, SentOn DEF S!SendLarge
    <3>3. WiresType'
      <4>1. S!Encode(S!Answer(c)) \in Seq(Byte) /\ out[c] \in Seq(Byte) /\ toClient[c] \in Seq(Byte)
        BY <3>1, NowSent DEF TypesInv, ServerType, WiresType
      <4>2. toClient[c] \o out[c] \in Seq(Byte)
        BY <4>1, JoinType, Zenon
      <4>3. toClient[c] \o out[c] \o S!Encode(S!Answer(c)) \in Seq(Byte)
        BY <4>1, <4>2, JoinType, Zenon
      <4> QED  BY <2>6, <4>3 DEF S!SendLarge, TypesInv, WiresType
    <3>4. sent' \in [Conn -> Seq(Answered)]
      <4>1. S!Receiver(c) \in Conn => Append(sent[S!Receiver(c)], S!Answer(c)) \in Seq(Answered)
        BY <3>1, NowSent DEF TypesInv, ServerType
      <4>2. sent' = [sent EXCEPT ![S!Receiver(c)] = Append(sent[S!Receiver(c)], S!Answer(c))]
        BY <2>6 DEF S!SendLarge, S!Noted
      <4> QED  BY <4>1, <4>2 DEF TypesInv, ServerType
    <3>5. out' \in [Conn -> Seq(Byte)]
      BY <2>6, EmptySeq DEF S!SendLarge, TypesInv, ServerType
    <3>6. ServerType'
      BY <2>6, <3>2, <3>4, <3>5 DEF S!SendLarge, S!serveVars, TypesInv, ServerType, IsSeq
    <3> QED  BY <1>1, <3>3, <3>6
  <2>7. CASE S!SendFlush(c) \/ S!SendFails(c)
    <3>1. thread[c].step \in {"send", "flush"}
      BY <2>7 DEF S!SendFlush, S!SendFails, S!Sending, S!At
    <3>2. /\ thread' \in [Conn -> Thread(Answered)]
          /\ \A d \in Conn : thread'[d].step = "flush" => S!Receiver(d)' \in Conn
      BY <2>7, <3>1, SentOn DEF S!SendFlush, S!SendFails
    <3>3. out' \in [Conn -> Seq(Byte)]
      <4>1. out' = [out EXCEPT ![S!Receiver(c)] = <<>>]
        BY <2>7 DEF S!SendFlush, S!SendFails
      <4>2. out \in [Conn -> Seq(Byte)] /\ <<>> \in Seq(Byte)
        BY EmptySeq DEF TypesInv, ServerType
      <4> QED  BY <4>1, <4>2
    <3>4. WiresType'
      <4>1. CASE S!SendFlush(c)
        <5>1. S!Receiver(c) \in Conn
          BY <4>1 DEF S!SendFlush, S!At, TypesInv, ServerType
        <5>2. out[S!Receiver(c)] \in Seq(Byte) /\ toClient[S!Receiver(c)] \in Seq(Byte)
          BY <5>1 DEF TypesInv, ServerType, WiresType
        <5>3. toClient[S!Receiver(c)] \o out[S!Receiver(c)] \in Seq(Byte)
          BY <5>2, JoinType, Zenon
        <5> QED  BY <4>1, <5>3 DEF S!SendFlush, TypesInv, WiresType
      <4>2. CASE S!SendFails(c)
        BY <4>2 DEF S!SendFails, S!wireVars, TypesInv, WiresType
      <4> QED  BY <2>7, <4>1, <4>2
    <3>5. ServerType'
      BY <2>7, <3>2, <3>3 DEF S!SendFlush, S!SendFails, S!serveVars, S!historyVars, TypesInv, ServerType,
                              IsSeq
    <3> QED  BY <1>1, <3>4, <3>5
  <2> QED  BY <1>5, <2>1, <2>2, <2>3, <2>4, <2>5, <2>6, <2>7 DEF S!ThreadStep
<1> QED  BY <1>3, <1>4, <1>5 DEF ServerStep, S!ServerStep, S!ServeStep

\* the types are inductive, while streams are open
LEMMA TypesKept == TypesInv /\ StreamsInv /\ [Next]_vars => TypesInv'
<1> SUFFICES ASSUME TypesInv, StreamsInv, [Next]_vars
             PROVE  TypesInv'
  OBVIOUS
<1>1. CASE ServerStep
  BY <1>1, ServerTypes
<1>2. ASSUME NEW c \in Conn, ClientStep(c)
      PROVE  TypesInv'
  BY <1>2, KeyboardTypes, ReaderTypes DEF ClientStep, C!ClientStep
<1>3. ASSUME NEW c \in Conn, Lose(c)
      PROVE  TypesInv'
  <2>1. PICK s \in C!Prefixes(toClient[c]), r \in C!Prefixes(toServer[c]) :
          toClient' = [toClient EXCEPT ![c] = s] /\ toServer' = [toServer EXCEPT ![c] = r]
    BY <1>3 DEF Lose, C!Lose, C!ArrivesAtClient, C!ArrivesAtServer
  <2>2. s \in Seq(Byte) /\ r \in Seq(Byte)
    BY Arriving DEF TypesInv, WiresType
  <2>3. WiresType'
    BY <1>3, <2>1, <2>2 DEF Lose, C!Lose, TypesInv, WiresType
  <2> QED
    BY <1>3, <2>3 DEF Lose, C!Lose, C!clientVars, C!flagVars, C!keyboardVars, C!readerVars, serverVars,
                      TypesInv, FlagsType, ProgramsType, TypedType, ReadersType, ServerType, IsReader,
                      IsSeq, S!Receiver
<1>4. CASE UNCHANGED vars
  BY <1>4 DEF vars, wireVars, clientVars, serverVars, TypesInv, WiresType, FlagsType, ProgramsType,
              TypedType, ReadersType, ServerType, IsReader, IsSeq, S!Receiver
<1> QED  BY <1>1, <1>2, <1>3, <1>4 DEF Next

\* at the start nothing has been written
LEMMA TypesStart == Init => TypesInv
<1> SUFFICES ASSUME Init
             PROVE  TypesInv
  OBVIOUS
<1>1. \A T : <<>> \in Seq(T)
  BY EmptySeq
<1>2. WiresType /\ FlagsType /\ ProgramsType /\ TypedType
  BY <1>1 DEF Init, C!Init, WiresType, FlagsType, ProgramsType, TypedType
<1>3. ReadersType
  <2> DEFINE r == [step |-> "none", answer |-> C!NoAnswer]
  <2>1. r \in [step : C!ReaderSteps, answer : {C!NoAnswer}]
    BY DEF C!ReaderSteps
  <2>2. IsReader(r)
    BY <2>1 DEF IsReader
  <2>3. reader = [c \in Conn |-> r] /\ printed = [c \in Conn |-> <<>>]
    BY DEF Init, C!Init
  <2> HIDE DEF r
  <2> QED  BY <1>1, <2>2, <2>3 DEF ReadersType, IsSeq
<1>4. ServerType
  <2> DEFINE t == [step |-> "none", sends |-> <<>>]
  <2>1. t \in Thread(Answered) /\ t.step = "none"
    BY <1>1 DEF Thread, Steps
  <2>2. thread = [c \in Conn |-> t] /\ out = [c \in Conn |-> <<>>]
    BY DEF Init, S!Init
  <2> HIDE DEF t
  <2> QED  BY <1>1, <2>1, <2>2 DEF Init, S!Init, ServerType, IsSeq
<1> QED  BY <1>2, <1>3, <1>4 DEF TypesInv

\* what the runs check of it
LEMMA Typed == TypesInv /\ StreamsInv => TypeOK
<1> SUFFICES ASSUME TypesInv, StreamsInv
             PROVE  TypeOK
  OBVIOUS
<1>1. C!TypeOK
  <2>1. \A c \in Conn : reader[c].step \in C!ReaderSteps
    BY DEF TypesInv, ReadersType, IsReader
  <2>2. typed \in [Conn -> Seq(C!Line)]
    <3>1. Typable \subseteq C!Line
      BY DEF Typable
    <3>2. \A c \in Conn : typed[c] \in Seq(C!Line)
      BY <3>1, SeqMonotonic DEF TypesInv, TypedType
    <3> QED  BY <3>2 DEF TypesInv, TypedType
  <2> QED  BY <2>1, <2>2 DEF C!TypeOK, TypesInv, WiresType, FlagsType, ProgramsType, Byte
<1>2. S!TypeOK
  <2>1. ASSUME NEW c \in Conn, NEW send \in S!ToSet(thread[c].sends)
        PROVE  send.to \in Conn \cup {S!NoConn}
    <3>1. thread[c].sends \in Seq(Outgoing)
      BY DEF TypesInv, ServerType, Thread, Outgoing
    <3>2. PICK i \in DOMAIN thread[c].sends : send = thread[c].sends[i]
      BY DEF S!ToSet
    <3>3. send \in Outgoing
      BY <3>1, <3>2
    <3> QED  BY <3>3 DEF Outgoing
  <2>2. \A c \in Conn : thread[c].step \in Steps
    BY DEF TypesInv, ServerType, Thread
  <2> QED
    BY <2>1, <2>2 DEF S!TypeOK, TypesInv, ServerType, Steps, Byte, StreamsInv, IdsInv, LoggedInv
<1> QED  BY <1>1, <1>2 DEF TypeOK

(***************************************************************************)
(* The types hold in every behaviour: whatever is typed, sent, lost or     *)
(* answered, the streams hold bytes, and the threads are where they can be.*)
(***************************************************************************)
THEOREM TypeCorrect == Spec => []TypesInv
BY Invariance, TypesStart, TypesKept, PTL DEF Spec

(***************************************************************************)
(* The type invariant of the runs, for any number of clients and lines.    *)
(***************************************************************************)
THEOREM Types == Spec => []TypeOK
BY Invariance, TypeCorrect, Typed, PTL

-----------------------------------------------------------------------------
(* Requests *)

\* who is not connected types nothing
WiredInv == \A c \in Conn : link[c] = "none" => keyboard[c] = "none"

\* the bytes of the lines typed
TypedBytes(c) == [i \in DOMAIN typed[c] |-> Encoder(typed[c][i])]

\* no delimiter in the first n lines
Clean(c, n) == \A j \in DOMAIN typed[c] : j <= n => NoDelimiter(typed[c][j])

\* what is on its way to the server, and what was lost of it with the connection
ToServer(c, lost) ==
  /\ lost \in Seq(Byte)
  /\ link[c] # "down" => lost = <<>>
  /\ Joined(toServer[c] \o lost, TypedBytes(c), Len(received[c]), Len(typed[c]))

\* the requests that have not been read are those of the lines that follow
PendingInv(c) ==
  Clean(c, Len(received[c])) =>
    /\ Len(received[c]) <= Len(typed[c])
    /\ \E lost : ToServer(c, lost)

\* the i-th request is what the i-th line says
Faithful(c, i) ==
  /\ i \in DOMAIN typed[c]
  /\ received[c][i].op = Op[typed[c][i].word]
  /\ WellFormed(typed[c][i]) => received[c][i] = Meant(typed[c][i])

FaithfulInv(c) == \A i \in DOMAIN received[c] : Clean(c, i) => Faithful(c, i)

RequestsInv == \A c \in Conn : PendingInv(c) /\ FaithfulInv(c)

\* the steps that have to do with the requests of c: it may be that its connection ends ...
NoRequest(c) ==
  /\ typed'[c] = typed[c] /\ received'[c] = received[c]
  /\ link'[c] # "down" => link[c] # "down"
  /\ \/ toServer'[c] = toServer[c]
     \/ link'[c] = "down" /\ toServer'[c] \in Prefixes(toServer[c])

\* ... a line is sent
LineSent(c) ==
  \E line \in Typable :
    /\ typed' = [typed EXCEPT ![c] = Append(typed[c], line)]
    /\ received'[c] = received[c]
    /\ link'[c] = link[c] /\ link[c] # "none"
    /\ toServer'[c] = IF link[c] = "up" THEN toServer[c] \o Encoder(line) ELSE toServer[c]

\* ... or a request is read
RequestRead(c) ==
  \E m \in S!Arrived(c) :
    /\ typed'[c] = typed[c] /\ link'[c] = link[c]
    /\ received' = [received EXCEPT ![c] = Append(received[c], S!ReadRequest(m))]
    /\ toServer'[c] = SubSeq(toServer[c], Len(m) + 2, Len(toServer[c]))

\* nothing is the least of what may arrive
LEMMA NothingArrives == \A s \in Seq(Byte) : <<>> \in Prefixes(s) /\ s \in Prefixes(s)
<1> SUFFICES ASSUME NEW s \in Seq(Byte)
             PROVE  <<>> \in Prefixes(s) /\ s \in Prefixes(s)
  OBVIOUS
<1>1. Len(s) \in Nat /\ 0 \in 0 .. Len(s) /\ Len(s) \in 0 .. Len(s)
  BY LenProperties
<1>2. SubSeq(s, 1, 0) = <<>> /\ SubSeq(s, 1, Len(s)) = s
  BY SubSeqEmpty, SubSeqFull
<1> QED  BY <1>1, <1>2 DEF Prefixes

\* the link of a client that types is there
LEMMA TypingIsUp ==
  ASSUME TypesInv, WiredInv, NEW c \in Conn, C!UserStep(c) \/ C!GetNothing(c)
  PROVE  link[c] \in {"up", "down"}
<1>1. keyboard[c] = "getline"
  BY DEF C!UserStep, C!GetNothing, C!Type, C!InputEnds, C!TypeTooLong, C!KeyboardAt
<1> QED  BY <1>1 DEF WiredInv, TypesInv, WiresType

\* sendLine sends a line, or one that is no request
LEMMA SendLineIs ==
  ASSUME TypesInv, NEW c \in Conn, NEW line \in C!Line, C!SendLine(c, line), link[c] \in {"up", "down"},
         UNCHANGED serverVars, NEW d \in Conn
  PROVE  NoRequest(d) \/ LineSent(d)
<1>0. C!Encoder(line) = Encoder(line) /\ (Encoder(line) # <<>> <=> line.word \in DOMAIN Op)
  BY Sendable
<1>1. /\ received' = received /\ link' = link
      /\ \/ toServer' = IF link[c] = "up" THEN [toServer EXCEPT ![c] = toServer[c] \o Encoder(line)]
                        ELSE toServer
         \/ link[c] = "down" /\ toServer' = toServer
  BY <1>0 DEF C!SendLine, serverVars
<1>2. CASE Encoder(line) = <<>>
  <2>1. typed' = typed
    BY <1>0, <1>2 DEF C!SendLine
  <2>2. toServer[c] \o <<>> = toServer[c]
    BY ConcatEmptySeq DEF TypesInv, WiresType
  <2>3. toServer'[d] = toServer[d]
    BY <1>1, <1>2, <2>2 DEF TypesInv, WiresType
  <2> QED  BY <1>1, <2>1, <2>3 DEF NoRequest
<1>3. CASE Encoder(line) # <<>>
  <2>1. typed' = [typed EXCEPT ![c] = Append(typed[c], line)] /\ line \in Typable
    BY <1>0, <1>3 DEF C!SendLine, Typable
  <2>2. CASE d = c
    <3>1. toServer'[c] = IF link[c] = "up" THEN toServer[c] \o Encoder(line) ELSE toServer[c]
      BY <1>1 DEF TypesInv, WiresType
    <3> QED  BY <1>1, <2>1, <2>2, <3>1 DEF LineSent
  <2>3. CASE d # c
    BY <1>1, <2>1, <2>3 DEF NoRequest, TypesInv, TypedType, WiresType
  <2> QED  BY <2>2, <2>3
<1> QED  BY <1>2, <1>3

\* every step is one of those
LEMMA Requesting ==
  ASSUME TypesInv, WiredInv, [Next]_vars, NEW d \in Conn
  PROVE  NoRequest(d) \/ LineSent(d) \/ RequestRead(d)
<1>0. /\ \A s \in Seq(Byte) : /\ <<>> \in Prefixes(s)
                              /\ C!Prefixes(s) = Prefixes(s) /\ S!Prefixes(s) = Prefixes(s)
      /\ toServer[d] \in Seq(Byte)
  BY NothingArrives, SamePrefixes DEF TypesInv, WiresType
<1>1. ASSUME NEW c \in Conn, C!Closed(c), UNCHANGED typed, UNCHANGED received
      PROVE  NoRequest(d)
  BY <1>0, <1>1 DEF C!Closed, C!ArrivesAtServer, NoRequest, TypesInv, WiresType
<1>2. ASSUME NEW c \in Conn, S!Closed(c), UNCHANGED typed, UNCHANGED received
      PROVE  NoRequest(d)
  BY <1>0, <1>2 DEF S!Closed, NoRequest, TypesInv, WiresType
<1>3. ASSUME UNCHANGED <<toServer, typed, received, link>>
      PROVE  NoRequest(d)
  BY <1>3 DEF NoRequest
<1>4. ASSUME NEW c \in Conn, C!MainStep(c), UNCHANGED serverVars
      PROVE  NoRequest(d)
  <2>1. CASE C!Start(c)
    BY <1>4, <2>1 DEF C!Start, serverVars, NoRequest, TypesInv, WiresType
  <2>2. CASE C!StartFails(c)
    BY <1>3, <1>4, <2>2 DEF C!StartFails, C!wireVars, C!keyboardVars, serverVars
  <2>3. CASE C!Exit(c)
    BY <1>1, <1>4, <2>3 DEF C!Exit, C!keyboardVars, serverVars
  <2> QED  BY <1>4, <2>1, <2>2, <2>3 DEF C!MainStep
<1>5. ASSUME NEW c \in Conn, C!UserStep(c) \/ C!KeyboardStep(c), UNCHANGED serverVars
      PROVE  NoRequest(d) \/ LineSent(d)
  <2>1. CASE C!UserStep(c) \/ C!GetNothing(c)
    <3>1. PICK line \in C!Line : C!SendLine(c, line)
      <4>1. CASE C!Type(c) \/ C!TypeTooLong(c)
        BY <4>1, MayBeTyped DEF C!Type, C!TypeTooLong
      <4>2. CASE C!InputEnds(c) \/ C!GetNothing(c)
        BY <4>2 DEF C!InputEnds, C!GetNothing, C!Line
      <4> QED  BY <2>1, <4>1, <4>2 DEF C!UserStep
    <3>2. link[c] \in {"up", "down"}
      BY <2>1, TypingIsUp
    <3> QED  BY <1>5, <3>1, <3>2, SendLineIs
  <2>2. CASE C!KeyboardTest(c) \/ C!WaitEnds(c) \/ C!ResetLogout(c)
    BY <1>3, <1>5, <2>2 DEF C!KeyboardTest, C!WaitEnds, C!ResetLogout, C!wireVars, serverVars
  <2> QED  BY <1>5, <2>1, <2>2 DEF C!KeyboardStep
<1>6. ASSUME NEW c \in Conn, C!ReaderStep(c), UNCHANGED serverVars
      PROVE  NoRequest(d)
  <2>1. UNCHANGED <<typed, received>>
    BY <1>6 DEF serverVars, C!ReaderStep, C!DecodeOpcode, C!DecodeNothing, C!DecodeAck, C!DecodeError,
                C!PrintAnswer, C!DecodeBytes, C!DecodeFrame, C!FrameRepeats, C!FrameOfNothing,
                C!ReadFails, C!keyboardVars
  <2>2. C!Closed(c) \/ UNCHANGED <<link, toServer>>
    BY <1>6 DEF C!ReaderStep, C!DecodeOpcode, C!DecodeNothing, C!DecodeAck, C!DecodeError,
                C!PrintAnswer, C!DecodeBytes, C!DecodeFrame, C!FrameRepeats, C!FrameOfNothing,
                C!ReadFails, C!wireVars
  <2> QED  BY <1>1, <1>3, <2>1, <2>2
<1>7. ASSUME NEW c \in Conn, Lose(c)
      PROVE  NoRequest(d)
  BY <1>0, <1>7 DEF Lose, C!Lose, C!ArrivesAtServer, C!clientVars, C!keyboardVars, serverVars, NoRequest,
                    TypesInv, WiresType
<1>8. ASSUME NEW c \in Conn, S!Process(c), UNCHANGED clientVars
      PROVE  NoRequest(d) \/ RequestRead(d)
  <2>1. PICK m \in S!Arrived(c) :
          /\ received' = [received EXCEPT ![c] = Append(received[c], S!ReadRequest(m))]
          /\ toServer' = [toServer EXCEPT ![c] = SubSeq(toServer[c], Len(m) + 2, Len(toServer[c]))]
    BY <1>8 DEF S!Process
  <2>2. typed' = typed /\ link' = link
    BY <1>8 DEF S!Process, clientVars
  <2>3. CASE d = c
    BY <2>1, <2>2, <2>3 DEF RequestRead, TypesInv, WiresType
  <2>4. CASE d # c
    BY <2>1, <2>2, <2>4 DEF NoRequest, TypesInv, WiresType, ServerType
  <2> QED  BY <2>3, <2>4
<1>9. ASSUME ServerStep, \A c \in Conn : ~S!Process(c)
      PROVE  NoRequest(d)
  <2>1. typed' = typed
    BY <1>9 DEF ServerStep, clientVars
  <2>2. received' = received /\ (UNCHANGED <<link, toServer>> \/ \E c \in Conn : S!Closed(c))
    BY <1>9 DEF ServerStep, S!ServerStep, S!ServeStep, S!ThreadStep, S!AcceptFails, S!Accept, S!OpenStreams,
                S!ProcessThrows, S!LogstatThrows, S!ReadEnds, S!SendNowhere, S!SendWrite,
                S!SendLarge, S!SendFlush, S!SendFails, S!wireVars, S!historyVars
  <2> QED  BY <1>2, <1>3, <2>1, <2>2
<1>10. CASE UNCHANGED vars
  BY <1>3, <1>10 DEF vars, wireVars, clientVars, serverVars
<1>11. CASE ServerStep
  BY <1>8, <1>9, <1>11 DEF ServerStep
<1>12. ASSUME NEW c \in Conn, ClientStep(c)
       PROVE  NoRequest(d) \/ LineSent(d)
  BY <1>4, <1>5, <1>6, <1>12 DEF ClientStep, C!ClientStep
<1> QED  BY <1>7, <1>10, <1>11, <1>12 DEF Next

\* the bytes of a line that was typed
LEMMA TypedBytesAre ==
  ASSUME TypesInv, NEW c \in Conn
  PROVE  /\ Len(typed[c]) \in Nat /\ DOMAIN typed[c] = 1 .. Len(typed[c])
         /\ \A i \in DOMAIN typed[c] :
              /\ typed[c][i] \in Typable /\ IsLine(typed[c][i]) /\ typed[c][i].word \in DOMAIN Op
              /\ TypedBytes(c)[i] = Encoder(typed[c][i]) /\ TypedBytes(c)[i] \in Seq(Byte)
<1>1. typed[c] \in Seq(Typable)
  BY DEF TypesInv, TypedType
<1>2. \A i \in DOMAIN typed[c] : typed[c][i] \in Typable
  BY <1>1
<1>3. \A line \in Typable : IsLine(line) /\ Encoder(line) \in Seq(Byte) /\ line.word \in DOMAIN Op
  BY Sendable DEF Typable
<1> QED  BY <1>1, <1>2, <1>3, LenProperties DEF TypedBytes

\* a line is typed
LEMMA TypedMore ==
  ASSUME TypesInv, NEW c \in Conn, NEW line \in Typable,
         typed' = [typed EXCEPT ![c] = Append(typed[c], line)]
  PROVE  /\ Len(typed'[c]) = Len(typed[c]) + 1
         /\ DOMAIN typed[c] \subseteq DOMAIN typed'[c]
         /\ DOMAIN typed'[c] = 1 .. Len(typed[c]) + 1
         /\ \A i \in DOMAIN typed[c] : typed'[c][i] = typed[c][i] /\ TypedBytes(c)'[i] = TypedBytes(c)[i]
         /\ typed'[c][Len(typed[c]) + 1] = line
         /\ TypedBytes(c)'[Len(typed[c]) + 1] = Encoder(line)
<1> DEFINE s == typed[c]
           t == Append(s, line)
<1>1. s \in Seq(Typable) /\ typed'[c] = t
  BY DEF TypesInv, TypedType
<1>2. /\ Len(t) = Len(s) + 1 /\ DOMAIN s = 1 .. Len(s) /\ DOMAIN t = 1 .. Len(s) + 1
      /\ Len(s) \in Nat
      /\ \A i \in DOMAIN s : t[i] = s[i]
      /\ t[Len(s) + 1] = line
  <2> HIDE DEF s
  <2> QED  BY <1>1
<1>3. \A i \in DOMAIN t : TypedBytes(c)'[i] = Encoder(t[i])
  BY <1>1 DEF TypedBytes
<1>4. \A i \in DOMAIN s : TypedBytes(c)[i] = Encoder(s[i])
  BY DEF TypedBytes
<1>5. Len(s) + 1 \in DOMAIN t /\ DOMAIN s \subseteq DOMAIN t
  BY <1>2
<1> HIDE DEF s, t
<1>6. /\ \A i \in DOMAIN s : TypedBytes(c)'[i] = TypedBytes(c)[i]
      /\ TypedBytes(c)'[Len(s) + 1] = Encoder(line)
  BY <1>2, <1>3, <1>4, <1>5
<1>7. /\ Len(t) = Len(s) + 1
      /\ DOMAIN s \subseteq DOMAIN t
      /\ DOMAIN t = 1 .. Len(s) + 1
      /\ \A i \in DOMAIN s : t[i] = s[i] /\ TypedBytes(c)'[i] = TypedBytes(c)[i]
      /\ t[Len(s) + 1] = line
      /\ TypedBytes(c)'[Len(s) + 1] = Encoder(line)
  BY <1>2, <1>5, <1>6
<1> QED  BY <1>1, <1>7 DEF s

\* a request that has arrived is the line that comes next
LEMMA NextRequest ==
  ASSUME TypesInv, NEW c \in Conn, PendingInv(c), NEW m \in S!Arrived(c), Len(received[c]) \in Nat,
         Clean(c, Len(received[c]) + 1)
  PROVE  LET n == Len(received[c])
             rest == SubSeq(toServer[c], Len(m) + 2, Len(toServer[c]))
         IN  /\ n + 1 \in DOMAIN typed[c] /\ n + 1 <= Len(typed[c])
             /\ m = Message(typed[c][n + 1])
             /\ \E lost \in Seq(Byte) :
                  /\ link[c] # "down" => lost = <<>>
                  /\ Joined(rest \o lost, TypedBytes(c), n + 1, Len(typed[c]))
<1> DEFINE n == Len(received[c])
           l == Len(typed[c])
           x == toServer[c]
           f == TypedBytes(c)
<1>1. n \in Nat /\ l \in Nat /\ DOMAIN typed[c] = 1 .. l /\ x \in Seq(Byte)
  BY TypedBytesAre DEF TypesInv, WiresType
<1>2. n <= l /\ \E lost : ToServer(c, lost)
  <2>1. Clean(c, n)
    BY <1>1 DEF Clean
  <2> QED  BY <2>1 DEF PendingInv
<1>3. PICK lost : ToServer(c, lost)
  BY <1>2
<1>4. lost \in Seq(Byte) /\ (link[c] # "down" => lost = <<>>) /\ Joined(x \o lost, f, n, l)
  BY <1>3 DEF ToServer
<1>5. HasMessage(x) /\ m = SubSeq(x, 1, MessageLength(x))
  BY ArrivedIs DEF TypesInv
<1> HIDE DEF n, l, x, f
<1>6. n < l
  <2> SUFFICES ASSUME n = l
               PROVE  FALSE
    BY <1>1, <1>2 DEF n, l
  <2>1. x \o lost = <<>>
    BY <1>1, <1>4, JoinedNone
  <2>2. x = <<>>
    BY <1>1, <1>4, <2>1, ConcatEqualIffEmpty
  <2> QED  BY <1>5, <2>2 DEF HasMessage, Contains
<1>7. n + 1 \in DOMAIN typed[c] /\ n + 1 <= l
  BY <1>1, <1>6
<1> DEFINE line == typed[c][n + 1]
           u == Message(line)
<1>8. /\ IsLine(line) /\ line.word \in DOMAIN Op /\ f[n + 1] = Encoder(line)
      /\ NoDelimiter(line)
  <2>1. NoDelimiter(line)
    BY <1>1, <1>7 DEF Clean, n
  <2> QED  BY <1>7, <2>1, TypedBytesAre DEF f
<1>9. /\ Encoder(line) = u \o <<Semicolon>> /\ u \in Seq(Byte) /\ ~Contains(u, Semicolon)
      /\ Semicolon \in Byte
  <2> HIDE DEF line
  <2>1. Encoder(line) = u \o <<Semicolon>> /\ u \in Seq(Ascii) /\ ~Contains(u, Semicolon)
    BY <1>8, MessageIs
  <2>2. Ascii \subseteq Byte /\ Semicolon \in Byte
    BY DEF Ascii, Byte, Semicolon
  <2> QED  BY <2>1, <2>2, SeqMonotonic
<1>10. PICK t \in Seq(Byte) : x \o lost = f[n + 1] \o t /\ Joined(t, f, n + 1, l)
  BY <1>1, <1>4, <1>6, JoinedFirst
<1> HIDE DEF line, u
<1>11. /\ IndexOf(x, Semicolon) = Len(u) + 1
       /\ SubSeq(x, 1, Len(u)) = u
       /\ SubSeq(x, Len(u) + 2, Len(x)) \in Seq(Byte)
       /\ SubSeq(x, Len(u) + 2, Len(x)) \o lost = t
  <2>1. Begins(x, lost, u \o <<Semicolon>>, t)
    BY <1>8, <1>9, <1>10 DEF Begins
  <2>2. Contains(x, Semicolon)
    BY <1>5 DEF HasMessage
  <2>3. x \in Seq(Byte) /\ lost \in Seq(Byte) /\ u \in Seq(Byte) /\ Semicolon \in Byte
    BY <1>1, <1>4, <1>9
  <2>4. ~Contains(u, Semicolon)
    BY <1>9
  <2> QED  BY <2>1, <2>2, <2>3, <2>4, FrameOf
<1>12. m = u
  <2>1. MessageLength(x) = IndexOf(x, Semicolon) - 1
    BY DEF MessageLength, IndexOf
  <2>2. Len(u) \in Nat
    BY <1>9, LenProperties
  <2>3. MessageLength(x) = Len(u)
    BY <1>11, <2>1, <2>2
  <2> QED  BY <1>5, <1>11, <2>3
<1>13. Joined(SubSeq(x, Len(m) + 2, Len(x)) \o lost, f, n + 1, l)
  BY <1>10, <1>11, <1>12
<1> QED  BY <1>4, <1>7, <1>12, <1>13 DEF n, l, x, f, line, u

\* requests remain as they were typed
LEMMA RequestsStay ==
  ASSUME TypesInv, NEW c \in Conn, PendingInv(c), FaithfulInv(c), NoRequest(c)
  PROVE  PendingInv(c)' /\ FaithfulInv(c)'
<1>1. typed'[c] = typed[c] /\ received'[c] = received[c]
  BY DEF NoRequest
<1>2. TypedBytes(c)' = TypedBytes(c)
  BY <1>1 DEF TypedBytes
<1>3. \A n : Clean(c, n)' = Clean(c, n)
  BY <1>1 DEF Clean
<1>4. FaithfulInv(c)'
  BY <1>1, <1>3 DEF FaithfulInv, Faithful
<1>5. ASSUME NEW lost, ToServer(c, lost)
      PROVE  \E less : ToServer(c, less)'
  <2>1. CASE toServer'[c] = toServer[c]
    BY <1>1, <1>2, <1>5, <2>1 DEF ToServer, NoRequest
  <2>2. CASE link'[c] = "down" /\ toServer'[c] \in Prefixes(toServer[c])
    <3> DEFINE p == toServer'[c]
    <3>1. toServer[c] \in Seq(Byte) /\ lost \in Seq(Byte)
      BY <1>5 DEF TypesInv, WiresType, ToServer
    <3>2. PICK q \in Seq(Byte) : p \in Seq(Byte) /\ toServer[c] = p \o q
      <4> DEFINE x == toServer[c]
      <4>1. x \in Seq(Byte) /\ p \in Prefixes(x)
        BY <2>2, <3>1
      <4> HIDE DEF x, p
      <4>2. p \in Seq(Byte) /\ \E q \in Seq(Byte) : x = p \o q
        BY <4>1, PrefixOf
      <4> QED  BY <4>2 DEF x
    <3> HIDE DEF p
    <3>3. p \o (q \o lost) = toServer[c] \o lost /\ q \o lost \in Seq(Byte)
      <4>1. InAnyOrder(p, q, lost) /\ q \o lost \in Seq(Byte)
        BY <3>1, <3>2, JoinOrder, JoinType, Zenon
      <4> QED  BY <3>2, <4>1 DEF InAnyOrder
    <3>4. ToServer(c, q \o lost)'
      BY <1>1, <1>2, <1>5, <2>2, <3>3 DEF ToServer, p
    <3> QED  BY <3>4
  <2> QED  BY <2>1, <2>2 DEF NoRequest
<1>6. PendingInv(c)'
  BY <1>1, <1>3, <1>5 DEF PendingInv
<1> QED  BY <1>4, <1>6

\* a line is the last of what is on its way
LEMMA RequestsMore ==
  ASSUME TypesInv, NEW c \in Conn, PendingInv(c), FaithfulInv(c), LineSent(c)
  PROVE  PendingInv(c)' /\ FaithfulInv(c)'
<1>1. PICK line \in Typable :
        /\ typed' = [typed EXCEPT ![c] = Append(typed[c], line)]
        /\ received'[c] = received[c]
        /\ link'[c] = link[c] /\ link[c] # "none"
        /\ toServer'[c] = IF link[c] = "up" THEN toServer[c] \o Encoder(line) ELSE toServer[c]
  BY DEF LineSent
<1> DEFINE n == Len(received[c])
           l == Len(typed[c])
           f == TypedBytes(c)
           g == TypedBytes(c)'
           e == Encoder(line)
<1>2. /\ Len(typed'[c]) = l + 1
      /\ DOMAIN typed[c] \subseteq DOMAIN typed'[c]
      /\ \A i \in DOMAIN typed[c] : typed'[c][i] = typed[c][i] /\ g[i] = f[i]
      /\ g[l + 1] = e
  BY <1>1, TypedMore
<1>3. l \in Nat /\ DOMAIN typed[c] = 1 .. l /\ \A i \in 1 .. l : f[i] \in Seq(Byte)
  BY TypedBytesAre
<1>4. e \in Seq(Byte)
  BY Sendable DEF Typable
<1>5. \A k : Clean(c, k)' => Clean(c, k)
  BY <1>2 DEF Clean
<1>6. n \in Nat /\ Len(received'[c]) = n
  BY <1>1, LenProperties DEF TypesInv, ServerType, IsSeq
<1>7. FaithfulInv(c)'
  <2> SUFFICES ASSUME NEW i \in DOMAIN received'[c], Clean(c, i)'
               PROVE  Faithful(c, i)'
    BY DEF FaithfulInv
  <2>1. Faithful(c, i) /\ i \in DOMAIN typed[c]
    BY <1>1, <1>5 DEF FaithfulInv, Faithful
  <2> QED  BY <1>1, <1>2, <2>1 DEF Faithful
<1>8. ASSUME n <= l, NEW lost, ToServer(c, lost)
      PROVE  \E more : ToServer(c, more)'
  <2> DEFINE s == toServer[c] \o lost
  <2>1. toServer[c] \in Seq(Byte) /\ lost \in Seq(Byte) /\ Joined(s, f, n, l)
    BY <1>8 DEF TypesInv, WiresType, ToServer
  <2>2. Joined(s \o e, g, n, l + 1)
    <3>1. \A i \in n + 1 .. l : f[i] \in Seq(Byte) /\ g[i] = f[i]
      BY <1>2, <1>3, <1>6
    <3> HIDE DEF n, l, f, g, e, s
    <3> QED  BY <1>2, <1>3, <1>4, <1>6, <1>8, <2>1, <3>1, JoinedMore
  <2>3. CASE link[c] = "up"
    <3>1. lost = <<>>
      BY <1>8, <2>3 DEF ToServer
    <3>2. toServer'[c] \o <<>> = s \o e
      <4>1. toServer[c] \o e \in Seq(Byte)
        BY <1>4, <2>1, JoinType, Zenon
      <4>2. (toServer[c] \o e) \o <<>> = toServer[c] \o e /\ toServer[c] \o <<>> = toServer[c]
        BY <2>1, <4>1, ConcatEmptySeq
      <4> QED  BY <1>1, <2>3, <3>1, <4>2
    <3>3. ToServer(c, <<>>)'
      BY <1>1, <1>2, <1>6, <2>2, <3>2, EmptySeq DEF ToServer
    <3> QED  BY <3>3
  <2>4. CASE link[c] = "down"
    <3>1. toServer'[c] \o (lost \o e) = s \o e /\ lost \o e \in Seq(Byte)
      <4>1. toServer'[c] = toServer[c]
        BY <1>1, <2>4
      <4> HIDE DEF e
      <4>2. InAnyOrder(toServer[c], lost, e) /\ lost \o e \in Seq(Byte)
        BY <1>4, <2>1, JoinOrder, JoinType, Zenon
      <4> QED  BY <4>1, <4>2 DEF InAnyOrder
    <3>2. ToServer(c, lost \o e)'
      BY <1>1, <1>2, <1>6, <2>2, <2>4, <3>1 DEF ToServer
    <3> QED  BY <3>2
  <2> QED  BY <1>1, <2>3, <2>4 DEF TypesInv, WiresType
<1>9. PendingInv(c)'
  BY <1>1, <1>2, <1>3, <1>5, <1>6, <1>8 DEF PendingInv
<1> QED  BY <1>7, <1>9

\* a request is read: it is what its line says
LEMMA RequestsRead ==
  ASSUME TypesInv, NEW c \in Conn, PendingInv(c), FaithfulInv(c), RequestRead(c)
  PROVE  PendingInv(c)' /\ FaithfulInv(c)'
<1>1. PICK m \in S!Arrived(c) :
        /\ typed'[c] = typed[c] /\ link'[c] = link[c]
        /\ received' = [received EXCEPT ![c] = Append(received[c], S!ReadRequest(m))]
        /\ toServer'[c] = SubSeq(toServer[c], Len(m) + 2, Len(toServer[c]))
  BY DEF RequestRead
<1> DEFINE s == received[c]
           n == Len(s)
           r == S!ReadRequest(m)
           t == Append(s, r)
<1>2. /\ received'[c] = t /\ n \in Nat /\ Len(t) = n + 1
      /\ DOMAIN s = 1 .. n /\ DOMAIN t = 1 .. n + 1
      /\ (\A i \in 1 .. n : t[i] = s[i]) /\ t[n + 1] = r
  <2>1. PICK T : s \in Seq(T)
    BY DEF TypesInv, ServerType, IsSeq
  <2> DEFINE U == T \cup {r}
  <2>2. s \in Seq(U) /\ r \in U
    BY <2>1, SeqMonotonic
  <2>3. received'[c] = t
    BY <1>1 DEF TypesInv, ServerType
  <2> HIDE DEF s, r, U
  <2> QED  BY <2>2, <2>3
<1> HIDE DEF t
<1>3. \A k : Clean(c, k)' = Clean(c, k)
  BY <1>1 DEF Clean
<1>4. TypedBytes(c)' = TypedBytes(c)
  BY <1>1 DEF TypedBytes
<1>5. ASSUME Clean(c, n + 1)
      PROVE  /\ n + 1 \in DOMAIN typed[c] /\ n + 1 <= Len(typed[c])
             /\ m = Message(typed[c][n + 1])
             /\ \E lost : ToServer(c, lost)'
  <2>1. /\ n + 1 \in DOMAIN typed[c] /\ n + 1 <= Len(typed[c])
        /\ m = Message(typed[c][n + 1])
        /\ \E lost \in Seq(Byte) :
             /\ link[c] # "down" => lost = <<>>
             /\ Joined(SubSeq(toServer[c], Len(m) + 2, Len(toServer[c])) \o lost, TypedBytes(c), n + 1,
                       Len(typed[c]))
    BY <1>2, <1>5, NextRequest
  <2> QED  BY <1>1, <1>2, <1>4, <2>1 DEF ToServer
<1>6. PendingInv(c)'
  BY <1>1, <1>2, <1>3, <1>5 DEF PendingInv
<1>7. ASSUME NEW i \in 1 .. n + 1, Clean(c, i)
      PROVE  Faithful(c, i)'
  <2>1. CASE i \in 1 .. n
    <3>1. Faithful(c, i)
      BY <1>2, <1>7, <2>1 DEF FaithfulInv
    <3> QED  BY <1>1, <1>2, <2>1, <3>1 DEF Faithful
  <2>2. CASE i = n + 1
    <3> DEFINE line == typed[c][n + 1]
    <3>1. n + 1 \in DOMAIN typed[c] /\ m = Message(line)
      BY <1>5, <1>7, <2>2
    <3>2. IsLine(line) /\ line.word \in DOMAIN Op
      BY <3>1, TypedBytesAre
    <3>3. r = ReadRequest(Message(line))
      BY <3>1, SameRead
    <3> HIDE DEF line, r
    <3>4. r.op = Op[line.word] /\ (WellFormed(line) => r = Meant(line))
      BY <3>2, <3>3, SameOpcode, SameRequest
    <3> QED  BY <1>1, <1>2, <2>2, <3>1, <3>4 DEF Faithful, line
  <2> QED  BY <1>2, <2>1, <2>2
<1>8. FaithfulInv(c)'
  BY <1>2, <1>3, <1>7 DEF FaithfulInv
<1> QED  BY <1>6, <1>8

\* a connection that is not there was not there before
LEMMA NeverConnected ==
  ASSUME TypesInv, [Next]_vars, NEW c \in Conn, link'[c] = "none"
  PROVE  link[c] = "none"
<1> DEFINE moved == \E d \in Conn : \E state \in {"up", "down"} : link' = [link EXCEPT ![d] = state]
<1>1. CASE ServerStep
  <2>1. link' = link \/ moved
    BY <1>1 DEF ServerStep, S!ServerStep, S!ServeStep, S!ThreadStep, S!AcceptFails, S!Accept, S!OpenStreams,
                S!Process, S!ProcessThrows, S!LogstatThrows, S!ReadEnds, S!SendNowhere,
                S!SendWrite, S!SendLarge, S!SendFlush, S!SendFails, S!wireVars, S!Closed
  <2> QED  BY <2>1 DEF TypesInv, WiresType
<1>2. ASSUME NEW d \in Conn, ClientStep(d)
      PROVE  link[c] = "none"
  <2>1. CASE C!MainStep(d)
    <3>1. link' = link \/ link' = [link EXCEPT ![d] = "up"] \/ link' = [link EXCEPT ![d] = "down"]
      BY <2>1 DEF C!MainStep, C!Start, C!StartFails, C!Exit, C!Closed, C!wireVars
    <3> QED  BY <3>1 DEF TypesInv, WiresType
  <2>2. CASE C!UserStep(d) \/ C!KeyboardStep(d)
    BY <2>2 DEF C!UserStep, C!KeyboardStep, C!Type, C!TypeTooLong, C!InputEnds, C!GetNothing, C!SendLine,
                C!KeyboardTest, C!WaitEnds, C!ResetLogout, C!wireVars
  <2>3. CASE C!ReaderStep(d)
    <3>1. link' = link \/ link' = [link EXCEPT ![d] = "down"]
      <4>1. CASE C!DecodeNothing(d)
        BY <4>1 DEF C!DecodeNothing, C!Closed
      <4>2. CASE ~C!DecodeNothing(d)
        BY <2>3, <4>2 DEF C!ReaderStep, C!DecodeOpcode, C!DecodeAck, C!DecodeError, C!PrintAnswer,
             C!DecodeBytes, C!DecodeFrame, C!FrameRepeats, C!FrameOfNothing, C!ReadFails, C!wireVars
      <4> QED  BY <4>1, <4>2
    <3> QED  BY <3>1 DEF TypesInv, WiresType
  <2> QED  BY <1>2, <2>1, <2>2, <2>3 DEF ClientStep, C!ClientStep
<1>3. ASSUME NEW d \in Conn, Lose(d)
      PROVE  link[c] = "none"
  BY <1>3 DEF Lose, C!Lose, TypesInv, WiresType
<1>4. CASE UNCHANGED vars
  BY <1>4 DEF vars, wireVars
<1> QED  BY <1>1, <1>2, <1>3, <1>4 DEF Next

\* who types is connected
LEMMA WiredKept == TypesInv /\ WiredInv /\ [Next]_vars => WiredInv'
<1> SUFFICES ASSUME TypesInv, WiredInv, [Next]_vars, NEW c \in Conn, link'[c] = "none"
             PROVE  keyboard'[c] = "none"
  BY DEF WiredInv
<1>1. link[c] = "none"
  BY NeverConnected
<1>2. keyboard[c] = "none"
  BY <1>1 DEF WiredInv
<1>3. \/ keyboard' = keyboard
      \/ \E d \in Conn : keyboard[d] # "none" /\ \E step : C!KeyboardTo(d, step)
      \/ \E d \in Conn : C!Start(d)
  <2> DEFINE moves(d) == keyboard[d] # "none" /\ \E step : C!KeyboardTo(d, step)
  <2>1. ASSUME ServerStep \/ UNCHANGED vars \/ \E d \in Conn : Lose(d)
        PROVE  keyboard' = keyboard
    BY <2>1 DEF vars, clientVars, ServerStep, Lose, C!Lose, C!clientVars, C!keyboardVars
  <2>2. ASSUME NEW d \in Conn, C!MainStep(d)
        PROVE  keyboard' = keyboard \/ C!Start(d)
    BY <2>2 DEF C!MainStep, C!StartFails, C!Exit, C!keyboardVars
  <2>3. ASSUME NEW d \in Conn, C!UserStep(d) \/ C!KeyboardStep(d)
        PROVE  keyboard' = keyboard \/ moves(d)
    BY <2>3 DEF C!UserStep, C!KeyboardStep, C!Type, C!TypeTooLong, C!InputEnds, C!GetNothing, C!SendLine,
                C!KeyboardTest, C!WaitEnds, C!ResetLogout, C!KeyboardAt, C!keyboardVars
  <2>4. ASSUME NEW d \in Conn, C!ReaderStep(d)
        PROVE  keyboard' = keyboard
    BY <2>4 DEF C!ReaderStep, C!DecodeOpcode, C!DecodeNothing, C!DecodeAck, C!DecodeError, C!PrintAnswer,
                C!DecodeBytes, C!DecodeFrame, C!FrameRepeats, C!FrameOfNothing, C!ReadFails, C!keyboardVars
  <2> HIDE DEF moves
  <2>5. \/ keyboard' = keyboard
        \/ \E d \in Conn : moves(d)
        \/ \E d \in Conn : C!Start(d)
    <3>1. \A d \in Conn : ClientStep(d) => keyboard' = keyboard \/ moves(d) \/ C!Start(d)
      BY <2>2, <2>3, <2>4 DEF ClientStep, C!ClientStep
    <3> QED  BY <2>1, <3>1 DEF Next
  <2> QED  BY <2>5 DEF moves
<1> QED  BY <1>1, <1>2, <1>3 DEF C!KeyboardTo, C!Start, TypesInv, ProgramsType, WiresType

\* the requests are as they were typed, after every step
LEMMA RequestsKept == TypesInv /\ WiredInv /\ RequestsInv /\ [Next]_vars => RequestsInv'
<1> SUFFICES ASSUME TypesInv, WiredInv, RequestsInv, [Next]_vars, NEW c \in Conn
             PROVE  PendingInv(c)' /\ FaithfulInv(c)'
  BY DEF RequestsInv
<1>1. PendingInv(c) /\ FaithfulInv(c)
  BY DEF RequestsInv
<1>2. NoRequest(c) \/ LineSent(c) \/ RequestRead(c)
  BY Requesting
<1> QED  BY <1>1, <1>2, RequestsStay, RequestsMore, RequestsRead

\* at the start there are none
LEMMA RequestsStart == Init => WiredInv /\ RequestsInv
<1> SUFFICES ASSUME Init
             PROVE  WiredInv /\ RequestsInv
  OBVIOUS
<1>1. WiredInv
  BY DEF Init, C!Init, WiredInv
<1>2. ASSUME NEW c \in Conn
      PROVE  PendingInv(c) /\ FaithfulInv(c)
  <2>1. received[c] = <<>> /\ typed[c] = <<>> /\ toServer[c] = <<>>
    BY DEF Init, C!Init, S!Init
  <2>2. Len(received[c]) = 0 /\ Len(typed[c]) = 0 /\ DOMAIN received[c] = {}
    BY <2>1
  <2>3. <<>> \in Seq(Byte) /\ <<>> \o <<>> = <<>>
    BY EmptySeq, ConcatEmptySeq
  <2>4. ToServer(c, <<>>)
    BY <2>1, <2>2, <2>3, JoinedNone DEF ToServer
  <2> QED  BY <2>2, <2>4 DEF PendingInv, FaithfulInv
<1> QED  BY <1>1, <1>2 DEF RequestsInv

(***************************************************************************)
(* Where the requests of a client are: what is in its stream, and was lost *)
(* of it, are the lines it has typed and the server has not read.          *)
(***************************************************************************)
THEOREM RequestsInvariance == Spec => [](WiredInv /\ RequestsInv)
<1>1. TypesInv /\ WiredInv /\ RequestsInv /\ [Next]_vars => (WiredInv /\ RequestsInv)'
  BY WiredKept, RequestsKept
<1> QED  BY TypeCorrect, RequestsStart, <1>1, PTL DEF Spec

(***************************************************************************)
(* Each request that process gets is the line that was typed at its place, *)
(* and its parts are those the user separated by blanks: for any number of *)
(* clients, and for lines of any length and any ASCII text.                *)
(***************************************************************************)
THEOREM Requests == Spec => []RequestsAsTyped
<1>1. RequestsInv => RequestsAsTyped
  BY DEF RequestsInv, FaithfulInv, Faithful, Clean, RequestsAsTyped
<1> QED  BY RequestsInvariance, <1>1, PTL

-----------------------------------------------------------------------------
(* The parts of an answer *)

OneByte == {s \in Seq(Byte) : Len(s) = 1}

\* the answers while no line has the delimiter in it: an action of FOLLOW is one byte, and
\* no name and no text has a NUL in it
Clear == AnswersFrom(OneByte, Seq(Letter))

\* what begins the frame of an answer
Header(a) == CASE a.kind = "NOTIFICATION" -> 9 [] a.kind = "ACK" -> 10 [] OTHER -> 11

FirstStep(a) ==
  CASE a.kind = "NOTIFICATION" -> "stat" [] a.kind = "ACK" -> "messageOpcode" [] OTHER -> "arg"

\* the steps in which it is decoded
StepsOf(a) ==
  {"last"} \cup
    CASE a.kind = "NOTIFICATION" -> {"stat", "postingUser", "content"}
      [] a.kind = "ACK" /\ a.op = 4 -> {"messageOpcode", "action", "userName", "extra"}
      [] a.kind = "ACK" /\ a.op \in {7, 8} -> {"messageOpcode", "arguments"}
      [] a.kind = "ACK" /\ a.op \notin {4, 7, 8} -> {"messageOpcode"}
      [] OTHER -> {"arg"}

NextStep(step, a) ==
  CASE step = "messageOpcode" ->
         (CASE a.op = 4 -> "action" [] a.op \in {7, 8} -> "arguments" [] OTHER -> "last")
    [] step = "arg" -> "last"
    [] OTHER -> C!After[step]

AnswerOf(kind, op, fields) == [kind |-> kind, op |-> op, fields |-> fields]

\* what the reader has of the answer before a step
Partial(step, a) ==
  LET part(op, fields) == AnswerOf(a.kind, op, fields)
  IN  CASE step \in {"messageOpcode", "arg"} -> part(0, <<>>)
        [] step \in {"arguments", "action", "stat"} -> part(a.op, <<>>)
        [] step \in {"userName", "postingUser"} -> part(a.op, <<a.fields[1]>>)
        [] step = "content" -> part(a.op, <<a.fields[1], a.fields[2]>>)
        [] step \in {"extra", "last"} -> a

\* what it has when it has read u
Decoded(step, answer, u) ==
  CASE step \in {"messageOpcode", "arg"} -> [answer EXCEPT !.op = C!Number(u)]
    [] step = "extra" -> answer
    [] step = "arguments" -> [answer EXCEPT !.fields = Append(@, C!Numbers(u))]
    [] OTHER -> [answer EXCEPT !.fields = Append(@, u)]

\* a step that reads some bytes, and finds u
BytesAt(step, a, u) ==
  /\ u \in Seq(Byte) /\ Len(u) = C!Size[step]
  /\ NextStep(step, a) \in StepsOf(a)
  /\ Left(step, a) = u \o Left(NextStep(step, a), a)
  /\ Partial(NextStep(step, a), a) = Decoded(step, Partial(step, a), u)
  /\ step = "messageOpcode" => C!Number(u) = a.op

\* ... or a string
StringAt(step, a, u) ==
  /\ u \in Seq(Byte) /\ ~Contains(u, NUL)
  /\ NextStep(step, a) \in StepsOf(a)
  /\ Left(step, a) = (u \o <<NUL>>) \o Left(NextStep(step, a), a)
  /\ Partial(NextStep(step, a), a) = Decoded(step, Partial(step, a), u)

\* an answer, as it is taken apart
Anatomy(a) ==
  /\ Encode(a) = Two(Header(a)) \o Left(FirstStep(a), a)
  /\ FirstStep(a) \in StepsOf(a)
  /\ \A step \in StepsOf(a) : Left(step, a) \in Seq(Byte)
  /\ \A step \in StepsOf(a) \ (C!Frames \cup {"last"}) : \E u : BytesAt(step, a, u)
  /\ \A step \in StepsOf(a) \cap C!Frames : \E u : StringAt(step, a, u)
  /\ Left("last", a) = <<Semicolon>> \o Zeros(a) /\ Partial("last", a) = a

\* the digits of an opcode
LEMMA NumberIs == \A op \in Ops : C!Number(Two(op)) = op
BY DEF C!Number, C!Digit, Two, Digit, Ops

\* ACK
LEMMA AckAnatomy ==
  ASSUME NEW op \in {1, 2, 3, 5, 6, 12}, NEW a, a = Ack(op)
  PROVE  Anatomy(a)
<1>1. /\ a.kind = "ACK" /\ a.op = op /\ a.fields = <<>>
      /\ Encode(a) = Two(10) \o OpcodeLeft(a)
      /\ OpcodeLeft(a) = Two(op) \o LastLeft(a)
      /\ OpcodeLeft(a) \in Seq(Byte) /\ LastLeft(a) \in Seq(Byte)
  BY AckIs
<1>2. /\ Header(a) = 10 /\ FirstStep(a) = "messageOpcode" /\ StepsOf(a) = {"last", "messageOpcode"}
      /\ NextStep("messageOpcode", a) = "last"
  BY <1>1 DEF Header, FirstStep, StepsOf, NextStep
<1>3. Left("messageOpcode", a) = OpcodeLeft(a) /\ Left("last", a) = LastLeft(a)
  BY DEF Left
<1>4. LastLeft(a) = <<Semicolon>> \o Zeros(a)
  BY DEF LastLeft
<1>5. Partial("last", a) = a /\ Partial("messageOpcode", a) = [kind |-> "ACK", op |-> 0, fields |-> <<>>]
  BY <1>1 DEF Partial, AnswerOf
<1>6. op \in Ops
  BY DEF Ops
<1>7. BytesAt("messageOpcode", a, Two(op))
  <2>1. Two(op) \in Seq(Byte) /\ Len(Two(op)) = C!Size["messageOpcode"]
    BY <1>6, Bytes DEF C!Size
  <2>2. C!Number(Two(op)) = op
    BY <1>6, NumberIs
  <2>3. Decoded("messageOpcode", Partial("messageOpcode", a), Two(op)) = a
    BY <1>5, <2>2 DEF Decoded, Ack
  <2> QED  BY <1>1, <1>2, <1>3, <1>5, <2>1, <2>2, <2>3 DEF BytesAt
<1>8. "messageOpcode" \notin C!Frames /\ "last" \notin C!Frames
  BY DEF C!Frames
<1> QED  BY <1>1, <1>2, <1>3, <1>4, <1>5, <1>7, <1>8 DEF Anatomy

\* ERROR
LEMMA ErrorAnatomy ==
  ASSUME NEW op \in Ops, NEW a, a = Error(op)
  PROVE  Anatomy(a)
<1>1. /\ a.kind = "ERROR" /\ a.op = op /\ a.fields = <<>>
      /\ Encode(a) = Two(11) \o ArgLeft(a)
      /\ ArgLeft(a) = Two(op) \o LastLeft(a)
      /\ ArgLeft(a) \in Seq(Byte) /\ LastLeft(a) \in Seq(Byte)
  BY ErrorIs
<1>2. /\ Header(a) = 11 /\ FirstStep(a) = "arg" /\ StepsOf(a) = {"last", "arg"}
      /\ NextStep("arg", a) = "last"
  BY <1>1 DEF Header, FirstStep, StepsOf, NextStep
<1>3. Left("arg", a) = ArgLeft(a) /\ Left("last", a) = LastLeft(a)
  BY DEF Left
<1>4. LastLeft(a) = <<Semicolon>> \o Zeros(a)
  BY DEF LastLeft
<1>5. Partial("last", a) = a /\ Partial("arg", a) = [kind |-> "ERROR", op |-> 0, fields |-> <<>>]
  BY <1>1 DEF Partial, AnswerOf
<1>6. BytesAt("arg", a, Two(op))
  <2>1. Two(op) \in Seq(Byte) /\ Len(Two(op)) = C!Size["arg"]
    BY Bytes DEF C!Size
  <2>2. C!Number(Two(op)) = op
    BY NumberIs
  <2>3. Decoded("arg", Partial("arg", a), Two(op)) = a
    BY <1>5, <2>2 DEF Decoded, Error
  <2> QED  BY <1>1, <1>2, <1>3, <1>5, <2>1, <2>2, <2>3 DEF BytesAt
<1>7. "arg" \notin C!Frames /\ "last" \notin C!Frames
  BY DEF C!Frames
<1> QED  BY <1>1, <1>2, <1>3, <1>4, <1>5, <1>6, <1>7 DEF Anatomy

\* text has no NUL
LEMMA NoNul ==
  /\ \A s \in Seq(Letter) : s \in Seq(Byte) /\ ~Contains(s, NUL)
  /\ <<97>> \in Seq(Byte) /\ ~Contains(<<97>>, NUL)
  /\ <<Digit(1)>> \in Seq(Byte) /\ Len(<<Digit(1)>>) = 1
<1>1. Letter \subseteq Byte /\ NUL \notin Letter
  BY DEF Letter, Byte, NUL
<1>2. ASSUME NEW s \in Seq(Letter)
      PROVE  s \in Seq(Byte) /\ ~Contains(s, NUL)
  <2>1. s \in Seq(Byte)
    BY <1>1, SeqMonotonic
  <2>2. \A i \in 1 .. Len(s) : s[i] \in Letter
    BY ElementOfSeq
  <2> QED  BY <1>1, <2>1, <2>2 DEF Contains
<1>3. 97 \in Letter /\ Digit(1) \in Byte
  BY DEF Letter, Byte, Digit
<1>4. <<97>> \in Seq(Letter)
  BY <1>3
<1>5. <<Digit(1)>> \in Seq(Byte) /\ Len(<<Digit(1)>>) = 1
  BY <1>3
<1> QED  BY <1>2, <1>4, <1>5

\* fields are decoded one after another
LEMMA Appended ==
  /\ \A x : Append(<<>>, x) = <<x>>
  /\ \A x, y : Append(<<x>>, y) = <<x, y>>
  /\ \A x, y, z : Append(<<x, y>>, z) = <<x, y, z>>
<1> SUFFICES ASSUME NEW x, NEW y, NEW z
             PROVE  /\ Append(<<>>, x) = <<x>>
                    /\ Append(<<x>>, y) = <<x, y>>
                    /\ Append(<<x, y>>, z) = <<x, y, z>>
  OBVIOUS
<1> DEFINE T == {x, y, z}
<1>1. x \in T /\ y \in T /\ z \in T
  OBVIOUS
<1> HIDE DEF T
<1>2. /\ <<>> \in Seq(T) /\ <<x>> \in Seq(T) /\ <<x, y>> \in Seq(T) /\ <<x, y, z>> \in Seq(T)
      /\ Len(<<>>) = 0 /\ Len(<<x>>) = 1 /\ Len(<<x, y>>) = 2 /\ Len(<<x, y, z>>) = 3
  BY <1>1
<1>3. \A s \in Seq(T) : \A e \in T :
        /\ Append(s, e) \in Seq(T) /\ Len(Append(s, e)) = Len(s) + 1
        /\ \A i \in 1 .. Len(s) : Append(s, e)[i] = s[i]
        /\ Append(s, e)[Len(s) + 1] = e
  BY AppendProperties
<1>4. Append(<<>>, x) = <<x>>
  BY <1>1, <1>2, <1>3, SeqEqual
<1>5. Append(<<x>>, y) = <<x, y>>
  <2> DEFINE s == <<x>>
             t == <<x, y>>
             r == Append(s, y)
  <2>1. s[1] = x /\ t[1] = x /\ t[2] = y /\ s \in Seq(T) /\ Len(s) = 1 /\ t \in Seq(T) /\ Len(t) = 2
    BY <1>2
  <2> HIDE DEF s, t
  <2>2. /\ r \in Seq(T) /\ Len(r) = Len(s) + 1 /\ \A i \in 1 .. Len(s) : r[i] = s[i]
        /\ r[Len(s) + 1] = y
    BY <1>1, <1>3, <2>1, Zenon
  <2> HIDE DEF r
  <2>3. \A i \in 1 .. Len(r) : r[i] = t[i]
    BY <2>1, <2>2
  <2>4. r = t
    BY <2>1, <2>2, <2>3, SeqEqual
  <2> QED  BY <2>4 DEF r, s, t
<1>6. Append(<<x, y>>, z) = <<x, y, z>>
  <2> DEFINE s == <<x, y>>
             t == <<x, y, z>>
             r == Append(s, z)
  <2>1. /\ s[1] = x /\ s[2] = y /\ t[1] = x /\ t[2] = y /\ t[3] = z
        /\ s \in Seq(T) /\ Len(s) = 2 /\ t \in Seq(T) /\ Len(t) = 3
    BY <1>2
  <2> HIDE DEF s, t
  <2>2. /\ r \in Seq(T) /\ Len(r) = Len(s) + 1 /\ \A i \in 1 .. Len(s) : r[i] = s[i]
        /\ r[Len(s) + 1] = z
    BY <1>1, <1>3, <2>1, Zenon
  <2> HIDE DEF r
  <2>3. \A i \in 1 .. Len(r) : r[i] = t[i]
    BY <2>1, <2>2
  <2>4. r = t
    BY <2>1, <2>2, <2>3, SeqEqual
  <2> QED  BY <2>4 DEF r, s, t
<1> QED  BY <1>4, <1>5, <1>6

\* ... and put behind those there are
LEMMA FieldDecoded ==
  \A kind, op, fields, u : \A step \in {"stat", "action"} \cup C!Frames :
    Decoded(step, AnswerOf(kind, op, fields), u) = AnswerOf(kind, op, Append(fields, u))
<1> TAKE kind, op, fields, u
<1> TAKE step \in {"stat", "action"} \cup C!Frames
<1> DEFINE r == [kind |-> kind, op |-> op, fields |-> fields]
           s == Append(fields, u)
<1>1. step \notin {"messageOpcode", "arg", "extra", "arguments"}
  BY DEF C!Frames
<1>2. Decoded(step, r, u) = [r EXCEPT !.fields = s]
  <2>1. r.fields = fields
    OBVIOUS
  <2> HIDE DEF r
  <2> QED  BY <1>1, <2>1 DEF Decoded
<1>3. [r EXCEPT !.fields = s] = [kind |-> kind, op |-> op, fields |-> s]
  <2> HIDE DEF s
  <2> QED  OBVIOUS
<1> QED  BY <1>2, <1>3 DEF AnswerOf

\* the ACK of FOLLOW
LEMMA FollowAckAnatomy ==
  ASSUME NEW char \in OneByte, NEW name \in Seq(Letter), NEW a, a = FollowAck(char, name)
  PROVE  Anatomy(a)
<1> DEFINE f == a.fields[1]
           part(fields) == AnswerOf("ACK", 4, fields)
<1>0. char \in Seq(Byte) /\ Len(char) = 1 /\ name \in Seq(Byte) /\ ~Contains(name, NUL)
  BY NoNul DEF OneByte
<1>1. /\ a.kind = "ACK" /\ a.op = 4
      /\ a.fields = <<f, name>>
      /\ f \in Seq(Byte) /\ Len(f) = 2
      /\ Encode(a) = Two(10) \o OpcodeLeft(a)
      /\ OpcodeLeft(a) = Two(4) \o ActionLeft(a)
      /\ ActionLeft(a) = f \o UserNameLeft(a)
      /\ UserNameLeft(a) = (name \o <<NUL>>) \o ExtraLeft(a)
      /\ ExtraLeft(a) = <<NUL>> \o LastLeft(a)
      /\ OpcodeLeft(a) \in Seq(Byte) /\ ActionLeft(a) \in Seq(Byte)
      /\ UserNameLeft(a) \in Seq(Byte) /\ ExtraLeft(a) \in Seq(Byte) /\ LastLeft(a) \in Seq(Byte)
  <2> HIDE DEF f
  <2>1. char \in Seq(Byte) /\ name \in Seq(Byte)
    BY <1>0
  <2>2. a.kind = "ACK" /\ a.op = 4
    BY <2>1, FollowAckIs
  <2>3. a.fields = <<a.fields[1], name>>
    BY <2>1, FollowAckIs
  <2>4. a.fields[1] \in Seq(Byte) /\ Len(a.fields[1]) = 2
    BY <1>0, <2>1, FollowAckIs
  <2>5. Encode(a) = Two(10) \o OpcodeLeft(a) /\ OpcodeLeft(a) = Two(4) \o ActionLeft(a)
    BY <2>1, FollowAckIs
  <2>6. ActionLeft(a) = a.fields[1] \o UserNameLeft(a)
    BY <2>1, FollowAckIs
  <2>7. UserNameLeft(a) = (name \o <<NUL>>) \o ExtraLeft(a)
    <3>1. a.fields[2] = name
      BY <2>3
    <3> QED  BY <3>1, Zenon DEF UserNameLeft
  <2>8. ExtraLeft(a) = <<NUL>> \o LastLeft(a)
    BY <2>1, FollowAckIs
  <2>9. /\ OpcodeLeft(a) \in Seq(Byte) /\ ActionLeft(a) \in Seq(Byte)
        /\ UserNameLeft(a) \in Seq(Byte) /\ ExtraLeft(a) \in Seq(Byte) /\ LastLeft(a) \in Seq(Byte)
    BY <2>1, FollowAckIs
  <2> QED  BY <2>2, <2>3, <2>4, <2>5, <2>6, <2>7, <2>8, <2>9, Zenon DEF f
<1>2. a = part(<<f, name>>)
  BY <1>1 DEF FollowAck, AnswerOf
<1>3. /\ Header(a) = 10 /\ FirstStep(a) = "messageOpcode"
      /\ StepsOf(a) = {"last", "messageOpcode", "action", "userName", "extra"}
      /\ NextStep("messageOpcode", a) = "action" /\ NextStep("action", a) = "userName"
      /\ NextStep("userName", a) = "extra" /\ NextStep("extra", a) = "last"
  BY <1>1, SMTT(30) DEF Header, FirstStep, StepsOf, NextStep, C!After
<1>4. /\ Left("messageOpcode", a) = OpcodeLeft(a) /\ Left("action", a) = ActionLeft(a)
      /\ Left("userName", a) = UserNameLeft(a) /\ Left("extra", a) = ExtraLeft(a)
      /\ Left("last", a) = LastLeft(a)
  BY DEF Left
<1>5. LastLeft(a) = <<Semicolon>> \o Zeros(a)
  BY DEF LastLeft
<1>6. /\ Partial("messageOpcode", a) = AnswerOf("ACK", 0, <<>>)
      /\ Partial("action", a) = part(<<>>) /\ Partial("userName", a) = part(<<f>>)
      /\ Partial("extra", a) = a /\ Partial("last", a) = a
  BY <1>1 DEF Partial
<1> HIDE DEF f
<1>7. BytesAt("messageOpcode", a, Two(4))
  <2>1. Two(4) \in Seq(Byte) /\ Len(Two(4)) = C!Size["messageOpcode"] /\ C!Number(Two(4)) = 4
    BY Bytes, NumberIs DEF C!Size, Ops
  <2>2. Decoded("messageOpcode", Partial("messageOpcode", a), Two(4)) = part(<<>>)
    BY <1>6, <2>1 DEF Decoded, AnswerOf
  <2> QED  BY <1>1, <1>3, <1>4, <1>6, <2>1, <2>2 DEF BytesAt
<1>8. BytesAt("action", a, f)
  <2>1. Decoded("action", Partial("action", a), f) = part(<<f>>)
    <3> DEFINE e == <<>>
    <3>1. Append(e, f) = <<f>>
      BY Appended
    <3> HIDE DEF e
    <3>2. Decoded("action", part(e), f) = part(Append(e, f))
      BY FieldDecoded
    <3> QED  BY <1>6, <3>1, <3>2 DEF e
  <2>2. C!Size["action"] = 2
    BY DEF C!Size
  <2> QED  BY <1>1, <1>3, <1>4, <1>6, <2>1, <2>2 DEF BytesAt
<1>9. StringAt("userName", a, name)
  <2>1. Decoded("userName", Partial("userName", a), name) = a
    <3>1. Decoded("userName", part(<<f>>), name) = part(Append(<<f>>, name))
      BY FieldDecoded DEF C!Frames
    <3>2. Append(<<f>>, name) = <<f, name>>
      BY Appended
    <3> QED  BY <1>2, <1>6, <3>1, <3>2
  <2> QED  BY <1>0, <1>1, <1>3, <1>4, <1>6, <2>1 DEF StringAt
<1>10. BytesAt("extra", a, <<NUL>>)
  <2>1. <<NUL>> \in Seq(Byte) /\ Len(<<NUL>>) = C!Size["extra"]
    BY Bytes DEF C!Size
  <2>2. Decoded("extra", Partial("extra", a), <<NUL>>) = a
    BY <1>6 DEF Decoded
  <2> QED  BY <1>1, <1>3, <1>4, <1>6, <2>1, <2>2 DEF BytesAt
<1>11. \A step \in StepsOf(a) : Left(step, a) \in Seq(Byte)
  BY <1>1, <1>3, <1>4
<1>12. /\ StepsOf(a) \ (C!Frames \cup {"last"}) = {"messageOpcode", "action", "extra"}
       /\ StepsOf(a) \cap C!Frames = {"userName"}
  BY <1>3 DEF C!Frames
<1> QED  BY <1>1, <1>3, <1>4, <1>5, <1>6, <1>7, <1>8, <1>9, <1>10, <1>11, <1>12 DEF Anatomy

\* the table of LOGSTAT
LEMMA StatisticsAnatomy ==
  ASSUME NEW a, a = Statistics(S!Numbers)
  PROVE  Anatomy(a)
<1> DEFINE t == TableBytes(Row)
           part(fields) == AnswerOf("ACK", 7, fields)
<1>0. S!Numbers = Row
  BY DEF S!Numbers, Row
<1>1. /\ a.kind = "ACK" /\ a.op = 7 /\ a.fields = <<Row>>
      /\ Encode(a) = Two(10) \o OpcodeLeft(a)
      /\ OpcodeLeft(a) = Two(7) \o ArgumentsLeft(a)
      /\ ArgumentsLeft(a) = t \o LastLeft(a)
      /\ OpcodeLeft(a) \in Seq(Byte) /\ ArgumentsLeft(a) \in Seq(Byte) /\ LastLeft(a) \in Seq(Byte)
      /\ t \in Seq(Byte) /\ Len(t) = 8
  BY <1>0, StatisticsIs
<1>2. C!Numbers(t) = Row
  <2>1. C!Numbers(t) = [i \in 1 .. 4 |-> BytesToShort(<<t[2 * i - 1], t[2 * i]>>)]
    BY DEF C!Numbers, C!BytesToShort, BytesToShort
  <2> QED  BY <1>0, <2>1, StatisticsIs
<1> HIDE DEF t
<1>3. a = part(<<Row>>)
  BY <1>0 DEF Statistics, AnswerOf
<1>4. /\ Header(a) = 10 /\ FirstStep(a) = "messageOpcode"
      /\ StepsOf(a) = {"last", "messageOpcode", "arguments"}
      /\ NextStep("messageOpcode", a) = "arguments" /\ NextStep("arguments", a) = "last"
  BY <1>1 DEF Header, FirstStep, StepsOf, NextStep, C!After
<1>5. /\ Left("messageOpcode", a) = OpcodeLeft(a) /\ Left("arguments", a) = ArgumentsLeft(a)
      /\ Left("last", a) = LastLeft(a)
  BY DEF Left
<1>6. LastLeft(a) = <<Semicolon>> \o Zeros(a)
  BY DEF LastLeft
<1>7. /\ Partial("messageOpcode", a) = AnswerOf("ACK", 0, <<>>)
      /\ Partial("arguments", a) = part(<<>>) /\ Partial("last", a) = a
  BY <1>1 DEF Partial
<1>8. BytesAt("messageOpcode", a, Two(7))
  <2>1. Two(7) \in Seq(Byte) /\ Len(Two(7)) = C!Size["messageOpcode"] /\ C!Number(Two(7)) = 7
    BY Bytes, NumberIs DEF C!Size, Ops
  <2>2. Decoded("messageOpcode", Partial("messageOpcode", a), Two(7)) = part(<<>>)
    BY <1>7, <2>1 DEF Decoded, AnswerOf
  <2> QED  BY <1>1, <1>4, <1>5, <1>7, <2>1, <2>2 DEF BytesAt
<1>9. BytesAt("arguments", a, t)
  <2>1. Append(<<>>, Row) = <<Row>>
    BY Appended
  <2>2. Decoded("arguments", part(<<>>), t) = a
    BY <1>2, <1>3, <2>1 DEF Decoded, AnswerOf
  <2>3. C!Size["arguments"] = 8
    BY DEF C!Size
  <2> QED  BY <1>1, <1>4, <1>5, <1>7, <2>2, <2>3 DEF BytesAt
<1>10. \A step \in StepsOf(a) : Left(step, a) \in Seq(Byte)
  BY <1>1, <1>4, <1>5
<1>11. /\ StepsOf(a) \ (C!Frames \cup {"last"}) = {"messageOpcode", "arguments"}
       /\ StepsOf(a) \cap C!Frames = {}
  BY <1>4 DEF C!Frames
<1> QED  BY <1>1, <1>4, <1>5, <1>6, <1>7, <1>8, <1>9, <1>10, <1>11 DEF Anatomy

\* a notification
LEMMA NoteAnatomy ==
  ASSUME NEW text \in Seq(Letter), NEW a, a = Notification(<<Digit(1)>>, << 97 >>, text)
  PROVE  Anatomy(a)
<1> DEFINE d == <<Digit(1)>>
           name == <<97>>
           part(fields) == AnswerOf("NOTIFICATION", 9, fields)
<1>0. /\ d \in Seq(Byte) /\ Len(d) = 1
      /\ name \in Seq(Byte) /\ ~Contains(name, NUL)
      /\ text \in Seq(Byte) /\ ~Contains(text, NUL)
  BY NoNul
<1>1. a.kind = "NOTIFICATION" /\ a.op = 9 /\ a.fields = <<d, name, text>>
  BY DEF Notification
<1>2. /\ Encode(a) = Two(9) \o StatLeft(a)
      /\ StatLeft(a) \in Seq(Byte) /\ PostingUserLeft(a) \in Seq(Byte)
      /\ ContentLeft(a) \in Seq(Byte) /\ LastLeft(a) \in Seq(Byte)
  <2>1. text \in Seq(Byte)
    BY <1>0
  <2>2. Encode(a) = Two(9) \o StatLeft(a)
    BY <2>1, NoteIs, Zenon
  <2>3. StatLeft(a) \in Seq(Byte) /\ PostingUserLeft(a) \in Seq(Byte)
    BY <2>1, NoteIs, Zenon
  <2>4. ContentLeft(a) \in Seq(Byte) /\ LastLeft(a) \in Seq(Byte)
    BY <2>1, NoteIs, Zenon
  <2> QED  BY <2>2, <2>3, <2>4, Zenon
<1>3. a = part(<<d, name, text>>)
  BY DEF Notification, AnswerOf
<1> HIDE DEF d, name
<1>4. a.fields[1] = d /\ a.fields[2] = name /\ a.fields[3] = text
  BY <1>1
<1>5. /\ StatLeft(a) = d \o PostingUserLeft(a)
      /\ PostingUserLeft(a) = (name \o <<NUL>>) \o ContentLeft(a)
      /\ ContentLeft(a) = (text \o <<NUL>>) \o LastLeft(a)
  BY <1>4, Zenon DEF StatLeft, PostingUserLeft, ContentLeft
<1>6. /\ Header(a) = 9 /\ FirstStep(a) = "stat"
      /\ StepsOf(a) = {"last", "stat", "postingUser", "content"}
      /\ NextStep("stat", a) = "postingUser" /\ NextStep("postingUser", a) = "content"
      /\ NextStep("content", a) = "last"
  BY <1>1 DEF Header, FirstStep, StepsOf, NextStep, C!After
<1>7. /\ Left("stat", a) = StatLeft(a) /\ Left("postingUser", a) = PostingUserLeft(a)
      /\ Left("content", a) = ContentLeft(a) /\ Left("last", a) = LastLeft(a)
  BY DEF Left
<1>8. LastLeft(a) = <<Semicolon>> \o Zeros(a)
  BY DEF LastLeft
<1>9. /\ Partial("stat", a) = part(<<>>) /\ Partial("postingUser", a) = part(<<d>>)
      /\ Partial("content", a) = part(<<d, name>>) /\ Partial("last", a) = a
  BY <1>1, <1>4 DEF Partial
<1> HIDE DEF part
<1>10. BytesAt("stat", a, d)
  <2>1. Decoded("stat", Partial("stat", a), d) = part(<<d>>)
    <3> DEFINE e == <<>>
    <3>1. Append(e, d) = <<d>>
      BY Appended
    <3> HIDE DEF e
    <3>2. Decoded("stat", part(e), d) = part(Append(e, d))
      BY FieldDecoded DEF part
    <3> QED  BY <1>9, <3>1, <3>2 DEF e
  <2>2. C!Size["stat"] = 1
    BY DEF C!Size
  <2>3. NextStep("stat", a) \in StepsOf(a)
    BY <1>6
  <2>4. Left("stat", a) = d \o Left(NextStep("stat", a), a)
    <3>1. Left("stat", a) = StatLeft(a)
      BY <1>7
    <3>2. Left(NextStep("stat", a), a) = PostingUserLeft(a)
      BY <1>6, <1>7
    <3>3. StatLeft(a) = d \o PostingUserLeft(a)
      BY <1>5
    <3> QED  BY <3>1, <3>2, <3>3, Zenon
  <2>5. Partial(NextStep("stat", a), a) = Decoded("stat", Partial("stat", a), d)
    BY <1>6, <1>9, <2>1
  <2> QED  BY <1>0, <2>2, <2>3, <2>4, <2>5 DEF BytesAt
<1>11. StringAt("postingUser", a, name)
  <2>1. Decoded("postingUser", Partial("postingUser", a), name) = part(<<d, name>>)
    <3>1. Decoded("postingUser", part(<<d>>), name) = part(Append(<<d>>, name))
      BY FieldDecoded DEF C!Frames, part
    <3>2. Append(<<d>>, name) = <<d, name>>
      BY Appended
    <3> QED  BY <1>9, <3>1, <3>2
  <2>2. NextStep("postingUser", a) \in StepsOf(a)
    BY <1>6
  <2>3. Left("postingUser", a) = (name \o <<NUL>>) \o Left(NextStep("postingUser", a), a)
    <3>1. Left("postingUser", a) = PostingUserLeft(a)
      BY <1>7
    <3>2. Left(NextStep("postingUser", a), a) = ContentLeft(a)
      BY <1>6, <1>7
    <3>3. PostingUserLeft(a) = (name \o <<NUL>>) \o ContentLeft(a)
      BY <1>5
    <3> QED  BY <3>1, <3>2, <3>3, Zenon
  <2>4. Partial(NextStep("postingUser", a), a) = Decoded("postingUser", Partial("postingUser", a), name)
    BY <1>6, <1>9, <2>1
  <2> QED  BY <1>0, <2>2, <2>3, <2>4 DEF StringAt
<1>12. StringAt("content", a, text)
  <2>1. Decoded("content", Partial("content", a), text) = a
    <3>1. Decoded("content", part(<<d, name>>), text) = part(Append(<<d, name>>, text))
      BY FieldDecoded DEF C!Frames, part
    <3>2. Append(<<d, name>>, text) = <<d, name, text>>
      BY Appended
    <3> QED  BY <1>3, <1>9, <3>1, <3>2
  <2>2. NextStep("content", a) \in StepsOf(a)
    BY <1>6
  <2>3. Left("content", a) = (text \o <<NUL>>) \o Left(NextStep("content", a), a)
    <3>1. Left("content", a) = ContentLeft(a)
      BY <1>7
    <3>2. Left(NextStep("content", a), a) = LastLeft(a)
      BY <1>6, <1>7
    <3>3. ContentLeft(a) = (text \o <<NUL>>) \o LastLeft(a)
      BY <1>5
    <3> QED  BY <3>1, <3>2, <3>3, Zenon
  <2>4. Partial(NextStep("content", a), a) = Decoded("content", Partial("content", a), text)
    BY <1>6, <1>9, <2>1
  <2> QED  BY <1>0, <2>2, <2>3, <2>4 DEF StringAt
<1>13. \A step \in StepsOf(a) : Left(step, a) \in Seq(Byte)
  <2>1. /\ Left("stat", a) \in Seq(Byte) /\ Left("postingUser", a) \in Seq(Byte)
        /\ Left("content", a) \in Seq(Byte) /\ Left("last", a) \in Seq(Byte)
    BY <1>2, <1>7
  <2> QED  BY <1>6, <2>1
<1>14. /\ StepsOf(a) \ (C!Frames \cup {"last"}) = {"stat"}
       /\ StepsOf(a) \cap C!Frames = {"postingUser", "content"}
  BY <1>6 DEF C!Frames
<1>15. \A step \in {"postingUser", "content"} : \E u : StringAt(step, a, u)
  BY <1>11, <1>12
<1>16. Encode(a) = Two(Header(a)) \o Left(FirstStep(a), a)
  BY <1>2, <1>6, <1>7
<1>17. FirstStep(a) \in StepsOf(a)
  BY <1>6
<1>18. \A step \in StepsOf(a) \ (C!Frames \cup {"last"}) : \E u : BytesAt(step, a, u)
  BY <1>10, <1>14
<1>19. \A step \in StepsOf(a) \cap C!Frames : \E u : StringAt(step, a, u)
  BY <1>14, <1>15
<1>20. Left("last", a) = <<Semicolon>> \o Zeros(a) /\ Partial("last", a) = a
  BY <1>7, <1>8, <1>9
<1> QED  BY <1>13, <1>16, <1>17, <1>18, <1>19, <1>20, Zenon DEF Anatomy

(***************************************************************************)
(* Any answer that has no delimiter in it is taken apart as it was put     *)
(* together: at each step the decoder finds the part it asks for, is left  *)
(* with the bytes of the parts to come, and ends with the answer.          *)
(***************************************************************************)
THEOREM Anatomies == \A a \in Clear : Anatomy(a)
<1> TAKE a \in Clear
<1>1. CASE \E op \in {1, 2, 3, 5, 6, 12} : a = Ack(op)
  BY <1>1, AckAnatomy
<1>2. CASE \E op \in Ops : a = Error(op)
  BY <1>2, ErrorAnatomy
<1>3. CASE \E action \in OneByte, name \in Seq(Letter) : a = FollowAck(action, name)
  BY <1>3, FollowAckAnatomy
<1>4. CASE a = Statistics(S!Numbers)
  BY <1>4, StatisticsAnatomy
<1>5. CASE \E content \in Seq(Letter) : a = Notification(<<Digit(1)>>, <<97>>, content)
  BY <1>5, NoteAnatomy
<1> QED  BY <1>1, <1>2, <1>3, <1>4, <1>5 DEF Clear, AnswersFrom

-----------------------------------------------------------------------------
(* Answers that are sent *)

\* messages of the thread of c while no line has the delimiter in it
Mine(c) == Mail(c, OneByte, Seq(Letter))

Cleared(c) == thread[c].sends \in Seq(Mine(c)) /\ sent[c] \in Seq(Clear)

ClearInv == Undivided => \A c \in Conn : Cleared(c)

\* a line with the delimiter in it remains typed
LEMMA UndividedBefore ==
  ASSUME TypesInv, WiredInv, [Next]_vars, Undivided'
  PROVE  Undivided
<1> SUFFICES ASSUME NEW c \in Conn, NEW i \in DOMAIN typed[c]
             PROVE  NoDelimiter(typed[c][i])
  BY DEF Undivided, ToSet
<1>1. NoRequest(c) \/ LineSent(c) \/ RequestRead(c)
  BY Requesting
<1>2. i \in DOMAIN typed'[c] /\ typed'[c][i] = typed[c][i]
  <2>1. CASE LineSent(c)
    <3>1. PICK line \in Typable : typed' = [typed EXCEPT ![c] = Append(typed[c], line)]
      BY <2>1 DEF LineSent
    <3> QED  BY <3>1, TypedMore
  <2>2. CASE NoRequest(c) \/ RequestRead(c)
    BY <2>2 DEF NoRequest, RequestRead
  <2> QED  BY <1>1, <2>1, <2>2
<1> QED  BY <1>2 DEF Undivided, ToSet

\* what is answered to a line without the delimiter
LEMMA ProcessClear ==
  ASSUME TypesInv, StreamsInv, RequestsInv, Undivided, NEW c \in Conn, S!Process(c)
  PROVE  \E s \in Seq(Mine(c)) : thread' = [thread EXCEPT ![c] = S!HasToSend(s)]
<1>1. PICK m \in S!Arrived(c) :
        /\ ~S!Malformed(m)
        /\ \E sends \in S!Sends(c, S!ReadRequest(m)) :
             thread' = [thread EXCEPT ![c] = S!HasToSend(sends)]
  BY DEF S!Process
<1> DEFINE request == S!ReadRequest(m)
           n == Len(received[c])
<1>2. PICK sends \in S!Sends(c, request) : thread' = [thread EXCEPT ![c] = S!HasToSend(sends)]
  BY <1>1
<1>3. n + 1 \in DOMAIN typed[c] /\ m = Message(typed[c][n + 1])
  <2>1. n \in Nat
    BY LenProperties DEF TypesInv, ServerType, IsSeq
  <2>2. Clean(c, n + 1)
    BY DEF Undivided, ToSet, Clean
  <2>3. PendingInv(c)
    BY DEF RequestsInv
  <2> QED  BY <2>1, <2>2, <2>3, NextRequest
<1> HIDE DEF n
<1>4. IsLine(typed[c][n + 1]) /\ typed[c][n + 1].word \in DOMAIN Op
  BY <1>3, TypedBytesAre
<1>5. request = ReadRequest(m)
  BY SameRead
<1>6. request.op \in Ops \cup {0}
  <2>1. m \in Seq(Byte) /\ ~Malformed(m)
    BY <1>1, ArrivedIs, SameMalformed DEF TypesInv
  <2> QED  BY <1>5, <2>1, ReadFields
<1>7. /\ request.op = 4 => request.fields[1] \in OneByte /\ request.fields[2] \in Seq(Letter)
      /\ request.op \in {5, 6} => request.fields[1] \in Seq(Letter)
  BY <1>3, <1>4, <1>5, LineFields DEF OneByte
<1>8. connIds \subseteq Conn /\ <<>> \in Seq(Letter)
  BY EmptySeq DEF StreamsInv, LoggedInv
<1> HIDE DEF request
<1>9. sends \in Seq(Mine(c))
  BY <1>2, <1>6, <1>7, <1>8, SendsFrom DEF Mine
<1> QED  BY <1>2, <1>9

\* what is about to be sent
LEMMA NowClear ==
  ASSUME StreamsInv, NEW c \in Conn, Cleared(c), thread[c].step \in {"send", "flush"}
  PROVE  /\ S!Answer(c) \in Clear
         /\ S!Answer(c).kind # "NOTIFICATION" => S!Receiver(c) = c
         /\ IsTable(S!Answer(c)) => S!Receiver(c) = c
         /\ S!NextSend(c).sends \in Seq(Mine(c))
<1>1. thread[c].sends \in Seq(Mine(c)) /\ thread[c].sends # <<>>
  BY DEF Cleared, StreamsInv, ThreadsInv
<1>2. Head(thread[c].sends) \in Mine(c) /\ Tail(thread[c].sends) \in Seq(Mine(c))
  BY <1>1, HeadTailProperties
<1> QED  BY <1>2 DEF Mine, Mail, Clear, S!Answer, S!Receiver, S!NextSend, S!HasToSend, IsTable

\* the thread of c goes on with s, and has sent a to d, or nothing
LEMMA ClearOn ==
  ASSUME TypesInv, \A e \in Conn : Cleared(e), NEW c \in Conn, NEW d \in Conn, NEW a \in Clear,
         \A e \in Conn \ {c} : thread'[e] = thread[e],
         thread'[c].sends \in Seq(Mine(c)),
         sent' = sent \/ sent' = [sent EXCEPT ![d] = Append(sent[d], a)]
  PROVE  \A e \in Conn : Cleared(e)'
<1> SUFFICES ASSUME NEW e \in Conn
             PROVE  Cleared(e)'
  OBVIOUS
<1>1. thread'[e].sends \in Seq(Mine(e))
  BY DEF Cleared
<1>2. sent'[e] \in Seq(Clear)
  <2>1. sent[e] \in Seq(Clear) /\ Append(sent[e], a) \in Seq(Clear)
    BY DEF Cleared
  <2> QED  BY <2>1 DEF TypesInv, ServerType
<1>3. Mine(e)' = Mine(e)
  BY DEF Mine, Mail, AnswersFrom
<1> QED  BY <1>1, <1>2, <1>3 DEF Cleared

\* all answers remain of this kind
LEMMA ClearKept == TypesInv /\ StreamsInv /\ WiredInv /\ RequestsInv /\ ClearInv /\ [Next]_vars => ClearInv'
<1> SUFFICES ASSUME TypesInv, StreamsInv, WiredInv, RequestsInv, ClearInv, [Next]_vars, Undivided'
             PROVE  \A e \in Conn : Cleared(e)'
  BY DEF ClearInv
<1>0. Undivided /\ \A e \in Conn : Cleared(e)
  BY UndividedBefore DEF ClearInv
<1>1. ASSUME UNCHANGED <<thread, sent>>
      PROVE  \A e \in Conn : Cleared(e)'
  BY <1>0, <1>1 DEF Cleared
<1>2. ASSUME NEW c \in Conn, NEW t, thread' = [thread EXCEPT ![c] = t], t.sends \in Seq(Mine(c)), sent' = sent
      PROVE  \A e \in Conn : Cleared(e)'
  <2>1. Ack(1) \in Clear
    BY DEF Clear, AnswersFrom
  <2>2. (\A e \in Conn \ {c} : thread'[e] = thread[e]) /\ thread'[c] = t
    BY <1>2 DEF TypesInv, ServerType
  <2> QED  BY <1>0, <1>2, <2>1, <2>2, ClearOn
<1>3. ASSUME NEW c \in Conn, NEW step, thread' = [thread EXCEPT ![c].step = step], sent' = sent
      PROVE  \A e \in Conn : Cleared(e)'
  <2>1. [thread[c] EXCEPT !.step = step].sends = thread[c].sends
    BY DEF TypesInv, ServerType, Thread
  <2> QED  BY <1>0, <1>2, <1>3, <2>1 DEF Cleared
<1>4. ASSUME NEW c \in Conn, S!ThreadStep(c)
      PROVE  \A e \in Conn : Cleared(e)'
  <2>1. CASE S!OpenStreams(c) \/ S!ProcessThrows(c) \/ S!LogstatThrows(c) \/ S!ReadEnds(c)
    BY <1>3, <2>1 DEF S!OpenStreams, S!ProcessThrows, S!LogstatThrows, S!ReadEnds, S!historyVars
  <2>2. CASE S!Process(c)
    <3>1. PICK s \in Seq(Mine(c)) : thread' = [thread EXCEPT ![c] = S!HasToSend(s)]
      BY <1>0, <2>2, ProcessClear
    <3>2. S!HasToSend(s).sends = s /\ sent' = sent
      BY <2>2 DEF S!HasToSend, S!Process
    <3> QED  BY <1>2, <3>1, <3>2
  <2>3. CASE S!SendNowhere(c) \/ S!SendFlush(c) \/ S!SendFails(c)
    <3>1. thread[c].step \in {"send", "flush"} /\ thread' = [thread EXCEPT ![c] = S!NextSend(c)] /\ sent' = sent
      BY <2>3 DEF S!SendNowhere, S!SendFlush, S!SendFails, S!Sending, S!At, S!historyVars
    <3> QED  BY <1>0, <1>2, <3>1, NowClear
  <2>4. CASE S!SendWrite(c)
    <3>1. /\ thread[c].step = "send" /\ thread' = [thread EXCEPT ![c].step = "flush"] /\ S!Receiver(c) \in Conn
          /\ sent' = [sent EXCEPT ![S!Receiver(c)] = Append(sent[S!Receiver(c)], S!Answer(c))]
      BY <2>4 DEF S!SendWrite, S!Sending, S!At, S!Noted, S!Known
    <3>2. S!Answer(c) \in Clear
      BY <1>0, <3>1, NowClear
    <3>3. thread'[c].sends \in Seq(Mine(c)) /\ \A e \in Conn \ {c} : thread'[e] = thread[e]
      BY <1>0, <3>1 DEF TypesInv, ServerType, Thread, Cleared
    <3> QED  BY <1>0, <3>1, <3>2, <3>3, ClearOn
  <2>5. CASE S!SendLarge(c)
    <3>1. /\ thread[c].step = "send" /\ thread' = [thread EXCEPT ![c] = S!NextSend(c)]
          /\ S!IsTable(S!Answer(c))
          /\ sent' = [sent EXCEPT ![S!Receiver(c)] = Append(sent[S!Receiver(c)], S!Answer(c))]
      BY <2>5 DEF S!SendLarge, S!Sending, S!At, S!Noted
    <3>2. S!Answer(c) \in Clear /\ S!Receiver(c) = c /\ S!NextSend(c).sends \in Seq(Mine(c))
      BY <1>0, <3>1, NowClear, SameEncode
    <3>3. thread'[c].sends \in Seq(Mine(c)) /\ \A e \in Conn \ {c} : thread'[e] = thread[e]
      BY <3>1, <3>2 DEF TypesInv, ServerType
    <3> QED  BY <1>0, <3>1, <3>2, <3>3, ClearOn
  <2> QED  BY <1>4, <2>1, <2>2, <2>3, <2>4, <2>5 DEF S!ThreadStep
<1>5. CASE S!ServeStep
  BY <1>1, <1>3, <1>5 DEF S!ServeStep, S!AcceptFails, S!Accept, S!historyVars
<1>6. CASE ServerStep
  BY <1>4, <1>5, <1>6 DEF ServerStep, S!ServerStep
<1>7. CASE ~ServerStep
  BY <1>1, <1>7 DEF Next, ClientStep, Lose, serverVars, vars
<1> QED  BY <1>6, <1>7

\* at the start nothing is sent
LEMMA ClearStart == Init => ClearInv
<1> SUFFICES ASSUME Init, NEW c \in Conn
             PROVE  Cleared(c)
  BY DEF ClearInv
<1>1. thread[c].sends = <<>> /\ sent[c] = <<>>
  BY DEF Init, S!Init
<1> QED  BY <1>1, EmptySeq DEF Cleared

-----------------------------------------------------------------------------
(* Answers that are decoded *)

\* who is not connected reads nothing
IdleInv == \A c \in Conn : link[c] = "none" => reader[c].step = "none"

\* the bytes of the answers sent
SentBytes(c) == [i \in DOMAIN sent[c] |-> Encode(sent[c][i])]

\* s is what the client of c may read and what is still in the buffer of the server, or was lost
Stream(c, s) ==
  \E lost \in Seq(Byte) :
    /\ link[c] # "down" => lost = out[c]
    /\ s = toClient[c] \o lost

\* what comes to the client of c is x and the answers behind the m-th
Ahead(c, m, x) ==
  \E u \in Seq(Byte) : Joined(u, SentBytes(c), m, Len(sent[c])) /\ Stream(c, x \o u)

\* the client reads on, and there is something to come
Active(c) ==
  /\ process[c] = "running"
  /\ reader[c].step \notin {"done", "repeat"}
  /\ ~(link[c] = "down" /\ toClient[c] = <<>>)

\* the zeros of a table that has been printed
Trail(c) == IF printed[c] = <<>> THEN <<>> ELSE Zeros(sent[c][Len(printed[c])])

\* an answer comes next
Between(c) ==
  /\ reader[c].step \in {"none", "opCode"} /\ reader[c].answer = C!NoAnswer
  /\ Ahead(c, Len(printed[c]), Trail(c))

\* what is left of an answer comes next
Within(c) ==
  LET p == Len(printed[c])
      a == sent[c][p + 1]
      step == reader[c].step
  IN  /\ p < Len(sent[c])
      /\ step \in StepsOf(a)
      /\ reader[c].answer = Partial(step, a)
      /\ Ahead(c, p + 1, Left(step, a))

\* what is printed has been sent
Printed(c) ==
  /\ Len(printed[c]) <= Len(sent[c])
  /\ \A i \in 1 .. Len(printed[c]) : printed[c][i] = sent[c][i]

TableSent(c) == \E i \in DOMAIN sent[c] : IsTable(sent[c][i])

ReaderIn(c) ==
  /\ Printed(c)
  /\ Active(c) => Between(c) \/ Within(c)
  /\ process[c] = "misread" => TableSent(c)

ReaderInv == Undivided => \A c \in Conn : ReaderIn(c)

\* what a step that is not the reader's does to the stream of c: nothing that a reader
\* could see ...
StreamKept(c) == sent'[c] = sent[c] /\ \A s \in Seq(Byte) : Stream(c, s) => Stream(c, s)'

\* ... or an answer is written
StreamMore(c) ==
  \E a \in Answered :
    /\ sent' = [sent EXCEPT ![c] = Append(sent[c], a)]
    /\ \A s \in Seq(Byte) : Stream(c, s) => Stream(c, s \o Encode(a))'

\* the reader is where it was; or it starts
Elsewhere(c) ==
  /\ printed'[c] = printed[c]
  /\ process'[c] \in {process[c], "exited"}
  /\ \/ reader'[c] = reader[c]
     \/ link[c] = "none" /\ reader'[c] = [reader[c] EXCEPT !.step = "opCode"]
  /\ link[c] = "down" /\ toClient[c] = <<>> => link'[c] = "down" /\ toClient'[c] = <<>>
  /\ StreamKept(c) \/ StreamMore(c)

\* a stream stays as it is; what a server has still for one that is down is lost in any case
LEMMA StreamStill ==
  ASSUME NEW c \in Conn, toClient'[c] = toClient[c], sent'[c] = sent[c],
         link'[c] # "down" => link[c] # "down" /\ out'[c] = out[c]
  PROVE  StreamKept(c)
BY DEF StreamKept, Stream

\* a connection ends
LEMMA StreamCut ==
  ASSUME TypesInv, NEW c \in Conn, toClient'[c] \in Prefixes(toClient[c]), link'[c] = "down",
         sent'[c] = sent[c]
  PROVE  StreamKept(c)
<1> SUFFICES ASSUME NEW s \in Seq(Byte), Stream(c, s)
             PROVE  \E lost \in Seq(Byte) : s = toClient'[c] \o lost
  BY DEF StreamKept, Stream
<1>1. PICK lost \in Seq(Byte) : s = toClient[c] \o lost
  BY DEF Stream
<1> DEFINE x == toClient[c]
           p == toClient'[c]
<1>2. x \in Seq(Byte) /\ p \in Prefixes(x) /\ s = x \o lost
  BY <1>1 DEF TypesInv, WiresType
<1> SUFFICES \E more \in Seq(Byte) : s = p \o more
  OBVIOUS
<1> HIDE DEF x, p
<1>3. p \in Seq(Byte) /\ \E q \in Seq(Byte) : x = p \o q
  BY <1>2, PrefixOf, SMTT(30)
<1>4. PICK q \in Seq(Byte) : x = p \o q
  BY <1>3
<1>5. InAnyOrder(p, q, lost) /\ q \o lost \in Seq(Byte)
  BY <1>3, JoinOrder, JoinType, Zenon
<1> QED  BY <1>2, <1>4, <1>5 DEF InAnyOrder

\* the buffer goes to the socket
LEMMA StreamFlushed ==
  ASSUME TypesInv, NEW c \in Conn, link[c] = "up", toClient'[c] = toClient[c] \o out[c], out'[c] = <<>>,
         sent'[c] = sent[c]
  PROVE  StreamKept(c)
<1> SUFFICES ASSUME NEW s \in Seq(Byte), Stream(c, s)
             PROVE  s = toClient'[c] \o <<>>
  BY EmptySeq DEF StreamKept, Stream
<1>1. s = toClient[c] \o out[c]
  BY DEF Stream
<1> QED  BY <1>1, ConcatEmptySeq

\* an answer is written into the buffer
LEMMA StreamWritten ==
  ASSUME TypesInv, NEW c \in Conn, NEW a \in Answered, link'[c] = link[c], toClient'[c] = toClient[c],
         out'[c] = out[c] \o Encode(a), sent' = [sent EXCEPT ![c] = Append(sent[c], a)]
  PROVE  StreamMore(c)
<1> SUFFICES ASSUME NEW s \in Seq(Byte), Stream(c, s)
             PROVE  Stream(c, s \o Encode(a))'
  BY DEF StreamMore
<1>1. PICK lost \in Seq(Byte) : (link[c] # "down" => lost = out[c]) /\ s = toClient[c] \o lost
  BY DEF Stream
<1> DEFINE e == Encode(a)
<1>2. toClient[c] \in Seq(Byte) /\ e \in Seq(Byte)
  BY AnswerBytes DEF TypesInv, WiresType
<1> HIDE DEF e
<1>3. InAnyOrder(toClient[c], lost, e) /\ lost \o e \in Seq(Byte)
  BY <1>2, JoinOrder, JoinType, Zenon
<1>4. s \o e = toClient'[c] \o (lost \o e)
  BY <1>1, <1>3 DEF InAnyOrder
<1>5. link'[c] # "down" => lost \o e = out'[c]
  BY <1>1 DEF e
<1> QED  BY <1>3, <1>4, <1>5 DEF Stream, e

\* one that does not fit into the buffer is written behind it
LEMMA StreamPassed ==
  ASSUME TypesInv, NEW c \in Conn, NEW a \in Answered, link[c] = "up",
         toClient'[c] = toClient[c] \o out[c] \o Encode(a), out'[c] = <<>>,
         sent' = [sent EXCEPT ![c] = Append(sent[c], a)]
  PROVE  StreamMore(c)
<1> SUFFICES ASSUME NEW s \in Seq(Byte), Stream(c, s)
             PROVE  Stream(c, s \o Encode(a))'
  BY DEF StreamMore
<1>1. s = toClient[c] \o out[c]
  BY DEF Stream
<1>2. s \o Encode(a) = toClient'[c] /\ s \o Encode(a) \in Seq(Byte)
  BY <1>1, AnswerBytes, JoinType, Zenon
<1>3. (s \o Encode(a)) \o <<>> = s \o Encode(a)
  BY <1>2, ConcatEmptySeq
<1> QED  BY <1>2, <1>3, EmptySeq DEF Stream

\* every step but those of its reader
LEMMA Standing ==
  ASSUME TypesInv, StreamsInv, ClearInv, Undivided, [Next]_vars, NEW d \in Conn
  PROVE  Elsewhere(d) \/ (C!ReaderStep(d) /\ UNCHANGED serverVars)
<1>0. /\ \A s \in Seq(Byte) : /\ <<>> \in Prefixes(s)
                              /\ C!Prefixes(s) = Prefixes(s) /\ S!Prefixes(s) = Prefixes(s)
      /\ toClient[d] \in Seq(Byte) /\ DOMAIN toClient = Conn /\ DOMAIN link = Conn
  BY NothingArrives, SamePrefixes DEF TypesInv, WiresType
<1>1. ASSUME UNCHANGED <<link, toClient, process, reader, printed>>, UNCHANGED serverVars
      PROVE  Elsewhere(d)
  BY <1>1, StreamStill DEF Elsewhere, serverVars
<1>2. ASSUME NEW c \in Conn, C!Closed(c), UNCHANGED <<reader, printed>>, UNCHANGED serverVars,
             \A e \in Conn : process'[e] \in {process[e], "exited"}
      PROVE  Elsewhere(d)
  <2>1. StreamKept(d)
    <3>1. CASE c = d
      BY <1>0, <1>2, <3>1, StreamCut DEF C!Closed, serverVars
    <3>2. CASE c # d
      BY <1>0, <1>2, <3>2, StreamStill DEF C!Closed, serverVars
    <3> QED  BY <3>1, <3>2
  <2> QED  BY <1>0, <1>2, <2>1 DEF Elsewhere, C!Closed
<1>3. ASSUME NEW c \in Conn, C!MainStep(c), UNCHANGED serverVars
      PROVE  Elsewhere(d)
  <2>1. CASE C!Start(c)
    <3>1. StreamKept(d)
      BY <1>0, <1>3, <2>1, StreamStill DEF C!Start, serverVars
    <3>2. reader'[d] = reader[d] \/ (link[d] = "none" /\ reader'[d] = [reader[d] EXCEPT !.step = "opCode"])
      BY <2>1 DEF C!Start, TypesInv, ReadersType
    <3> QED  BY <1>0, <2>1, <3>1, <3>2 DEF Elsewhere, C!Start
  <2>2. CASE C!StartFails(c)
    <3>1. \A e \in Conn : process'[e] \in {process[e], "exited"}
      BY <2>2 DEF C!StartFails, TypesInv, ProgramsType
    <3>2. StreamKept(d)
      BY <1>3, <2>2, StreamStill DEF C!StartFails, C!wireVars, serverVars
    <3> QED  BY <2>2, <3>1, <3>2 DEF Elsewhere, C!StartFails, C!wireVars, C!readerVars
  <2>3. CASE C!Exit(c)
    <3>1. \A e \in Conn : process'[e] \in {process[e], "exited"}
      BY <2>3 DEF C!Exit, TypesInv, ProgramsType
    <3> QED  BY <1>2, <1>3, <2>3, <3>1 DEF C!Exit, C!readerVars
  <2> QED  BY <1>3, <2>1, <2>2, <2>3 DEF C!MainStep
<1>4. ASSUME NEW c \in Conn, C!UserStep(c) \/ C!KeyboardStep(c), UNCHANGED serverVars
      PROVE  Elsewhere(d)
  BY <1>1, <1>4 DEF C!UserStep, C!KeyboardStep, C!Type, C!InputEnds, C!TypeTooLong, C!SendLine,
                    C!KeyboardTest, C!GetNothing, C!WaitEnds, C!ResetLogout, C!wireVars, C!readerVars
<1>5. ASSUME NEW c \in Conn, Lose(c)
      PROVE  Elsewhere(d)
  <2>1. PICK s \in Prefixes(toClient[c]) : toClient' = [toClient EXCEPT ![c] = s]
    BY <1>5, SamePrefixes DEF Lose, C!Lose, C!ArrivesAtClient
  <2>2. /\ UNCHANGED <<process, reader, printed>> /\ UNCHANGED serverVars
        /\ link[c] = "up" /\ link' = [link EXCEPT ![c] = "down"]
    BY <1>5 DEF Lose, C!Lose, C!clientVars, C!readerVars
  <2>3. StreamKept(d)
    <3>1. CASE c = d
      BY <1>0, <2>1, <2>2, <3>1, StreamCut DEF serverVars
    <3>2. CASE c # d
      BY <1>0, <2>1, <2>2, <3>2, StreamStill DEF serverVars
    <3> QED  BY <3>1, <3>2
  <2> QED  BY <1>0, <2>1, <2>2, <2>3 DEF Elsewhere
<1>6. ASSUME NEW c \in Conn, C!ReaderStep(c), c # d, UNCHANGED serverVars
      PROVE  Elsewhere(d)
  <2>1. /\ process'[d] = process[d] /\ reader'[d] = reader[d] /\ printed'[d] = printed[d]
        /\ link'[d] = link[d] /\ toClient'[d] = toClient[d]
    BY <1>0, <1>6 DEF C!ReaderStep, C!DecodeOpcode, C!DecodeNothing, C!DecodeAck, C!DecodeError, C!PrintAnswer,
             C!DecodeBytes, C!DecodeFrame, C!FrameRepeats, C!FrameOfNothing, C!ReadFails, C!Consume, C!OnTo,
             C!Closed, C!wireVars, C!readerVars, TypesInv, ProgramsType, ReadersType
  <2>2. StreamKept(d)
    BY <1>6, <2>1, StreamStill DEF serverVars
  <2> QED  BY <2>1, <2>2 DEF Elsewhere
<1>7. CASE UNCHANGED vars
  BY <1>1, <1>7 DEF vars, wireVars, clientVars
<1>8. ASSUME ServerStep, StreamKept(d) \/ StreamMore(d),
             link[d] = "down" /\ toClient[d] = <<>> => link'[d] = "down" /\ toClient'[d] = <<>>
      PROVE  Elsewhere(d)
  BY <1>8 DEF Elsewhere, ServerStep, clientVars
<1>9. CASE ServerStep
  <2>1. ASSUME UNCHANGED <<link, toClient, out, sent>>
        PROVE  Elsewhere(d)
    BY <1>8, <1>9, <2>1, StreamStill
  <2>2. CASE S!ServeStep
    BY <2>1, <2>2 DEF S!ServeStep, S!AcceptFails, S!Accept, S!wireVars, S!historyVars
  <2>3. ASSUME NEW c \in Conn, S!ThreadStep(c)
        PROVE  Elsewhere(d)
    <3>1. CASE S!OpenStreams(c) \/ S!Process(c) \/ S!SendNowhere(c)
      BY <2>1, <3>1 DEF S!OpenStreams, S!Process, S!SendNowhere, S!wireVars, S!historyVars
    <3>2. CASE S!ProcessThrows(c) \/ S!LogstatThrows(c) \/ S!ReadEnds(c)
      <4>1. S!Closed(c) /\ out' = out /\ sent' = sent
        BY <3>2 DEF S!ProcessThrows, S!LogstatThrows, S!ReadEnds, S!historyVars
      <4>2. PICK s \in Prefixes(toClient[c]) : toClient' = [toClient EXCEPT ![c] = s]
        BY <4>1, SamePrefixes DEF S!Closed
      <4>3. link' = [link EXCEPT ![c] = "down"]
        BY <4>1 DEF S!Closed
      <4>4. toClient[c] = <<>> => s = <<>>
        <5>1. toClient[c] \in Seq(Byte)
          BY DEF TypesInv, WiresType
        <5> QED  BY <5>1 DEF Prefixes
      <4>5. StreamKept(d)
        <5>1. CASE c = d
          BY <1>0, <4>1, <4>2, <4>3, <5>1, StreamCut
        <5>2. CASE c # d
          BY <1>0, <4>1, <4>2, <4>3, <5>2, StreamStill
        <5> QED  BY <5>1, <5>2
      <4> QED  BY <1>0, <1>8, <1>9, <4>2, <4>3, <4>4, <4>5
    <3>3. CASE S!SendWrite(c)
      <4>1. /\ thread[c].step = "send" /\ S!Receiver(c) \in Conn /\ UNCHANGED <<link, toClient>>
            /\ out' = [out EXCEPT ![S!Receiver(c)] = out[S!Receiver(c)] \o S!Encode(S!Answer(c))]
            /\ sent' = [sent EXCEPT ![S!Receiver(c)] = Append(sent[S!Receiver(c)], S!Answer(c))]
        BY <3>3 DEF S!SendWrite, S!Sending, S!At, S!Noted, S!Known, S!wireVars
      <4>2. S!Answer(c) \in Answered /\ S!Encode(S!Answer(c)) = Encode(S!Answer(c))
        BY <4>1, NowSent
      <4>3. CASE S!Receiver(c) = d
        <5>1. StreamMore(d)
          BY <4>1, <4>2, <4>3, StreamWritten DEF TypesInv, ServerType
        <5> QED  BY <1>8, <1>9, <4>1, <5>1
      <4>4. CASE S!Receiver(c) # d
        <5>1. StreamKept(d)
          BY <4>1, <4>4, StreamStill DEF TypesInv, ServerType
        <5> QED  BY <1>8, <1>9, <4>1, <5>1
      <4> QED  BY <4>3, <4>4
    <3>4. CASE S!SendLarge(c)
      <4>1. /\ thread[c].step = "send" /\ S!IsTable(S!Answer(c)) /\ link[c] = "up" /\ link' = link
            /\ toClient' = [toClient EXCEPT ![c] = toClient[c] \o out[c] \o S!Encode(S!Answer(c))]
            /\ out' = [out EXCEPT ![c] = <<>>]
            /\ sent' = [sent EXCEPT ![S!Receiver(c)] = Append(sent[S!Receiver(c)], S!Answer(c))]
        BY <3>4 DEF S!SendLarge, S!Sending, S!At, S!Noted
      <4>2. S!Answer(c) \in Answered /\ S!Encode(S!Answer(c)) = Encode(S!Answer(c))
        BY <4>1, NowSent
      <4>3. S!Receiver(c) = c
        BY <4>1, NowClear, SameEncode DEF ClearInv
      <4>4. CASE c = d
        <5>1. StreamMore(d)
          BY <1>0, <4>1, <4>2, <4>3, <4>4, StreamPassed DEF TypesInv, ServerType
        <5> QED  BY <1>8, <1>9, <4>1, <4>4, <5>1
      <4>5. CASE c # d
        <5>1. StreamKept(d)
          BY <1>0, <4>1, <4>3, <4>5, StreamStill DEF TypesInv, ServerType
        <5> QED  BY <1>0, <1>8, <1>9, <4>1, <4>5, <5>1
      <4> QED  BY <4>4, <4>5
    <3>5. CASE S!SendFlush(c)
      <4>1. /\ S!Receiver(c) \in Conn /\ link[S!Receiver(c)] = "up" /\ link' = link /\ sent' = sent
            /\ toClient' = [toClient EXCEPT ![S!Receiver(c)] = toClient[S!Receiver(c)] \o out[S!Receiver(c)]]
            /\ out' = [out EXCEPT ![S!Receiver(c)] = <<>>]
        BY <3>5 DEF S!SendFlush, S!At, S!historyVars, TypesInv, ServerType
      <4>2. CASE S!Receiver(c) = d
        <5>1. StreamKept(d)
          BY <1>0, <4>1, <4>2, StreamFlushed DEF TypesInv, ServerType
        <5> QED  BY <1>8, <1>9, <4>1, <4>2, <5>1
      <4>3. CASE S!Receiver(c) # d
        <5>1. StreamKept(d)
          BY <1>0, <4>1, <4>3, StreamStill DEF TypesInv, ServerType
        <5> QED  BY <1>0, <1>8, <1>9, <4>1, <4>3, <5>1
      <4> QED  BY <4>2, <4>3
    <3>6. CASE S!SendFails(c)
      <4>1. /\ link[S!Receiver(c)] = "down" /\ UNCHANGED <<link, toClient, sent>>
            /\ out' = [out EXCEPT ![S!Receiver(c)] = <<>>]
        BY <3>6 DEF S!SendFails, S!wireVars, S!historyVars
      <4>2. StreamKept(d)
        BY <4>1, StreamStill DEF TypesInv, ServerType
      <4> QED  BY <1>8, <1>9, <4>1, <4>2
    <3> QED  BY <2>3, <3>1, <3>2, <3>3, <3>4, <3>5, <3>6 DEF S!ThreadStep
  <2> QED  BY <1>9, <2>2, <2>3 DEF ServerStep, S!ServerStep
<1>10. ASSUME NEW c \in Conn, ClientStep(c)
       PROVE  Elsewhere(d) \/ (C!ReaderStep(d) /\ UNCHANGED serverVars)
  BY <1>3, <1>4, <1>6, <1>10 DEF ClientStep, C!ClientStep
<1> QED  BY <1>5, <1>7, <1>9, <1>10 DEF Next

\* who is not connected still reads nothing
LEMMA IdleKept == TypesInv /\ IdleInv /\ [Next]_vars => IdleInv'
<1> SUFFICES ASSUME TypesInv, IdleInv, [Next]_vars, NEW c \in Conn, link'[c] = "none"
             PROVE  reader'[c].step = "none"
  BY DEF IdleInv
<1>1. link[c] = "none" /\ reader[c].step = "none"
  BY NeverConnected DEF IdleInv
<1>2. \/ reader' = reader
      \/ \E d \in Conn : C!Start(d)
      \/ \E d \in Conn : C!ReaderStep(d)
  BY DEF Next, vars, clientVars, ServerStep, ClientStep, Lose, C!Lose, C!clientVars, C!readerVars,
         C!ClientStep, C!MainStep, C!UserStep, C!KeyboardStep, C!StartFails, C!Exit, C!Type,
         C!TypeTooLong, C!InputEnds, C!GetNothing, C!SendLine, C!KeyboardTest, C!WaitEnds, C!ResetLogout
<1>3. ASSUME NEW d \in Conn, C!ReaderStep(d)
      PROVE  reader'[c] = reader[c]
  <2>1. reader[d].step # "none"
    BY <1>3 DEF C!ReaderStep, C!DecodeOpcode, C!DecodeNothing, C!DecodeAck, C!DecodeError, C!PrintAnswer,
                C!DecodeBytes, C!DecodeFrame, C!FrameRepeats, C!FrameOfNothing, C!ReadFails, C!CanGet,
                C!CutFrame, C!ReaderAt, C!Frames, C!Size
  <2>2. c # d
    BY <1>1, <2>1
  <2> QED
    BY <1>3, <2>2 DEF C!ReaderStep, C!DecodeOpcode, C!DecodeNothing, C!DecodeAck, C!DecodeError, C!PrintAnswer,
                C!DecodeBytes, C!DecodeFrame, C!FrameRepeats, C!FrameOfNothing, C!ReadFails, C!OnTo, C!readerVars,
                TypesInv, ReadersType
<1>4. ASSUME NEW d \in Conn, C!Start(d)
      PROVE  reader'[c] = reader[c]
  <2>1. c # d
    BY <1>4 DEF C!Start, TypesInv, WiresType
  <2> QED  BY <1>4, <2>1 DEF C!Start, TypesInv, ReadersType
<1> QED  BY <1>1, <1>2, <1>3, <1>4

\* ... nor at the start
LEMMA IdleStart == Init => IdleInv
BY DEF Init, C!Init, IdleInv

\* what comes to a client still comes to it, and the new answers behind it
LEMMA AheadKept ==
  ASSUME TypesInv, NEW d \in Conn, StreamKept(d) \/ StreamMore(d),
         NEW m \in Nat, m <= Len(sent[d]), NEW x \in Seq(Byte), Ahead(d, m, x)
  PROVE  Ahead(d, m, x)'
<1>1. PICK u \in Seq(Byte) : Joined(u, SentBytes(d), m, Len(sent[d])) /\ Stream(d, x \o u)
  BY DEF Ahead
<1>2. x \o u \in Seq(Byte)
  BY JoinType, Zenon
<1>3. CASE StreamKept(d)
  <2>1. Stream(d, x \o u)'
    BY <1>1, <1>2, <1>3 DEF StreamKept
  <2> QED  BY <1>1, <1>3, <2>1 DEF StreamKept, Ahead, SentBytes
<1>4. CASE StreamMore(d)
  <2>1. PICK a \in Answered :
          /\ sent' = [sent EXCEPT ![d] = Append(sent[d], a)]
          /\ \A s \in Seq(Byte) : Stream(d, s) => Stream(d, s \o Encode(a))'
    BY <1>4 DEF StreamMore
  <2> DEFINE e == Encode(a)
             n == Len(sent[d])
  <2>2. e \in Seq(Byte)
    BY AnswerBytes
  <2>3. sent[d] \in Seq(Answered) /\ sent'[d] = Append(sent[d], a) /\ n \in Nat
    BY <2>1, LenProperties DEF TypesInv, ServerType
  <2>4. Len(sent'[d]) = n + 1 /\ sent'[d][n + 1] = a /\ \A i \in 1 .. n : sent'[d][i] = sent[d][i]
    BY <2>3
  <2>5. \A i \in m + 1 .. n : SentBytes(d)[i] \in Seq(Byte) /\ SentBytes(d)'[i] = SentBytes(d)[i]
    <3>1. \A i \in 1 .. n : sent[d][i] \in Answered /\ i \in DOMAIN sent[d] /\ i \in DOMAIN sent'[d]
      BY <2>3, <2>4
    <3> QED  BY <2>3, <2>4, <3>1, AnswerBytes DEF SentBytes
  <2>6. SentBytes(d)'[n + 1] = e
    BY <2>3, <2>4 DEF SentBytes
  <2> HIDE DEF e
  <2>7. Joined(u \o e, SentBytes(d)', m, n + 1)
    BY <1>1, <2>2, <2>3, <2>5, <2>6, JoinedMore
  <2>8. Stream(d, (x \o u) \o e)'
    BY <1>1, <1>2, <2>1 DEF e
  <2>9. InAnyOrder(x, u, e) /\ u \o e \in Seq(Byte)
    BY <2>2, JoinOrder, JoinType, Zenon
  <2>10. Stream(d, x \o (u \o e))'
    BY <2>8, <2>9 DEF InAnyOrder
  <2> QED  BY <2>4, <2>7, <2>9, <2>10 DEF Ahead
<1> QED  BY <1>3, <1>4

\* the steps of an answer
LEMMA StepsAre ==
  ASSUME NEW a
  PROVE  /\ StepsOf(a) \subseteq C!Frames \cup DOMAIN C!Size
         /\ \A step \in {"none", "opCode", "done", "repeat"} : step \notin StepsOf(a)
         /\ \A step \in C!Frames : step \notin DOMAIN C!Size
BY DEF StepsOf, C!Frames, C!Size

\* the zeros behind what is printed
LEMMA TrailIs ==
  ASSUME TypesInv, NEW d \in Conn, Printed(d)
  PROVE  /\ Trail(d) \in {<<>>, Padding} /\ Trail(d) \in Seq(Byte)
         /\ Len(printed[d]) \in Nat
         /\ printed[d] # <<>> => Len(printed[d]) \in DOMAIN sent[d]
<1>1. Len(printed[d]) \in Nat /\ (printed[d] # <<>> => Len(printed[d]) >= 1)
  <2>1. PICK T : printed[d] \in Seq(T)
    BY DEF TypesInv, ReadersType, IsSeq
  <2> QED  BY <2>1, LenProperties, EmptySeq
<1>2. Trail(d) \in {<<>>, Padding}
  BY DEF Trail, Zeros
<1>3. Trail(d) \in Seq(Byte)
  BY <1>2, Bytes
<1>4. printed[d] # <<>> => Len(printed[d]) \in DOMAIN sent[d]
  <2>1. sent[d] \in Seq(Answered)
    BY DEF TypesInv, ServerType
  <2> QED  BY <1>1, <2>1, LenProperties DEF Printed
<1> QED  BY <1>1, <1>2, <1>3, <1>4

\* a step of somebody else leaves the reader where it is
LEMMA ElsewhereKept ==
  ASSUME TypesInv, IdleInv, NEW d \in Conn, Cleared(d), ReaderIn(d), Elsewhere(d)
  PROVE  ReaderIn(d)'
<1> DEFINE p == Len(printed[d])
           n == Len(sent[d])
<1>1. sent[d] \in Seq(Answered) /\ n \in Nat /\ p \in Nat /\ p <= n
  BY TrailIs, LenProperties DEF TypesInv, ServerType, ReaderIn, Printed
<1>2. n <= Len(sent'[d]) /\ Len(sent'[d]) \in Nat /\ \A i \in 1 .. n : sent'[d][i] = sent[d][i]
  <2>1. CASE sent'[d] = sent[d]
    BY <1>1, <2>1
  <2>2. ASSUME NEW a \in Answered, sent' = [sent EXCEPT ![d] = Append(sent[d], a)]
        PROVE  n <= Len(sent'[d]) /\ Len(sent'[d]) \in Nat /\ \A i \in 1 .. n : sent'[d][i] = sent[d][i]
    <3>1. sent'[d] = Append(sent[d], a)
      BY <2>2 DEF TypesInv, ServerType
    <3> QED  BY <1>1, <3>1
  <2> QED  BY <2>1, <2>2 DEF Elsewhere, StreamKept, StreamMore
<1>3. printed'[d] = printed[d]
  BY DEF Elsewhere
<1>4. Printed(d)'
  <2>1. p <= Len(sent'[d])
    BY <1>1, <1>2
  <2>2. \A i \in 1 .. p : printed[d][i] = sent'[d][i]
    BY <1>1, <1>2 DEF ReaderIn, Printed
  <2> QED  BY <1>3, <2>1, <2>2 DEF Printed
<1>5. TableSent(d) => TableSent(d)'
  <2>1. \A i \in DOMAIN sent[d] : i \in DOMAIN sent'[d] /\ sent'[d][i] = sent[d][i]
    <3>1. sent'[d] \in Seq(Answered)
      <4>1. CASE sent'[d] = sent[d]
        BY <1>1, <4>1
      <4>2. ASSUME NEW a \in Answered, sent' = [sent EXCEPT ![d] = Append(sent[d], a)]
            PROVE  sent'[d] \in Seq(Answered)
        <5>1. sent'[d] = Append(sent[d], a)
          BY <4>2 DEF TypesInv, ServerType
        <5> QED  BY <1>1, <5>1
      <4> QED  BY <4>1, <4>2 DEF Elsewhere, StreamKept, StreamMore
    <3>2. DOMAIN sent[d] = 1 .. n /\ DOMAIN sent'[d] = 1 .. Len(sent'[d])
      BY <1>1, <3>1, LenProperties
    <3> QED  BY <1>1, <1>2, <3>2
  <2> QED  BY <2>1 DEF TableSent
<1>6. process'[d] = "misread" => TableSent(d)'
  BY <1>5 DEF Elsewhere, ReaderIn
<1>7. reader'[d].answer = reader[d].answer
      /\ (reader'[d].step = reader[d].step \/ (reader[d].step = "none" /\ reader'[d].step = "opCode"))
  <2>1. PICK A : reader[d] \in [step : C!ReaderSteps, answer : A]
    BY DEF TypesInv, ReadersType, IsReader
  <2> QED  BY <2>1 DEF Elsewhere, IdleInv
<1>8. Active(d)' => Active(d)
  BY <1>7 DEF Active, Elsewhere
<1>9. CASE Between(d)
  <2>1. Trail(d)' = Trail(d)
    <3>1. printed[d] # <<>> => p \in 1 .. n
      BY <1>1, TrailIs, LenProperties DEF ReaderIn
    <3> QED  BY <1>2, <1>3, <3>1 DEF Trail
  <2>2. PICK x : x = Trail(d)
    OBVIOUS
  <2>3. PICK m : m = p
    OBVIOUS
  <2>4. x \in Seq(Byte)
    BY <2>2, TrailIs DEF ReaderIn
  <2>5. Ahead(d, m, x)
    BY <1>9, <2>2, <2>3 DEF Between
  <2>6. Ahead(d, m, x)'
    BY <1>1, <2>3, <2>4, <2>5, AheadKept DEF Elsewhere
  <2>7. Ahead(d, Len(printed[d]), Trail(d))'
    BY <1>3, <2>1, <2>2, <2>3, <2>6
  <2> QED  BY <1>4, <1>6, <1>7, <1>9, <2>7 DEF ReaderIn, Between
<1>10. CASE Within(d)
  <2> DEFINE step == reader[d].step
             a == sent[d][p + 1]
  <2>1. /\ p < n /\ step \in StepsOf(a) /\ reader[d].answer = Partial(step, a)
        /\ Ahead(d, p + 1, Left(step, a))
    BY <1>10 DEF Within
  <2>2. a \in Clear
    BY <1>1, <2>1 DEF Cleared
  <2>3. PICK x : x = Left(step, a)
    OBVIOUS
  <2>4. x \in Seq(Byte)
    BY <2>1, <2>2, <2>3, Anatomies DEF Anatomy
  <2>5. PICK m : m = p + 1
    OBVIOUS
  <2>6. Ahead(d, m, x)'
    <3>1. m \in Nat /\ m <= n
      BY <1>1, <2>1, <2>5
    <3>2. Ahead(d, m, x)
      BY <2>1, <2>3, <2>5
    <3> QED  BY <2>4, <3>1, <3>2, AheadKept DEF Elsewhere
  <2>7. reader'[d].step = step /\ sent'[d][p + 1] = a
    BY <1>1, <1>2, <1>7, <2>1, StepsAre, SMTT(60)
  <2>8. /\ p < Len(sent'[d]) /\ reader'[d].step \in StepsOf(a)
        /\ reader'[d].answer = Partial(reader'[d].step, a)
    BY <1>1, <1>2, <1>7, <2>1, <2>7
  <2>9. Ahead(d, Len(printed[d]) + 1, Left(reader[d].step, sent[d][Len(printed[d]) + 1]))'
    BY <1>3, <2>3, <2>5, <2>6, <2>7
  <2>10. Within(d)'
    BY <1>3, <2>7, <2>8, <2>9 DEF Within
  <2> QED  BY <1>4, <1>6, <2>10 DEF ReaderIn
<1> QED  BY <1>4, <1>6, <1>8, <1>9, <1>10 DEF ReaderIn

\* a piece of what comes is read: the rest of it comes next
LEMMA PieceRead ==
  ASSUME TypesInv, NEW c \in Conn, NEW m, NEW u \in Seq(Byte), NEW v \in Seq(Byte), NEW x, x = u \o v,
         Ahead(c, m, x), Len(u) <= Len(toClient[c])
  PROVE  /\ SubSeq(toClient[c], 1, Len(u)) = u
         /\ C!Consume(c, Len(u)) /\ UNCHANGED <<link, out, sent>> => Ahead(c, m, v)'
<1>1. PICK t \in Seq(Byte) : Joined(t, SentBytes(c), m, Len(sent[c])) /\ Stream(c, x \o t)
  BY DEF Ahead
<1>2. PICK lost \in Seq(Byte) : (link[c] # "down" => lost = out[c]) /\ x \o t = toClient[c] \o lost
  BY <1>1 DEF Stream
<1> DEFINE s == toClient[c]
<1>3. s \in Seq(Byte) /\ Begins(s, lost, u \o v, t) /\ Len(u) <= Len(s)
  BY <1>2 DEF TypesInv, WiresType, Begins
<1> DEFINE r == SubSeq(s, Len(u) + 1, Len(s))
<1> HIDE DEF s
<1>4. SubSeq(s, 1, Len(u)) = u /\ Begins(r, lost, v, t)
  BY <1>3, PieceOf
<1>5. ASSUME C!Consume(c, Len(u)), UNCHANGED <<link, out, sent>>
      PROVE  Ahead(c, m, v)'
  <2>1. toClient'[c] = r
    BY <1>5 DEF s, C!Consume, TypesInv, WiresType
  <2>2. v \o t = toClient'[c] \o lost
    BY <1>4, <2>1 DEF Begins
  <2>3. link'[c] # "down" => lost = out'[c]
    BY <1>2, <1>5
  <2>4. Joined(t, SentBytes(c)', m, Len(sent'[c]))
    BY <1>1, <1>5 DEF SentBytes
  <2> QED  BY <2>2, <2>3, <2>4 DEF Ahead, Stream
<1> QED  BY <1>4, <1>5 DEF s

\* where getFrameAscii finds the NUL
LEMMA FrameEndIs ==
  ASSUME TypesInv, NEW c \in Conn, C!FrameEnd(c) # 0
  PROVE  C!FrameEnd(c) = IndexOf(toClient[c], NUL) /\ Contains(toClient[c], NUL)
<1> DEFINE s == toClient[c]
           I == {i \in 1 .. Len(s) : s[i] = NUL}
<1>1. C!FrameEnd(c) = IF I = {} THEN 0 ELSE C!Min(I)
  BY DEF C!FrameEnd, C!SelectInSeq, C!NUL, NUL
<1>2. IndexOf(s, NUL) = IF I = {} THEN 0 ELSE Min(I)
  BY DEF IndexOf, SelectInSeq
<1>3. C!Min(I) = Min(I)
  BY DEF C!Min, Min
<1> QED  BY <1>1, <1>2, <1>3 DEF Contains

\* ... and so it is with a string
LEMMA StringRead ==
  ASSUME TypesInv, NEW c \in Conn, NEW m, NEW u \in Seq(Byte), NEW v \in Seq(Byte),
         NEW x, x = (u \o <<NUL>>) \o v, ~Contains(u, NUL), Ahead(c, m, x), C!FrameEnd(c) # 0
  PROVE  /\ SubSeq(toClient[c], 1, C!FrameEnd(c) - 1) = u
         /\ C!Consume(c, C!FrameEnd(c)) /\ UNCHANGED <<link, out, sent>> => Ahead(c, m, v)'
<1>1. PICK t \in Seq(Byte) : Joined(t, SentBytes(c), m, Len(sent[c])) /\ Stream(c, x \o t)
  BY DEF Ahead
<1>2. PICK lost \in Seq(Byte) : (link[c] # "down" => lost = out[c]) /\ x \o t = toClient[c] \o lost
  BY <1>1 DEF Stream
<1> DEFINE s == toClient[c]
           b == NUL
<1>3. s \in Seq(Byte) /\ Begins(s, lost, (u \o <<b>>) \o v, t)
  BY <1>2 DEF TypesInv, WiresType, Begins
<1>4. C!FrameEnd(c) = IndexOf(s, b) /\ Contains(s, b) /\ ~Contains(u, b)
  BY FrameEndIs
<1>5. b \in Byte
  BY DEF NUL, Byte
<1> DEFINE r == SubSeq(s, Len(u) + 2, Len(s))
<1> HIDE DEF s, b
<1>6. IndexOf(s, b) = Len(u) + 1 /\ SubSeq(s, 1, Len(u)) = u /\ Begins(r, lost, v, t)
  BY <1>3, <1>4, <1>5, StringOf
<1>7. Len(u) \in Nat
  BY LenProperties
<1>8. C!FrameEnd(c) - 1 = Len(u) /\ C!FrameEnd(c) + 1 = Len(u) + 2
  BY <1>4, <1>6, <1>7
<1>9. ASSUME C!Consume(c, C!FrameEnd(c)), UNCHANGED <<link, out, sent>>
      PROVE  Ahead(c, m, v)'
  <2>1. toClient'[c] = r
    BY <1>8, <1>9 DEF s, C!Consume, TypesInv, WiresType
  <2>2. v \o t = toClient'[c] \o lost
    BY <1>6, <2>1 DEF Begins
  <2>3. link'[c] # "down" => lost = out'[c]
    BY <1>2, <1>9
  <2>4. Joined(t, SentBytes(c)', m, Len(sent'[c]))
    BY <1>1, <1>9 DEF SentBytes
  <2> QED  BY <2>2, <2>3, <2>4 DEF Ahead, Stream
<1> QED  BY <1>6, <1>8, <1>9 DEF s

\* the reader has something to read, and knows where it is
LEMMA ReadingIs ==
  ASSUME NEW c \in Conn, ReaderIn(c), NEW step \in C!Frames \cup DOMAIN C!Size, C!ReaderAt(c, step),
         toClient[c] # <<>>
  PROVE  IF step = "opCode" THEN Between(c) ELSE Within(c)
<1>1. step \notin {"none", "done", "repeat"} /\ process[c] = "running" /\ reader[c].step = step
  BY DEF C!Frames, C!Size, C!ReaderAt
<1>2. Between(c) \/ Within(c)
  BY <1>1 DEF Active, ReaderIn
<1>3. Between(c) => step = "opCode"
  BY <1>1 DEF Between
<1>4. Within(c) => step # "opCode"
  BY <1>1, StepsAre DEF Within
<1> QED  BY <1>2, <1>3, <1>4

\* it reads on
LEMMA WithinOn ==
  ASSUME TypesInv, NEW c \in Conn, Printed(c), Len(printed[c]) < Len(sent[c]),
         process'[c] = "running", UNCHANGED <<printed, sent>>,
         NEW a, a = sent[c][Len(printed[c]) + 1],
         NEW next \in StepsOf(a), NEW answer, answer = Partial(next, a), C!OnTo(c, next, answer),
         NEW m, m = Len(printed[c]) + 1, Ahead(c, m, Left(next, a))'
  PROVE  ReaderIn(c)'
<1>1. Printed(c)'
  BY DEF Printed
<1>2. reader'[c].step = next /\ reader'[c].answer = answer
  BY DEF C!OnTo, TypesInv, ReadersType
<1>3. Within(c)'
  BY <1>2 DEF Within
<1> QED  BY <1>1, <1>3 DEF ReaderIn

\* an answer that is decoded
LEMMA WithinIs ==
  ASSUME TypesInv, NEW c \in Conn, Cleared(c), Within(c)
  PROVE  /\ Len(printed[c]) \in Nat /\ Len(printed[c]) < Len(sent[c])
         /\ sent[c][Len(printed[c]) + 1] \in Clear
<1>1. PICK T : printed[c] \in Seq(T)
  BY DEF TypesInv, ReadersType, IsSeq
<1>2. Len(printed[c]) \in Nat /\ Len(printed[c]) < Len(sent[c])
  BY <1>1, LenProperties DEF Within
<1>3. sent[c] \in Seq(Clear) /\ Len(sent[c]) \in Nat
  BY LenProperties DEF Cleared
<1>4. Len(printed[c]) + 1 \in 1 .. Len(sent[c])
  BY <1>2, <1>3
<1> QED  BY <1>2, <1>3, <1>4, ElementOfSeq

\* some bytes of an answer are read
LEMMA BytesOn ==
  ASSUME TypesInv, NEW c \in Conn, Cleared(c), ReaderIn(c),
         NEW step \in DOMAIN C!Size \ {"opCode", "last"}, C!CanGet(c, step), C!Consume(c, C!Size[step]),
         UNCHANGED <<link, process, printed>>, UNCHANGED serverVars,
         NEW next, NEW answer, C!OnTo(c, next, answer),
         \A a, u : u = C!Got(c, step) /\ BytesAt(step, a, u) =>
                     next = NextStep(step, a) /\ answer = Decoded(step, reader[c].answer, u)
  PROVE  ReaderIn(c)'
<1>1. C!Size[step] \in {1, 2, 8} /\ C!ReaderAt(c, step) /\ Len(toClient[c]) >= C!Size[step]
  BY DEF C!Size, C!CanGet
<1>2. toClient[c] # <<>>
  BY <1>1
<1>3. Within(c)
  BY <1>1, <1>2, ReadingIs
<1>4. PICK m : m = Len(printed[c]) + 1
  OBVIOUS
<1>5. PICK a : a = sent[c][m]
  OBVIOUS
<1>6. a \in Clear /\ step \in StepsOf(a) /\ reader[c].answer = Partial(step, a) /\ Ahead(c, m, Left(step, a))
  BY <1>1, <1>3, <1>4, <1>5, WithinIs DEF Within, C!ReaderAt
<1>7. \A i \in StepsOf(a) : Left(i, a) \in Seq(Byte)
  BY <1>6, Anatomies DEF Anatomy
<1>8. PICK u : BytesAt(step, a, u)
  BY <1>6, Anatomies, StepsAre DEF Anatomy
<1>9. /\ u \in Seq(Byte) /\ Len(u) = C!Size[step] /\ NextStep(step, a) \in StepsOf(a)
      /\ Left(step, a) = u \o Left(NextStep(step, a), a)
      /\ Partial(NextStep(step, a), a) = Decoded(step, Partial(step, a), u)
  BY <1>8 DEF BytesAt
<1>10. PICK v : v = Left(NextStep(step, a), a)
  OBVIOUS
<1>11. PICK x : x = Left(step, a)
  OBVIOUS
<1>12. v \in Seq(Byte) /\ x = u \o v /\ Ahead(c, m, x) /\ Len(u) <= Len(toClient[c])
  BY <1>1, <1>6, <1>7, <1>9, <1>10, <1>11
<1>13. SubSeq(toClient[c], 1, Len(u)) = u
       /\ (C!Consume(c, Len(u)) /\ UNCHANGED <<link, out, sent>> => Ahead(c, m, v)')
  BY <1>9, <1>12, PieceRead
<1>14. Ahead(c, m, v)'
  BY <1>9, <1>13 DEF serverVars
<1>15. C!Got(c, step) = u
  BY <1>9, <1>13 DEF C!Got
<1>16. next = NextStep(step, a) /\ answer = Decoded(step, reader[c].answer, u)
  BY <1>8, <1>15
<1>17. /\ next \in StepsOf(a) /\ answer = Partial(next, a) /\ v = Left(next, a)
       /\ a = sent[c][Len(printed[c]) + 1]
  BY <1>4, <1>5, <1>6, <1>9, <1>10, <1>16
<1>18. Printed(c) /\ Len(printed[c]) < Len(sent[c]) /\ process'[c] = "running" /\ UNCHANGED <<printed, sent>>
  BY <1>1, <1>3 DEF ReaderIn, Within, C!ReaderAt, serverVars
<1> QED  BY <1>4, <1>14, <1>17, <1>18, WithinOn

\* a string is read
LEMMA StringOn ==
  ASSUME TypesInv, NEW c \in Conn, Cleared(c), ReaderIn(c), NEW step \in C!Frames, C!DecodeFrame(c, step),
         UNCHANGED serverVars
  PROVE  ReaderIn(c)'
<1>1. /\ C!ReaderAt(c, step) /\ C!FrameEnd(c) # 0 /\ C!Consume(c, C!FrameEnd(c))
      /\ UNCHANGED <<link, process, printed>>
  BY DEF C!DecodeFrame
<1>2. toClient[c] # <<>>
  BY <1>1, FrameEndIs DEF Contains
<1>3. Within(c)
  BY <1>1, <1>2, ReadingIs DEF C!Frames
<1>4. PICK m : m = Len(printed[c]) + 1
  OBVIOUS
<1>5. PICK a : a = sent[c][m]
  OBVIOUS
<1>6. a \in Clear /\ step \in StepsOf(a) /\ reader[c].answer = Partial(step, a) /\ Ahead(c, m, Left(step, a))
  BY <1>1, <1>3, <1>4, <1>5, WithinIs DEF Within, C!ReaderAt
<1>7. \A i \in StepsOf(a) : Left(i, a) \in Seq(Byte)
  BY <1>6, Anatomies DEF Anatomy
<1>8. PICK u : StringAt(step, a, u)
  BY <1>6, Anatomies DEF Anatomy
<1>9. /\ u \in Seq(Byte) /\ ~Contains(u, NUL) /\ NextStep(step, a) \in StepsOf(a)
      /\ Left(step, a) = (u \o <<NUL>>) \o Left(NextStep(step, a), a)
      /\ Partial(NextStep(step, a), a) = Decoded(step, Partial(step, a), u)
  BY <1>8 DEF StringAt
<1>10. PICK v : v = Left(NextStep(step, a), a)
  OBVIOUS
<1>11. PICK x : x = Left(step, a)
  OBVIOUS
<1>12. v \in Seq(Byte) /\ x = (u \o <<NUL>>) \o v /\ Ahead(c, m, x)
  BY <1>6, <1>7, <1>9, <1>10, <1>11
<1>13. SubSeq(toClient[c], 1, C!FrameEnd(c) - 1) = u
       /\ (C!Consume(c, C!FrameEnd(c)) /\ UNCHANGED <<link, out, sent>> => Ahead(c, m, v)')
  BY <1>1, <1>9, <1>12, StringRead
<1>14. Ahead(c, m, v)'
  BY <1>1, <1>13 DEF serverVars
<1> DEFINE next == C!After[step]
           answer == C!Field(c, u)
<1>15. C!OnTo(c, next, answer)
  BY <1>13 DEF C!DecodeFrame
<1>16. next = NextStep(step, a) /\ answer = Decoded(step, reader[c].answer, u)
  BY DEF C!Frames, NextStep, Decoded, C!Field
<1> HIDE DEF next, answer
<1>17. /\ next \in StepsOf(a) /\ answer = Partial(next, a) /\ v = Left(next, a)
       /\ a = sent[c][Len(printed[c]) + 1]
  BY <1>4, <1>5, <1>6, <1>9, <1>10, <1>16
<1>18. Printed(c) /\ Len(printed[c]) < Len(sent[c]) /\ process'[c] = "running" /\ UNCHANGED <<printed, sent>>
  BY <1>1, <1>3 DEF ReaderIn, Within, C!ReaderAt, serverVars
<1>19. PICK i : i = next
  OBVIOUS
<1>20. PICK f : f = answer
  OBVIOUS
<1>21. i \in StepsOf(a) /\ f = Partial(i, a) /\ v = Left(i, a) /\ C!OnTo(c, i, f)
  BY <1>15, <1>17, <1>19, <1>20
<1> QED  BY <1>4, <1>14, <1>17, <1>18, <1>21, WithinOn

\* the opcode of an ACK, that of an ERROR, and other bytes
LEMMA PartsOn ==
  ASSUME TypesInv, NEW c \in Conn, Cleared(c), ReaderIn(c), UNCHANGED serverVars,
         \/ C!DecodeAck(c) \/ C!DecodeError(c)
         \/ \E step \in {"stat", "action", "extra", "arguments"} : C!DecodeBytes(c, step)
  PROVE  ReaderIn(c)'
<1>1. CASE C!DecodeAck(c)
  <2> DEFINE op == C!Number(C!Got(c, "messageOpcode"))
             next == CASE op = 4 -> "action" [] op \in {7, 8} -> "arguments" [] OTHER -> "last"
             answer == [reader[c].answer EXCEPT !.op = op]
  <2>1. PICK i : i = next
    OBVIOUS
  <2>2. PICK f : f = answer
    OBVIOUS
  <2>3. /\ C!CanGet(c, "messageOpcode") /\ C!Consume(c, C!Size["messageOpcode"])
        /\ UNCHANGED <<link, process, printed>> /\ C!OnTo(c, next, answer)
    BY <1>1 DEF C!DecodeAck, C!Size
  <2>4. \A a, u : u = C!Got(c, "messageOpcode") /\ BytesAt("messageOpcode", a, u) =>
                    next = NextStep("messageOpcode", a) /\ answer = Decoded("messageOpcode", reader[c].answer, u)
    BY DEF BytesAt, NextStep, Decoded
  <2> HIDE DEF next, answer
  <2>5. "messageOpcode" \in DOMAIN C!Size \ {"opCode", "last"}
    BY DEF C!Size
  <2>6. C!OnTo(c, i, f)
    BY <2>1, <2>2, <2>3
  <2>7. \A a, u : u = C!Got(c, "messageOpcode") /\ BytesAt("messageOpcode", a, u) =>
                    i = NextStep("messageOpcode", a) /\ f = Decoded("messageOpcode", reader[c].answer, u)
    BY <2>1, <2>2, <2>4
  <2> QED  BY <2>3, <2>5, <2>6, <2>7, BytesOn
<1>2. CASE C!DecodeError(c)
  <2>1. PICK f : f = [reader[c].answer EXCEPT !.op = C!Number(C!Got(c, "arg"))]
    OBVIOUS
  <2>2. /\ C!CanGet(c, "arg") /\ C!Consume(c, C!Size["arg"])
        /\ UNCHANGED <<link, process, printed>> /\ C!OnTo(c, "last", f)
    BY <1>2, <2>1 DEF C!DecodeError, C!Size
  <2>3. \A a, u : u = C!Got(c, "arg") /\ BytesAt("arg", a, u) =>
                    "last" = NextStep("arg", a) /\ f = Decoded("arg", reader[c].answer, u)
    BY <2>1 DEF NextStep, Decoded
  <2>4. "arg" \in DOMAIN C!Size \ {"opCode", "last"}
    BY DEF C!Size
  <2> QED  BY <2>2, <2>3, <2>4, BytesOn
<1>3. ASSUME NEW step \in {"stat", "action", "extra", "arguments"}, C!DecodeBytes(c, step)
      PROVE  ReaderIn(c)'
  <2> DEFINE answer == CASE step = "extra" -> reader[c].answer
                         [] step = "arguments" -> C!Field(c, C!Numbers(C!Got(c, step)))
                         [] OTHER -> C!Field(c, C!Got(c, step))
  <2>1. PICK f : f = answer
    OBVIOUS
  <2>2. /\ C!CanGet(c, step) /\ C!Consume(c, C!Size[step])
        /\ UNCHANGED <<link, process, printed>> /\ C!OnTo(c, C!After[step], f)
    BY <1>3, <2>1 DEF C!DecodeBytes
  <2>3. \A a, u : u = C!Got(c, step) => answer = Decoded(step, reader[c].answer, u)
    BY DEF Decoded, C!Field
  <2>4. \A a : C!After[step] = NextStep(step, a)
    BY DEF NextStep
  <2>5. step \in DOMAIN C!Size \ {"opCode", "last"}
    BY DEF C!Size
  <2> HIDE DEF answer
  <2>6. PICK i : i = C!After[step]
    OBVIOUS
  <2>7. C!OnTo(c, i, f) /\ \A a, u : u = C!Got(c, step) /\ BytesAt(step, a, u) =>
                    i = NextStep(step, a) /\ f = Decoded(step, reader[c].answer, u)
    BY <2>1, <2>2, <2>3, <2>4, <2>6
  <2> QED  BY <2>2, <2>5, <2>7, BytesOn
<1> QED  BY <1>1, <1>2, <1>3

\* the kinds of answers
LEMMA KindIs ==
  ASSUME NEW a \in Clear
  PROVE  /\ a.kind \in {"ACK", "ERROR", "NOTIFICATION"}
         /\ a.kind = "NOTIFICATION" => a.op = 9
         /\ Header(a) \in {9, 10, 11}
         /\ Two(Header(a)) \in Seq(Byte) /\ Len(Two(Header(a))) = 2
<1>1. a.kind \in {"ACK", "ERROR", "NOTIFICATION"} /\ (a.kind = "NOTIFICATION" => a.op = 9)
  BY DEF Clear, AnswersFrom, Ack, Error, FollowAck, Statistics, Notification
<1>2. Header(a) \in {9, 10, 11}
  BY DEF Header
<1> QED  BY <1>1, <1>2, Bytes

\* after an answer that was no table, and its last byte, comes another one
LEMMA OpcodeComes ==
  ASSUME TypesInv, NEW c \in Conn, Cleared(c), Printed(c), Between(c), Trail(c) = <<>>, toClient[c] # <<>>,
         NEW m, m = Len(printed[c]) + 1
  PROVE  /\ m \in Nat /\ Len(printed[c]) < Len(sent[c]) /\ sent[c][m] \in Clear
         /\ Ahead(c, m, Encode(sent[c][m]))
<1> DEFINE p == Len(printed[c])
           n == Len(sent[c])
<1>1. p \in Nat /\ n \in Nat /\ p <= n /\ sent[c] \in Seq(Clear)
  BY TrailIs, LenProperties DEF Cleared, Printed
<1>2. PICK u \in Seq(Byte) : Joined(u, SentBytes(c), p, n) /\ Stream(c, <<>> \o u)
  BY DEF Between, Ahead
<1>3. Stream(c, u)
  BY <1>2, ConcatEmptySeq
<1>4. p # n
  <2>1. SUFFICES ASSUME p = n
                 PROVE  FALSE
    OBVIOUS
  <2>2. u = <<>>
    BY <1>1, <1>2, <2>1, JoinedNone
  <2>3. PICK lost \in Seq(Byte) : <<>> = toClient[c] \o lost
    BY <1>3, <2>2 DEF Stream
  <2> DEFINE s == toClient[c]
  <2>4. s \in Seq(Byte) /\ s # <<>>
    BY DEF TypesInv, WiresType
  <2> HIDE DEF s
  <2>5. Len(s \o lost) = Len(s) + Len(lost) /\ Len(s) > 0 /\ Len(lost) \in Nat
    BY <2>4
  <2>6. Len(<<>>) = 0
    OBVIOUS
  <2>7. Len(s \o lost) = 0
    BY <2>3, <2>6 DEF s
  <2> QED  BY <2>5, <2>7
<1>5. p < n
  BY <1>1, <1>4
<1>6. PICK t \in Seq(Byte) : u = SentBytes(c)[p + 1] \o t /\ Joined(t, SentBytes(c), p + 1, n)
  BY <1>1, <1>2, <1>5, JoinedFirst
<1>7. m \in 1 .. n
  BY <1>1, <1>5
<1>8. sent[c][m] \in Clear /\ m \in DOMAIN sent[c]
  BY <1>1, <1>7
<1>9. SentBytes(c)[p + 1] = Encode(sent[c][m])
  BY <1>8 DEF SentBytes
<1>10. Ahead(c, m, Encode(sent[c][m]))
  BY <1>3, <1>6, <1>9 DEF Ahead
<1> QED  BY <1>5, <1>7, <1>8, <1>10

\* the opcode of a frame is read, unless zeros of a table are
LEMMA OpcodeIs ==
  ASSUME TypesInv, NEW c \in Conn, Cleared(c), ReaderIn(c), C!CanGet(c, "opCode")
  PROVE  \/ C!Got(c, "opCode") = Padding /\ TableSent(c)
         \/ \E m, a :
              /\ m = Len(printed[c]) + 1 /\ Len(printed[c]) < Len(sent[c]) /\ a = sent[c][m] /\ a \in Clear
              /\ C!Got(c, "opCode") = Two(Header(a))
              /\ C!Consume(c, 2) /\ UNCHANGED <<link, out, sent>> => Ahead(c, m, Left(FirstStep(a), a))'
<1>1. "opCode" \in C!Frames \cup DOMAIN C!Size /\ C!ReaderAt(c, "opCode") /\ Len(toClient[c]) >= 2
      /\ C!Got(c, "opCode") = SubSeq(toClient[c], 1, 2)
  BY DEF C!CanGet, C!Size, C!Got
<1>2. toClient[c] # <<>>
  BY <1>1
<1>3. Between(c)
  BY <1>1, <1>2, ReadingIs
<1>4. Printed(c)
  BY DEF ReaderIn
<1>5. CASE Trail(c) = Padding
  <2>1. Padding \in Seq(Byte) /\ <<>> \in Seq(Byte) /\ Len(Padding) = 2 /\ Padding # <<>>
    BY Bytes
  <2>2. Padding \o <<>> = Padding
    BY <2>1, ConcatEmptySeq
  <2>3. PICK m : m = Len(printed[c])
    OBVIOUS
  <2>4. Ahead(c, m, Padding)
    BY <1>3, <1>5, <2>3 DEF Between
  <2> DEFINE e == <<>>
  <2>5. e \in Seq(Byte) /\ Padding = Padding \o e
    BY <2>1, <2>2
  <2> HIDE DEF e
  <2>6. SubSeq(toClient[c], 1, Len(Padding)) = Padding
    <3>1. Len(Padding) <= Len(toClient[c])
      BY <1>1, <2>1
    <3> QED  BY <2>1, <2>4, <2>5, <3>1, PieceRead
  <2>7. printed[c] # <<>> /\ IsTable(sent[c][Len(printed[c])])
    BY <1>5, <2>1 DEF Trail, Zeros
  <2>8. TableSent(c)
    BY <1>4, <2>7, TrailIs DEF TableSent
  <2> QED  BY <1>1, <2>1, <2>6, <2>8
<1>6. CASE Trail(c) = <<>>
  <2>1. PICK m : m = Len(printed[c]) + 1
    OBVIOUS
  <2>2. PICK a : a = sent[c][m]
    OBVIOUS
  <2>3. Len(printed[c]) < Len(sent[c]) /\ a \in Clear /\ Ahead(c, m, Encode(a))
    BY <1>2, <1>3, <1>4, <1>6, <2>1, <2>2, OpcodeComes
  <2>4. PICK u : u = Two(Header(a))
    OBVIOUS
  <2>5. PICK v : v = Left(FirstStep(a), a)
    OBVIOUS
  <2>6. u \in Seq(Byte) /\ Len(u) = 2 /\ v \in Seq(Byte) /\ Encode(a) = u \o v
    BY <2>3, <2>4, <2>5, KindIs, Anatomies DEF Anatomy
  <2>7. PICK x : x = Encode(a)
    OBVIOUS
  <2>8. x = u \o v /\ Ahead(c, m, x) /\ Len(u) <= Len(toClient[c])
    BY <1>1, <2>3, <2>6, <2>7
  <2>9. SubSeq(toClient[c], 1, Len(u)) = u
        /\ (C!Consume(c, Len(u)) /\ UNCHANGED <<link, out, sent>> => Ahead(c, m, v)')
    BY <2>6, <2>8, PieceRead
  <2>10. C!Got(c, "opCode") = Two(Header(a))
         /\ (C!Consume(c, 2) /\ UNCHANGED <<link, out, sent>> => Ahead(c, m, v)')
    BY <1>1, <2>4, <2>6, <2>9
  <2> QED  BY <2>1, <2>2, <2>3, <2>5, <2>10
<1> QED  BY <1>4, <1>5, <1>6, TrailIs

\* a frame begins
LEMMA OpcodeOn ==
  ASSUME TypesInv, NEW c \in Conn, Cleared(c), ReaderIn(c), C!DecodeOpcode(c), UNCHANGED serverVars
  PROVE  ReaderIn(c)'
<1>1. /\ C!CanGet(c, "opCode") /\ C!ReaderAt(c, "opCode") /\ C!Consume(c, 2)
      /\ UNCHANGED <<link, process, printed>>
      /\ UNCHANGED <<link, out, sent>>
  BY DEF C!DecodeOpcode, C!CanGet, serverVars
<1>2. C!Two(9) = Two(9) /\ C!Two(10) = Two(10) /\ C!Two(11) = Two(11)
  BY DEF C!Two, Two, C!Digit, Digit
<1>3. C!Got(c, "opCode") # Padding
  BY <1>2, Bytes DEF C!DecodeOpcode
<1>4. PICK m, a :
        /\ m = Len(printed[c]) + 1 /\ Len(printed[c]) < Len(sent[c]) /\ a = sent[c][m] /\ a \in Clear
        /\ C!Got(c, "opCode") = Two(Header(a))
        /\ C!Consume(c, 2) /\ UNCHANGED <<link, out, sent>> => Ahead(c, m, Left(FirstStep(a), a))'
  BY <1>1, <1>3, OpcodeIs
<1>5. Ahead(c, m, Left(FirstStep(a), a))'
  BY <1>1, <1>4
<1>6. FirstStep(a) \in StepsOf(a)
  BY <1>4, Anatomies DEF Anatomy
<1>7. \E answer : answer = Partial(FirstStep(a), a) /\ C!OnTo(c, FirstStep(a), answer)
  <2>1. CASE a.kind = "NOTIFICATION"
    <3>1. C!OnTo(c, "stat", [C!NoAnswer EXCEPT !.kind = "NOTIFICATION", !.op = 9])
      BY <1>2, <1>4, <2>1, Bytes DEF Header, C!DecodeOpcode
    <3>2. [C!NoAnswer EXCEPT !.kind = "NOTIFICATION", !.op = 9] = AnswerOf("NOTIFICATION", 9, <<>>)
      <4> DEFINE e == <<>>
      <4>1. C!NoAnswer = AnswerOf("none", 0, e)
        BY DEF C!NoAnswer, AnswerOf
      <4> HIDE DEF e
      <4>2. [AnswerOf("none", 0, e) EXCEPT !.kind = "NOTIFICATION"] = AnswerOf("NOTIFICATION", 0, e)
        BY DEF AnswerOf
      <4>3. \A n : [AnswerOf("NOTIFICATION", 0, e) EXCEPT !.op = n] = AnswerOf("NOTIFICATION", n, e)
        BY DEF AnswerOf
      <4>4. [C!NoAnswer EXCEPT !.kind = "NOTIFICATION", !.op = 9]
              = [[C!NoAnswer EXCEPT !.kind = "NOTIFICATION"] EXCEPT !.op = 9]
        OBVIOUS
      <4> QED  BY <4>1, <4>2, <4>3, <4>4 DEF e
    <3>3. FirstStep(a) = "stat" /\ Partial("stat", a) = AnswerOf("NOTIFICATION", 9, <<>>)
      BY <1>4, <2>1, KindIs DEF FirstStep, Partial
    <3> QED  BY <3>1, <3>2, <3>3
  <2>2. CASE a.kind = "ACK"
    <3>1. C!OnTo(c, "messageOpcode", [C!NoAnswer EXCEPT !.kind = "ACK"])
      BY <1>2, <1>4, <2>2, Bytes DEF Header, C!DecodeOpcode
    <3>2. [C!NoAnswer EXCEPT !.kind = "ACK"] = AnswerOf("ACK", 0, <<>>)
      BY DEF C!NoAnswer, AnswerOf
    <3>3. FirstStep(a) = "messageOpcode" /\ Partial("messageOpcode", a) = AnswerOf("ACK", 0, <<>>)
      BY <1>4, <2>2 DEF FirstStep, Partial
    <3> QED  BY <3>1, <3>2, <3>3
  <2>3. CASE a.kind = "ERROR"
    <3>1. C!OnTo(c, "arg", [C!NoAnswer EXCEPT !.kind = "ERROR"])
      BY <1>2, <1>4, <2>3, Bytes DEF Header, C!DecodeOpcode
    <3>2. [C!NoAnswer EXCEPT !.kind = "ERROR"] = AnswerOf("ERROR", 0, <<>>)
      BY DEF C!NoAnswer, AnswerOf
    <3>3. FirstStep(a) = "arg" /\ Partial("arg", a) = AnswerOf("ERROR", 0, <<>>)
      BY <1>4, <2>3 DEF FirstStep, Partial
    <3> QED  BY <3>1, <3>2, <3>3
  <2> QED  BY <1>4, <2>1, <2>2, <2>3, KindIs
<1>8. PICK answer : answer = Partial(FirstStep(a), a) /\ C!OnTo(c, FirstStep(a), answer)
  BY <1>7
<1>9. Printed(c) /\ process'[c] = "running" /\ UNCHANGED <<printed, sent>>
  BY <1>1 DEF ReaderIn, C!ReaderAt
<1> QED  BY <1>4, <1>5, <1>6, <1>8, <1>9, WithinOn

\* bytes that begin no frame are zeros of a table
LEMMA NothingOn ==
  ASSUME TypesInv, NEW c \in Conn, Cleared(c), ReaderIn(c), C!DecodeNothing(c), UNCHANGED serverVars
  PROVE  ReaderIn(c)'
<1>1. /\ C!CanGet(c, "opCode") /\ UNCHANGED <<printed, sent>>
      /\ process' = [process EXCEPT ![c] = "misread"]
  BY DEF C!DecodeNothing, C!readerVars, serverVars
<1>2. C!Two(9) = Two(9) /\ C!Two(10) = Two(10) /\ C!Two(11) = Two(11)
  BY DEF C!Two, Two, C!Digit, Digit
<1>3. \A a \in Clear : C!Got(c, "opCode") # Two(Header(a))
  BY <1>2, KindIs DEF C!DecodeNothing
<1>4. TableSent(c)
  BY <1>1, <1>3, OpcodeIs
<1>5. process'[c] = "misread"
  BY <1>1 DEF TypesInv, ProgramsType
<1> QED  BY <1>1, <1>4, <1>5 DEF ReaderIn, Printed, Active, TableSent

\* an answer is printed
LEMMA PrintOn ==
  ASSUME TypesInv, NEW c \in Conn, Cleared(c), ReaderIn(c), C!PrintAnswer(c), UNCHANGED serverVars
  PROVE  ReaderIn(c)'
<1>1. /\ "last" \in C!Frames \cup DOMAIN C!Size /\ C!ReaderAt(c, "last") /\ Len(toClient[c]) >= 1
      /\ C!Consume(c, 1)
      /\ UNCHANGED <<link, process, out, sent>>
  BY DEF C!PrintAnswer, C!CanGet, C!Size, serverVars
<1>2. toClient[c] # <<>>
  BY <1>1
<1>3. Within(c)
  BY <1>1, <1>2, ReadingIs
<1> DEFINE p == Len(printed[c])
<1>4. PICK m : m = p + 1
  OBVIOUS
<1>5. PICK a : a = sent[c][m]
  OBVIOUS
<1>6. /\ a \in Clear /\ reader[c].answer = Partial("last", a) /\ Ahead(c, m, Left("last", a))
      /\ p \in Nat /\ p < Len(sent[c])
  BY <1>1, <1>3, <1>4, <1>5, WithinIs DEF Within, C!ReaderAt
<1>7. reader[c].answer = a /\ Left("last", a) = <<Semicolon>> \o Zeros(a)
  BY <1>6, Anatomies DEF Anatomy
<1>8. PICK u : u = <<Semicolon>>
  OBVIOUS
<1>9. PICK v : v = Zeros(a)
  OBVIOUS
<1>10. u \in Seq(Byte) /\ Len(u) = 1 /\ v \in Seq(Byte)
  BY <1>8, <1>9, Bytes DEF Zeros
<1>11. PICK x : x = Left("last", a)
  OBVIOUS
<1>12. x = u \o v /\ Ahead(c, m, x) /\ Len(u) <= Len(toClient[c])
  BY <1>1, <1>6, <1>7, <1>8, <1>9, <1>10, <1>11
<1>13. C!Consume(c, Len(u)) /\ UNCHANGED <<link, out, sent>> => Ahead(c, m, v)'
  BY <1>10, <1>12, PieceRead
<1>14. Ahead(c, m, v)'
  BY <1>1, <1>10, <1>13
<1>15. printed'[c] = Append(printed[c], a)
  BY <1>7 DEF C!PrintAnswer, TypesInv, ReadersType
<1>16. Len(printed'[c]) = m /\ printed'[c] # <<>> /\ printed'[c][m] = a /\ \A i \in 1 .. p : printed'[c][i] = printed[c][i]
  <2>1. PICK T : printed[c] \in Seq(T)
    BY DEF TypesInv, ReadersType, IsSeq
  <2> DEFINE U == T \cup {a}
             q == printed[c]
  <2>2. q \in Seq(U) /\ a \in U
    BY <2>1, SeqMonotonic
  <2> HIDE DEF U, q
  <2>3. Len(Append(q, a)) = Len(q) + 1 /\ Append(q, a)[Len(q) + 1] = a
        /\ \A i \in 1 .. Len(q) : Append(q, a)[i] = q[i]
    BY <2>2
  <2>4. Len(Append(q, a)) # 0
    BY <2>2, <2>3, LenProperties
  <2>5. Len(<<>>) = 0
    OBVIOUS
  <2> QED  BY <1>4, <1>15, <2>3, <2>4, <2>5 DEF q
<1>17. m \in Nat /\ m <= Len(sent[c])
  <2>1. Len(sent[c]) \in Nat
    BY LenProperties DEF Cleared
  <2> QED  BY <1>4, <1>6, <2>1
<1>18. Printed(c)'
  <2>1. \A i \in 1 .. m : i = m \/ i \in 1 .. p
    BY <1>4, <1>6
  <2>2. \A i \in 1 .. p : printed[c][i] = sent[c][i]
    BY DEF ReaderIn, Printed
  <2>3. \A i \in 1 .. m : printed'[c][i] = sent'[c][i]
    BY <1>1, <1>5, <1>16, <2>1, <2>2
  <2> QED  BY <1>1, <1>16, <1>17, <2>3 DEF Printed
<1>19. Trail(c)' = v
  BY <1>1, <1>5, <1>9, <1>16 DEF Trail
<1>20. reader'[c].answer = C!NoAnswer /\ reader'[c].step \in {"opCode", "done"}
  BY DEF C!PrintAnswer, C!OnTo, TypesInv, ReadersType
<1>21. reader'[c].step = "opCode" => Between(c)'
  <2>1. Ahead(c, Len(printed[c]), Trail(c))'
    BY <1>14, <1>16, <1>19
  <2> QED  BY <1>20, <2>1 DEF Between
<1>22. process'[c] = "running"
  BY <1>1 DEF C!ReaderAt
<1> QED  BY <1>18, <1>20, <1>21, <1>22 DEF ReaderIn, Active

\* every step of the reader
LEMMA StepsOn ==
  ASSUME TypesInv, NEW c \in Conn, Cleared(c), ReaderIn(c), C!ReaderStep(c), UNCHANGED serverVars
  PROVE  ReaderIn(c)'
<1>1. ASSUME printed' = printed, ~Active(c)', process'[c] # "misread"
      PROVE  ReaderIn(c)'
  BY <1>1 DEF ReaderIn, Printed, serverVars
<1>2. ASSUME NEW step \in C!Frames, C!FrameRepeats(c, step)
      PROVE  ReaderIn(c)'
  <2>1. reader'[c].step = "repeat"
    <3>1. PICK A : reader[c] \in [step : C!ReaderSteps, answer : A]
      BY DEF TypesInv, ReadersType, IsReader
    <3> QED  BY <1>2, <3>1 DEF C!FrameRepeats, TypesInv, ReadersType
  <2> QED  BY <1>1, <1>2, <2>1 DEF C!FrameRepeats, C!CutFrame, C!ReaderAt, Active
<1>3. ASSUME NEW step \in C!Frames, C!FrameOfNothing(c, step)
      PROVE  ReaderIn(c)'
  BY <1>1, <1>3 DEF C!FrameOfNothing, C!CutFrame, C!ReaderAt, C!wireVars, Active
<1>4. ASSUME NEW step \in DOMAIN C!Size, C!ReadFails(c, step)
      PROVE  ReaderIn(c)'
  BY <1>1, <1>4 DEF C!ReadFails, C!readerVars, Active, TypesInv, ProgramsType
<1> QED  BY <1>2, <1>3, <1>4, OpcodeOn, NothingOn, PartsOn, PrintOn, StringOn DEF C!ReaderStep

\* every step
LEMMA ReaderInvKept ==
  TypesInv /\ StreamsInv /\ WiredInv /\ ClearInv /\ IdleInv /\ ReaderInv /\ [Next]_vars => ReaderInv'
<1> SUFFICES ASSUME TypesInv, StreamsInv, WiredInv, ClearInv, IdleInv, ReaderInv, [Next]_vars, Undivided',
                    NEW c \in Conn
             PROVE  ReaderIn(c)'
  BY DEF ReaderInv
<1>1. Undivided
  BY UndividedBefore
<1>2. Cleared(c) /\ ReaderIn(c)
  BY <1>1 DEF ClearInv, ReaderInv
<1> QED  BY <1>1, <1>2, Standing, ElsewhereKept, StepsOn

\* the reader begins
LEMMA ReaderStart == Init => ReaderInv
<1> SUFFICES ASSUME Init, NEW c \in Conn
             PROVE  ReaderIn(c)
  BY DEF ReaderInv
<1>1. /\ printed[c] = <<>> /\ sent[c] = <<>> /\ toClient[c] = <<>> /\ out[c] = <<>>
      /\ process[c] = "running" /\ reader[c].step = "none" /\ reader[c].answer = C!NoAnswer
  BY DEF Init, C!Init, S!Init
<1>2. Len(printed[c]) = 0 /\ Len(sent[c]) = 0
  BY <1>1
<1>3. Printed(c)
  BY <1>2 DEF Printed
<1>4. <<>> \in Seq(Byte) /\ <<>> \o <<>> = <<>>
  BY EmptySeq, ConcatEmptySeq
<1>5. Joined(<<>>, SentBytes(c), 0, 0)
  BY JoinedNone
<1>6. Stream(c, <<>> \o <<>>)
  BY <1>1, <1>4 DEF Stream
<1>7. Ahead(c, 0, <<>>)
  BY <1>2, <1>4, <1>5, <1>6 DEF Ahead
<1>8. Trail(c) = <<>>
  BY <1>1 DEF Trail
<1>9. Between(c)
  BY <1>1, <1>2, <1>7, <1>8 DEF Between
<1> QED  BY <1>1, <1>3, <1>9 DEF ReaderIn

(***************************************************************************)
(* What comes to the reader of a client, whatever threads write to it: the *)
(* rest of the answer it decodes, and the answers sent after that one,     *)
(* until its connection ends or its decoder gives up.                      *)
(***************************************************************************)
THEOREM AnswersInvariance == Spec => [](ClearInv /\ IdleInv /\ ReaderInv)
<1> DEFINE I == ClearInv /\ IdleInv /\ ReaderInv
<1>1. Init => I
  BY ClearStart, IdleStart, ReaderStart
<1>2. TypesInv /\ StreamsInv /\ WiredInv /\ RequestsInv /\ I /\ [Next]_vars => I'
  BY ClearKept, IdleKept, ReaderInvKept
<1> QED  BY TypeCorrect, Invariance, RequestsInvariance, <1>1, <1>2, PTL DEF Spec

(***************************************************************************)
(* A client prints what threads of the server have sent to it, all of it   *)
(* up to some point and each answer as it was meant: for any number of     *)
(* clients that write to each other, and for texts of any length.          *)
(***************************************************************************)
THEOREM AnswersPrinted == Spec => []AnswersAsSent
<1>1. TypesInv /\ ReaderInv => AnswersAsSent
  <2> SUFFICES ASSUME TypesInv, ReaderInv, Undivided, NEW c \in Conn
               PROVE  IsPrefix(printed[c], sent[c])
    BY DEF AnswersAsSent
  <2>1. Printed(c)
    BY DEF ReaderInv, ReaderIn
  <2>2. PICK T : printed[c] \in Seq(T)
    BY DEF TypesInv, ReadersType, IsSeq
  <2>3. sent[c] \in Seq(Answered)
    BY DEF TypesInv, ServerType
  <2> QED  BY <2>1, <2>2, <2>3, LenProperties DEF IsPrefix, Printed
<1> QED  BY TypeCorrect, AnswersInvariance, <1>1, PTL

(***************************************************************************)
(* The decoder of a client stays in step with the frames of the server,    *)
(* unless LOGSTAT's table was sent to it.                                  *)
(***************************************************************************)
THEOREM InStep == Spec => []MisreadAfterTable
<1>1. ReaderInv => MisreadAfterTable
  BY DEF ReaderInv, ReaderIn, TableSent, MisreadAfterTable, ToSet
<1> QED  BY AnswersInvariance, <1>1, PTL

-----------------------------------------------------------------------------
(* Answers that are counted *)

\* an answer to a request with the opcode op
IsAnswer(a, op) == a.kind # "NOTIFICATION" /\ a.op = op

\* those among the messages s: one at most
Single(s, op) ==
  \A i, j \in DOMAIN s : IsAnswer(s[i].answer, op) /\ IsAnswer(s[j].answer, op) => i = j

\* ... behind the n-th
Owing(s, n, op) == \E i \in DOMAIN s : i > n /\ IsAnswer(s[i].answer, op)

\* the opcodes of requests with one answer: not LOGSTAT, nor what notifications have
Once == 1 .. 12 \ {7, 9}

\* where the answers and the requests are in q
AnswersIn(q, op) == {i \in DOMAIN q : IsAnswer(q[i], op)}
RequestsIn(q, op) == {i \in DOMAIN q : q[i].op = op}

\* how many answers were sent to c, and how many requests were read
Written(c, op) == Cardinality(AnswersIn(sent[c], op))
Asked(c, op) == Cardinality(RequestsIn(received[c], op))

\* the messages that the thread of c has done with, of those it has
Gone(c) == IF thread[c].step = "flush" THEN 1 ELSE 0

\* c has had no more answers than requests, if the one that its thread owes it counts
Balanced(c, op) ==
  /\ Single(thread[c].sends, op)
  /\ Written(c, op) <= Asked(c, op)
  /\ Owing(thread[c].sends, Gone(c), op) => Written(c, op) < Asked(c, op)

OnceInv == Undivided => \A c \in Conn : \A op \in Once : Balanced(c, op)

\* of two messages one is an answer
LEMMA OneOfTwo ==
  ASSUME NEW m, NEW n, NEW op, ~(IsAnswer(m.answer, op) /\ IsAnswer(n.answer, op)), NEW s \in Lists(m, n)
  PROVE  /\ Single(s, op)
         /\ Owing(s, 0, op) => IsAnswer(m.answer, op) \/ IsAnswer(n.answer, op)
<1>1. DOMAIN s \subseteq {1, 2} /\ (1 \in DOMAIN s => s[1] = m) /\ (2 \in DOMAIN s => s[2] = n)
  <2>1. CASE s = <<>>
    BY <2>1
  <2>2. CASE s = <<m>>
    BY <2>2
  <2>3. CASE s = Append(<<m>>, n)
    BY <2>3
  <2>4. CASE s = <<m>> \o <<n>>
    BY <2>4
  <2> QED  BY <2>1, <2>2, <2>3, <2>4 DEF Lists
<1>2. \A i \in DOMAIN s : (i = 1 /\ s[i] = m) \/ (i = 2 /\ s[i] = n)
  BY <1>1
<1> QED  BY <1>2 DEF Single, Owing

\* process answers a request once, and answers what was asked
LEMMA SendsOne ==
  ASSUME NEW c \in Conn, NEW request, request.op \in Ops \cup {0}, NEW s \in S!Sends(c, request), NEW op \in Once
  PROVE  /\ Single(s, op)
         /\ Owing(s, 0, op) => request.op = op
<1> DEFINE code == request.op
           own(a) == S!To(c, a)
           note(t) == S!NoteOf(t)
<1>1. \A d, a : S!To(d, a).answer = a
  BY DEF S!To
<1>2. \A t : note(t).kind = "NOTIFICATION"
  BY DEF S!NoteOf, S!Notification
<1>3. /\ \A x : S!Error(x).op = x /\ S!Ack(x).op = x
      /\ \A a, n : S!FollowAck(a, n).op = 4
      /\ S!Statistics(S!Numbers).op = 7
  BY DEF S!Error, S!Ack, S!FollowAck, S!Statistics
<1>4. \A t : ~IsAnswer(note(t), op)
  BY <1>2 DEF IsAnswer
<1>5. ASSUME NEW a, a.op = code, \/ s \in {<<>>, <<own(a)>>}
                                \/ \E d, t : s \in {Append(<<own(a)>>, S!To(d, note(t))),
                                                    <<S!To(d, note(t))>> \o <<own(a)>>}
      PROVE  Single(s, op) /\ (Owing(s, 0, op) => code = op)
  <2>1. IsAnswer(own(a).answer, op) => code = op
    BY <1>1, <1>5 DEF IsAnswer
  <2>2. ASSUME NEW d, NEW t, s \in Lists(own(a), S!To(d, note(t))) \cup Lists(S!To(d, note(t)), own(a))
        PROVE  Single(s, op) /\ (Owing(s, 0, op) => code = op)
    <3> DEFINE x == own(a)
               y == S!To(d, note(t))
    <3>1. ~IsAnswer(y.answer, op) /\ (IsAnswer(x.answer, op) => code = op)
      BY <1>1, <1>4, <2>1
    <3> HIDE DEF x, y
    <3>2. s \in Lists(x, y) \cup Lists(y, x)
      BY <2>2 DEF x, y
    <3> QED  BY <3>1, <3>2, OneOfTwo
  <2> QED  BY <1>5, <2>2 DEF Lists
<1>6. CASE code \in {1, 3, 12}
  <2>1. s \in {<<own(S!Error(code))>>, <<own(S!Ack(code))>>}
    BY <1>6 DEF S!Sends
  <2> QED  BY <1>3, <1>5, <2>1
<1>7. CASE code \in {0, 8}
  <2>1. s \in {<<>>, <<own(S!Error(code))>>}
    BY <1>7 DEF S!Sends
  <2> QED  BY <1>3, <1>5, <2>1
<1>8. CASE code = 2
  <2>1. \/ s \in {<<own(S!Error(code))>>, <<own(S!Ack(code))>>}
        \/ \E d \in connIds \cup {c} : s = Append(<<own(S!Ack(code))>>, S!To(d, note(<<>>)))
    BY <1>8 DEF S!Sends, S!Targets
  <2> QED  BY <1>3, <1>5, <2>1
<1>9. CASE code = 4
  <2> DEFINE a == S!FollowAck(request.fields[1], request.fields[2])
  <2>1. s \in {<<own(S!Error(code))>>, <<>>, <<own(a)>>}
    BY <1>9 DEF S!Sends
  <2> HIDE DEF a
  <2>2. a.op = code
    BY <1>3, <1>9 DEF a
  <2> QED  BY <1>3, <1>5, <2>1, <2>2
<1>10. CASE code \in {5, 6}
  <2>1. \/ s \in {<<own(S!Error(code))>>, <<own(S!Ack(code))>>}
        \/ \E d \in connIds \cup {S!NoConn} : s = <<S!To(d, note(request.fields[1]))>> \o <<own(S!Ack(code))>>
    BY <1>10 DEF S!Sends, S!Targets
  <2> QED  BY <1>3, <1>5, <2>1
<1>11. CASE code = 7
  <2> DEFINE a == S!Statistics(S!Numbers)
             x == own(S!Error(7))
             y == own(a)
  <2>1. s \in Lists(x, y) \cup Lists(y, x) \cup Lists(y, y)
    BY <1>11 DEF S!Sends, Lists
  <2>2. ~IsAnswer(x.answer, op) /\ ~IsAnswer(y.answer, op)
    BY <1>1, <1>3 DEF IsAnswer, Once
  <2> HIDE DEF x, y
  <2> QED  BY <2>1, <2>2, OneOfTwo
<1> QED  BY <1>6, <1>7, <1>8, <1>9, <1>10, <1>11 DEF Ops

\* the messages behind the first
LEMMA TailOne ==
  ASSUME NEW s, s # <<>>, IsSeq(s), NEW op, Single(s, op)
  PROVE  /\ Single(Tail(s), op)
         /\ Owing(Tail(s), 0, op) => Owing(s, 1, op)
<1>1. PICK T : s \in Seq(T)
  BY DEF IsSeq
<1>2. Tail(s) \in Seq(T) /\ Len(Tail(s)) = Len(s) - 1 /\ \A i \in 1 .. Len(Tail(s)) : Tail(s)[i] = s[i + 1]
  BY <1>1, HeadTailProperties
<1>3. \A i \in DOMAIN Tail(s) : i + 1 \in DOMAIN s /\ i + 1 > 1 /\ i \in Nat /\ Tail(s)[i] = s[i + 1]
  <2>1. DOMAIN Tail(s) = 1 .. Len(Tail(s)) /\ DOMAIN s = 1 .. Len(s) /\ Len(s) \in Nat
    BY <1>1, <1>2, LenProperties
  <2> QED  BY <1>2, <2>1
<1> DEFINE t == Tail(s)
<1> HIDE DEF t
<1>4. \A i \in DOMAIN t : i + 1 \in DOMAIN s /\ i + 1 > 1 /\ i \in Nat /\ t[i] = s[i + 1]
  BY <1>3 DEF t
<1>5. Single(t, op)
  <2> SUFFICES ASSUME NEW i \in DOMAIN t, NEW j \in DOMAIN t,
                      IsAnswer(t[i].answer, op), IsAnswer(t[j].answer, op)
               PROVE  i = j
    BY DEF Single
  <2>1. i + 1 = j + 1
    BY <1>4 DEF Single
  <2> QED  BY <1>4, <2>1
<1>6. Owing(t, 0, op) => Owing(s, 1, op)
  BY <1>4 DEF Owing
<1> QED  BY <1>5, <1>6 DEF t

\* one more at the end
LEMMA Lengthened ==
  ASSUME NEW q, IsSeq(q), NEW e
  PROVE  /\ IsFiniteSet(DOMAIN q) /\ DOMAIN Append(q, e) = DOMAIN q \cup {Len(q) + 1}
         /\ Len(q) + 1 \notin DOMAIN q /\ Append(q, e)[Len(q) + 1] = e
         /\ \A i \in DOMAIN q : Append(q, e)[i] = q[i]
<1>1. PICK T : q \in Seq(T)
  BY DEF IsSeq
<1> DEFINE U == T \cup {e}
<1>2. q \in Seq(U) /\ e \in U
  BY <1>1, SeqMonotonic
<1> HIDE DEF U
<1>3. /\ Append(q, e) \in Seq(U) /\ Len(Append(q, e)) = Len(q) + 1 /\ Append(q, e)[Len(q) + 1] = e
      /\ \A i \in 1 .. Len(q) : Append(q, e)[i] = q[i]
  BY <1>2
<1>4. DOMAIN q = 1 .. Len(q) /\ DOMAIN Append(q, e) = 1 .. Len(q) + 1 /\ Len(q) \in Nat
  BY <1>2, <1>3, LenProperties
<1>5. IsFiniteSet(1 .. Len(q))
  BY <1>4, FS_Interval
<1> QED  BY <1>3, <1>4, <1>5

\* one more answer
LEMMA AnswersMore ==
  ASSUME NEW q, IsSeq(q), NEW a, NEW op
  PROVE  /\ IsFiniteSet(AnswersIn(q, op)) /\ Cardinality(AnswersIn(q, op)) \in Nat
         /\ Cardinality(AnswersIn(Append(q, a), op)) =
              Cardinality(AnswersIn(q, op)) + (IF IsAnswer(a, op) THEN 1 ELSE 0)
<1> DEFINE W == AnswersIn(q, op)
           V == AnswersIn(Append(q, a), op)
           n == Len(q) + 1
<1>1. W \subseteq DOMAIN q
  BY DEF AnswersIn
<1>2. IsFiniteSet(W) /\ Cardinality(W) \in Nat
  BY <1>1, Lengthened, FS_Subset, FS_CardinalityType
<1>3. n \notin W /\ V = IF IsAnswer(a, op) THEN W \cup {n} ELSE W
  BY Lengthened DEF AnswersIn
<1> HIDE DEF W, V, n
<1>4. Cardinality(W \cup {n}) = Cardinality(W) + 1
  BY <1>2, <1>3, FS_AddElement
<1>5. Cardinality(V) = Cardinality(W) + (IF IsAnswer(a, op) THEN 1 ELSE 0)
  BY <1>2, <1>3, <1>4
<1> QED  BY <1>2, <1>5 DEF W, V

\* one more request
LEMMA RequestsInMore ==
  ASSUME NEW q, IsSeq(q), NEW r, NEW op
  PROVE  /\ IsFiniteSet(RequestsIn(q, op)) /\ Cardinality(RequestsIn(q, op)) \in Nat
         /\ Cardinality(RequestsIn(Append(q, r), op)) =
              Cardinality(RequestsIn(q, op)) + (IF r.op = op THEN 1 ELSE 0)
<1> DEFINE W == RequestsIn(q, op)
           V == RequestsIn(Append(q, r), op)
           n == Len(q) + 1
<1>1. W \subseteq DOMAIN q
  BY DEF RequestsIn
<1>2. IsFiniteSet(W) /\ Cardinality(W) \in Nat
  BY <1>1, Lengthened, FS_Subset, FS_CardinalityType
<1>3. n \notin W /\ V = IF r.op = op THEN W \cup {n} ELSE W
  BY Lengthened DEF RequestsIn
<1> HIDE DEF W, V, n
<1>4. Cardinality(W \cup {n}) = Cardinality(W) + 1
  BY <1>2, <1>3, FS_AddElement
<1>5. Cardinality(V) = Cardinality(W) + (IF r.op = op THEN 1 ELSE 0)
  BY <1>2, <1>3, <1>4
<1> QED  BY <1>2, <1>5 DEF W, V

\* how many there are
LEMMA CountsAre ==
  ASSUME TypesInv, NEW c \in Conn, NEW op
  PROVE  Written(c, op) \in Nat /\ Asked(c, op) \in Nat /\ IsSeq(sent[c]) /\ IsSeq(thread[c].sends)
<1>1. IsSeq(sent[c]) /\ IsSeq(received[c]) /\ IsSeq(thread[c].sends)
  BY DEF TypesInv, ServerType, Thread, IsSeq
<1> QED  BY <1>1, AnswersMore, RequestsInMore DEF Written, Asked

\* c is sent a message that is no answer to op, or none; its thread owes it no other answers
LEMMA BalancedStays ==
  ASSUME NEW c \in Conn, NEW op, Balanced(c, op),
         Single(thread'[c].sends, op),
         Owing(thread'[c].sends, Gone(c)', op) => Owing(thread[c].sends, Gone(c), op),
         received'[c] = received[c], Written(c, op)' = Written(c, op)
  PROVE  Balanced(c, op)'
BY DEF Balanced, Asked

\* the thread of c is done with a message
LEMMA BalancedNext ==
  ASSUME TypesInv, StreamsInv, NEW c \in Conn, NEW op, Balanced(c, op), thread[c].step \in {"send", "flush"},
         thread' = [thread EXCEPT ![c] = S!NextSend(c)], received' = received, Written(c, op)' = Written(c, op)
  PROVE  Balanced(c, op)'
<1> DEFINE s == thread[c].sends
<1>1. s # <<>> /\ IsSeq(s) /\ Single(s, op)
  BY CountsAre DEF StreamsInv, ThreadsInv, Balanced
<1>2. Single(Tail(s), op) /\ (Owing(Tail(s), 0, op) => Owing(s, 1, op))
  BY <1>1, TailOne
<1>3. thread'[c].sends = Tail(s) /\ Gone(c)' = 0
  <2>1. thread'[c] = S!NextSend(c)
    BY DEF TypesInv, ServerType
  <2> QED  BY <2>1 DEF S!NextSend, S!HasToSend, Gone
<1>4. Owing(s, 1, op) => Owing(s, Gone(c), op)
  <2>1. \A i \in DOMAIN s : i > 1 => i > 0
    <3>1. PICK T : s \in Seq(T)
      BY <1>1 DEF IsSeq
    <3>2. DOMAIN s = 1 .. Len(s)
      BY <3>1, LenProperties
    <3> QED  BY <3>2
  <2> QED  BY <2>1 DEF Owing, Gone
<1> HIDE DEF s
<1>5. Single(thread'[c].sends, op) /\ (Owing(thread'[c].sends, Gone(c)', op) => Owing(thread[c].sends, Gone(c), op))
  BY <1>2, <1>3, <1>4 DEF s
<1> QED  BY <1>5, BalancedStays

\* c is sent a, or nothing
LEMMA WrittenMore ==
  ASSUME TypesInv, NEW c \in Conn, NEW op, NEW d, NEW a,
         sent' = [sent EXCEPT ![d] = Append(sent[d], a)]
  PROVE  Written(c, op)' = Written(c, op) + (IF d = c /\ IsAnswer(a, op) THEN 1 ELSE 0)
<1>1. Written(c, op) \in Nat /\ IsSeq(sent[c])
  BY CountsAre
<1>2. sent'[c] = IF d = c THEN Append(sent[c], a) ELSE sent[c]
  BY DEF TypesInv, ServerType
<1>3. Cardinality(AnswersIn(Append(sent[c], a), op)) = Written(c, op) + (IF IsAnswer(a, op) THEN 1 ELSE 0)
  BY <1>1, AnswersMore DEF Written
<1>4. Written(c, op)' = Cardinality(AnswersIn(sent'[c], op))
  BY DEF Written
<1> QED  BY <1>1, <1>2, <1>3, <1>4 DEF Written

\* a message is written, by the thread of e
LEMMA BalancedWritten ==
  ASSUME TypesInv, StreamsInv, NEW c \in Conn, NEW op \in Once, Balanced(c, op), NEW e \in Conn, Cleared(e),
         S!SendWrite(e)
  PROVE  Balanced(c, op)'
<1> DEFINE a == S!Answer(e)
           d == S!Receiver(e)
           s == thread[c].sends
<1>1. /\ thread[e].step = "send" /\ thread' = [thread EXCEPT ![e].step = "flush"] /\ received' = received
      /\ sent' = [sent EXCEPT ![d] = Append(sent[d], a)]
  BY DEF S!SendWrite, S!Sending, S!At, S!Noted
<1>2. a.kind # "NOTIFICATION" => d = e
  BY <1>1, NowClear
<1>3. Written(c, op)' = Written(c, op) + (IF d = c /\ IsAnswer(a, op) THEN 1 ELSE 0)
  BY <1>1, WrittenMore
<1>4. Written(c, op) \in Nat /\ Asked(c, op) \in Nat /\ IsSeq(s)
  BY CountsAre
<1>5. thread'[c].sends = s /\ (c # e => thread'[c] = thread[c]) /\ (c = e => thread'[c].step = "flush")
  BY <1>1 DEF TypesInv, ServerType, Thread
<1>6. CASE c # e
  <2>1. ~(d = c /\ IsAnswer(a, op))
    BY <1>2, <1>6 DEF IsAnswer
  <2>2. Written(c, op)' = Written(c, op)
    BY <1>3, <1>4, <2>1
  <2>3. Gone(c)' = Gone(c)
    BY <1>5, <1>6 DEF Gone
  <2> QED  BY <1>1, <1>5, <2>2, <2>3, BalancedStays DEF Balanced
<1>7. CASE c = e
  <2>1. Gone(c) = 0 /\ Gone(c)' = 1
    BY <1>1, <1>5, <1>7 DEF Gone
  <2>2. s # <<>> /\ 1 \in DOMAIN s /\ a = s[1].answer
    <3>1. s # <<>>
      BY <1>1, <1>7 DEF StreamsInv, ThreadsInv
    <3>2. PICK T : s \in Seq(T)
      BY <1>4 DEF IsSeq
    <3>3. 1 \in DOMAIN s /\ Head(s) = s[1]
      BY <3>1, <3>2
    <3> QED  BY <1>7, <3>1, <3>3 DEF S!Answer
  <2>3. \A i \in DOMAIN s : i \in Nat
    <3>1. PICK T : s \in Seq(T)
      BY <1>4 DEF IsSeq
    <3>2. DOMAIN s = 1 .. Len(s)
      BY <3>1, LenProperties
    <3> QED  BY <3>2
  <2>4. Single(s, op)
    BY DEF Balanced
  <2> HIDE DEF s, a, d
  <2>5. CASE d = c /\ IsAnswer(a, op)
    <3>1. Owing(s, 0, op)
      BY <2>2, <2>5 DEF Owing
    <3>2. ~Owing(s, 1, op)
      BY <2>2, <2>3, <2>4, <2>5 DEF Owing, Single
    <3>3. Written(c, op) < Asked(c, op)
      BY <2>1, <3>1 DEF Balanced, s
    <3>4. Written(c, op)' = Written(c, op) + 1
      BY <1>3, <2>5
    <3>5. Asked(c, op)' = Asked(c, op)
      BY <1>1 DEF Asked
    <3>6. ~Owing(thread'[c].sends, Gone(c)', op)
      BY <1>5, <2>1, <3>2
    <3>7. Single(thread'[c].sends, op)
      BY <1>5, <2>4
    <3>8. Written(c, op)' <= Asked(c, op)'
      BY <1>4, <3>3, <3>4, <3>5
    <3> QED  BY <3>6, <3>7, <3>8 DEF Balanced
  <2>6. CASE ~(d = c /\ IsAnswer(a, op))
    <3>1. Written(c, op)' = Written(c, op)
      BY <1>3, <1>4, <2>6
    <3>2. Owing(s, 1, op) => Owing(s, 0, op)
      BY <2>3 DEF Owing
    <3>3. Owing(thread'[c].sends, Gone(c)', op) => Owing(thread[c].sends, Gone(c), op)
      BY <1>5, <2>1, <3>2 DEF s
    <3>4. Single(thread'[c].sends, op)
      BY <1>5, <2>4
    <3> QED  BY <1>1, <3>1, <3>3, <3>4, BalancedStays
  <2> QED  BY <2>5, <2>6
<1> QED  BY <1>6, <1>7

\* a request is processed
LEMMA BalancedAsked ==
  ASSUME TypesInv, StreamsInv, NEW c \in Conn, NEW op \in Once, Balanced(c, op), S!Process(c)
  PROVE  Balanced(c, op)'
<1>1. PICK m \in S!Arrived(c) :
        /\ ~S!Malformed(m)
        /\ \E request \in {S!ReadRequest(m)} :
             /\ \E sends \in S!Sends(c, request) : thread' = [thread EXCEPT ![c] = S!HasToSend(sends)]
             /\ received' = [received EXCEPT ![c] = Append(received[c], request)]
  BY DEF S!Process
<1> DEFINE request == S!ReadRequest(m)
<1>2. PICK s \in S!Sends(c, request) : thread' = [thread EXCEPT ![c] = S!HasToSend(s)]
  BY <1>1
<1>3. received' = [received EXCEPT ![c] = Append(received[c], request)] /\ sent' = sent
  BY <1>1 DEF S!Process
<1>4. request.op \in Ops \cup {0}
  BY Branches DEF Ops
<1> HIDE DEF request
<1>5. Single(s, op) /\ (Owing(s, 0, op) => request.op = op)
  BY <1>2, <1>4, SendsOne
<1>6. thread'[c].sends = s /\ Gone(c)' = 0
  <2>1. thread'[c] = S!HasToSend(s)
    BY <1>2 DEF TypesInv, ServerType
  <2> QED  BY <2>1 DEF S!HasToSend, Gone
<1>7. Written(c, op)' = Written(c, op) /\ Written(c, op) \in Nat /\ Asked(c, op) \in Nat
  BY <1>3, CountsAre DEF Written
<1>8. Asked(c, op)' = Asked(c, op) + (IF request.op = op THEN 1 ELSE 0)
  <2>1. IsSeq(received[c]) /\ received'[c] = Append(received[c], request)
    BY <1>3 DEF TypesInv, ServerType
  <2>2. Cardinality(RequestsIn(Append(received[c], request), op)) =
          Cardinality(RequestsIn(received[c], op)) + (IF request.op = op THEN 1 ELSE 0)
    BY <2>1, RequestsInMore
  <2> QED  BY <2>1, <2>2 DEF Asked
<1>9. Written(c, op) <= Asked(c, op)
  BY DEF Balanced
<1>10. Written(c, op)' <= Asked(c, op)'
  BY <1>7, <1>8, <1>9
<1>11. Owing(thread'[c].sends, Gone(c)', op) => Written(c, op)' < Asked(c, op)'
  BY <1>5, <1>6, <1>7, <1>8, <1>9
<1> QED  BY <1>5, <1>6, <1>10, <1>11 DEF Balanced

\* every step
LEMMA BalancedKept ==
  ASSUME TypesInv, StreamsInv, ClearInv, Undivided, [Next]_vars, NEW c \in Conn, NEW op \in Once, Balanced(c, op)
  PROVE  Balanced(c, op)'
<1>1. ASSUME thread'[c] = thread[c], received'[c] = received[c], sent'[c] = sent[c]
      PROVE  Balanced(c, op)'
  BY <1>1, BalancedStays DEF Balanced, Gone, Written
<1>2. ASSUME NEW e \in Conn, NEW step \in {"started", "read", "ended"}, UNCHANGED <<received, sent>>,
             thread' = [thread EXCEPT ![e].step = step], thread[e].step # "flush"
      PROVE  Balanced(c, op)'
  <2>1. thread'[c].sends = thread[c].sends
    BY <1>2 DEF TypesInv, ServerType, Thread
  <2>2. Gone(c)' = Gone(c)
    BY <1>2 DEF TypesInv, ServerType, Thread, Gone
  <2> QED  BY <1>2, <2>1, <2>2, BalancedStays DEF Balanced, Written
<1>3. ASSUME NEW e \in Conn, S!ThreadStep(e)
      PROVE  Balanced(c, op)'
  <2>1. CASE S!OpenStreams(e) \/ S!ProcessThrows(e) \/ S!LogstatThrows(e) \/ S!ReadEnds(e)
    BY <1>2, <2>1 DEF S!OpenStreams, S!ProcessThrows, S!LogstatThrows, S!ReadEnds, S!historyVars, S!At
  <2>2. CASE S!Process(e)
    <3>1. CASE e = c
      BY <2>2, <3>1, BalancedAsked
    <3>2. CASE e # c
      BY <1>1, <2>2, <3>2 DEF S!Process
    <3> QED  BY <3>1, <3>2
  <2>3. CASE S!SendNowhere(e) \/ S!SendFlush(e) \/ S!SendFails(e)
    <3>1. /\ thread[e].step \in {"send", "flush"} /\ thread' = [thread EXCEPT ![e] = S!NextSend(e)]
          /\ UNCHANGED <<received, sent>>
      BY <2>3 DEF S!SendNowhere, S!SendFlush, S!SendFails, S!Sending, S!At, S!historyVars
    <3>2. CASE e = c
      BY <3>1, <3>2, BalancedNext DEF Written
    <3>3. CASE e # c
      BY <1>1, <3>1, <3>3
    <3> QED  BY <3>2, <3>3
  <2>4. CASE S!SendWrite(e)
    BY <2>4, BalancedWritten DEF ClearInv
  <2>5. CASE S!SendLarge(e)
    <3>1. /\ thread[e].step = "send" /\ thread' = [thread EXCEPT ![e] = S!NextSend(e)]
          /\ S!IsTable(S!Answer(e)) /\ received' = received
          /\ sent' = [sent EXCEPT ![S!Receiver(e)] = Append(sent[S!Receiver(e)], S!Answer(e))]
      BY <2>5 DEF S!SendLarge, S!Sending, S!At, S!Noted
    <3>2. S!Answer(e) \in Clear /\ IsTable(S!Answer(e)) /\ S!Receiver(e) = e
      BY <3>1, NowClear, SameEncode DEF ClearInv
    <3>3. S!Answer(e).op = 7
      BY <3>2 DEF Clear, AnswersFrom, IsTable, Ack, Error, FollowAck, Statistics, Notification
    <3>4. ~IsAnswer(S!Answer(e), op)
      BY <3>3 DEF IsAnswer, Once
    <3>5. Written(c, op)' = Written(c, op)
      <4>1. Written(c, op)' = Written(c, op) + 0 /\ Written(c, op) \in Nat
        BY <3>1, <3>4, WrittenMore, CountsAre
      <4> QED  BY <4>1
    <3>6. CASE e = c
      BY <3>1, <3>5, <3>6, BalancedNext
    <3>7. CASE e # c
      BY <1>1, <3>1, <3>2, <3>7
    <3> QED  BY <3>6, <3>7
  <2> QED  BY <1>3, <2>1, <2>2, <2>3, <2>4, <2>5 DEF S!ThreadStep
<1>4. CASE S!ServeStep
  <2>1. CASE S!AcceptFails
    BY <1>1, <2>1 DEF S!AcceptFails, S!historyVars
  <2>2. ASSUME NEW e \in Conn, S!Accept(e)
        PROVE  Balanced(c, op)'
    <3>1. thread[e].step = "none" /\ thread' = [thread EXCEPT ![e].step = "started"] /\ UNCHANGED <<received, sent>>
      BY <2>2 DEF S!Accept, S!historyVars, StreamsInv, IdsInv
    <3> QED  BY <1>2, <3>1
  <2> QED  BY <1>4, <2>1, <2>2 DEF S!ServeStep
<1>5. CASE ServerStep
  BY <1>3, <1>4, <1>5 DEF ServerStep, S!ServerStep
<1>6. CASE ~ServerStep
  BY <1>1, <1>6 DEF Next, ClientStep, Lose, serverVars, vars
<1> QED  BY <1>5, <1>6

\* all the counts
LEMMA OnceKept ==
  TypesInv /\ StreamsInv /\ WiredInv /\ ClearInv /\ OnceInv /\ [Next]_vars => OnceInv'
<1> SUFFICES ASSUME TypesInv, StreamsInv, WiredInv, ClearInv, OnceInv, [Next]_vars, Undivided',
                    NEW c \in Conn, NEW op \in Once
             PROVE  Balanced(c, op)'
  BY DEF OnceInv
<1>1. Undivided
  BY UndividedBefore
<1>2. Balanced(c, op)
  BY <1>1 DEF OnceInv
<1> QED  BY <1>1, <1>2, BalancedKept

\* nothing is asked
LEMMA OnceStart == Init => OnceInv
<1> SUFFICES ASSUME Init, NEW c \in Conn, NEW op \in Once
             PROVE  Balanced(c, op)
  BY DEF OnceInv
<1>1. thread[c].sends = <<>> /\ sent[c] = <<>> /\ received[c] = <<>>
  BY DEF Init, S!Init
<1>2. AnswersIn(sent[c], op) = {} /\ RequestsIn(received[c], op) = {}
  BY <1>1 DEF AnswersIn, RequestsIn
<1>3. Written(c, op) = 0 /\ Asked(c, op) = 0
  BY <1>2, FS_EmptySet DEF Written, Asked
<1>4. DOMAIN thread[c].sends = {}
  BY <1>1
<1> QED  BY <1>3, <1>4 DEF Balanced, Single, Owing

(***************************************************************************)
(* process answers a request once, and sends the answer before it reads    *)
(* the next: whatever other threads send to the same client.               *)
(***************************************************************************)
THEOREM CountsInvariance == Spec => []OnceInv
BY TypeCorrect, Invariance, RequestsInvariance, AnswersInvariance, OnceStart, OnceKept, PTL DEF Spec

\* what is asked was typed
LEMMA AskedTyped ==
  ASSUME TypesInv, RequestsInv, Undivided, NEW c \in Conn, NEW op
  PROVE  /\ IsFiniteSet(Requested(c, op)) /\ Cardinality(Requested(c, op)) \in Nat
         /\ Asked(c, op) <= Cardinality(Requested(c, op))
<1> DEFINE R == RequestsIn(received[c], op)
           T == Requested(c, op)
<1>1. T \subseteq DOMAIN typed[c] /\ IsSeq(typed[c])
  BY DEF Requested, TypesInv, TypedType, IsSeq
<1>2. IsFiniteSet(T) /\ Cardinality(T) \in Nat
  BY <1>1, Lengthened, FS_Subset, FS_CardinalityType
<1>3. R \subseteq T
  <2> SUFFICES ASSUME NEW i \in DOMAIN received[c], received[c][i].op = op
               PROVE  i \in Requested(c, op)
    BY DEF RequestsIn
  <2>1. Clean(c, i)
    BY DEF Undivided, ToSet, Clean
  <2>2. Faithful(c, i)
    BY <2>1 DEF RequestsInv, FaithfulInv
  <2> QED  BY <2>2 DEF Faithful, Requested
<1> HIDE DEF R, T
<1>4. Cardinality(R) <= Cardinality(T)
  BY <1>2, <1>3, FS_Subset
<1> QED  BY <1>2, <1>4 DEF R, T, Asked

\* what is printed was sent
LEMMA ToldWritten ==
  ASSUME TypesInv, NEW c \in Conn, ReaderIn(c), NEW op
  PROVE  /\ AnswersTo(c, op) \subseteq AnswersIn(sent[c], op)
         /\ Cardinality(AnswersTo(c, op)) \in Nat /\ Cardinality(AnswersTo(c, op)) <= Written(c, op)
<1> DEFINE W == AnswersIn(sent[c], op)
           P == AnswersTo(c, op)
<1>1. IsSeq(printed[c]) /\ IsSeq(sent[c]) /\ Printed(c)
  BY DEF TypesInv, ReadersType, ServerType, IsSeq, ReaderIn
<1>2. IsFiniteSet(W)
  BY <1>1, AnswersMore
<1>3. P \subseteq W
  <2>1. PICK A : printed[c] \in Seq(A)
    BY <1>1 DEF IsSeq
  <2>2. PICK B : sent[c] \in Seq(B)
    BY <1>1 DEF IsSeq
  <2>3. DOMAIN printed[c] = 1 .. Len(printed[c]) /\ DOMAIN sent[c] = 1 .. Len(sent[c])
        /\ Len(printed[c]) \in Nat /\ Len(sent[c]) \in Nat
    BY <2>1, <2>2, LenProperties
  <2>4. \A i \in DOMAIN printed[c] : i \in DOMAIN sent[c] /\ printed[c][i] = sent[c][i]
    BY <1>1, <2>3 DEF Printed
  <2> QED  BY <2>4 DEF AnswersTo, AnswersIn, IsAnswer
<1> HIDE DEF P, W
<1>4. Cardinality(P) \in Nat /\ Cardinality(P) <= Cardinality(W)
  BY <1>2, <1>3, FS_Subset, FS_CardinalityType
<1> QED  BY <1>3, <1>4 DEF P, W, Written

(***************************************************************************)
(* No request is answered twice: what a client prints was written to it,   *)
(* what was written was asked, and what was asked was typed, one for one.  *)
(***************************************************************************)
THEOREM AnsweredAtMostOnce == Spec => []AnsweredOnce
<1>1. TypesInv /\ RequestsInv /\ ReaderInv /\ OnceInv => AnsweredOnce
  <2> SUFFICES ASSUME TypesInv, RequestsInv, ReaderInv, OnceInv, Undivided, NEW c \in Conn, NEW op \in Once
               PROVE  Cardinality(AnswersTo(c, op)) <= Cardinality(Requested(c, op))
    BY DEF AnsweredOnce, Once
  <2>1. Cardinality(AnswersTo(c, op)) \in Nat /\ Cardinality(AnswersTo(c, op)) <= Written(c, op)
    BY ToldWritten DEF ReaderInv
  <2>2. Written(c, op) \in Nat /\ Asked(c, op) \in Nat /\ Written(c, op) <= Asked(c, op)
    BY CountsAre DEF OnceInv, Balanced
  <2>3. Cardinality(Requested(c, op)) \in Nat /\ Asked(c, op) <= Cardinality(Requested(c, op))
    BY AskedTyped
  <2> QED  BY <2>1, <2>2, <2>3
<1> QED  BY TypeCorrect, RequestsInvariance, AnswersInvariance, CountsInvariance, <1>1, PTL

-----------------------------------------------------------------------------
(* LOGOUT *)

\* an answer, whole or in part
IsAnAnswer(a) == a = AnswerOf(a.kind, a.op, a.fields)

\* what a part of an answer belongs to
KindIn(c) ==
  /\ IsAnAnswer(reader[c].answer)
  /\ reader[c].step \in {"messageOpcode", "arg"} => reader[c].answer.kind # "NOTIFICATION"
  /\ reader[c].step \in {"stat", "postingUser", "content"} => reader[c].answer.kind = "NOTIFICATION"
  /\ reader[c].step \in {"action", "userName", "extra"} => reader[c].answer.op = 4
  /\ reader[c].step = "arguments" => reader[c].answer.op \in {7, 8}

KindInv == \A c \in Conn : KindIn(c)

\* the client of c has an answer to LOGOUT that it has not printed
Unprinted(c) == reader[c].step = "last" /\ IsAnswer(reader[c].answer, 3)

\* how many answers to LOGOUT it has had, and how often it was typed
Told(c) == Cardinality(AnswersTo(c, 3)) + (IF Unprinted(c) THEN 1 ELSE 0)
Times(c) == Cardinality(Requested(c, 3))

LastTyped(c) == typed[c] # <<>> /\ Last(typed[c]) = C!ExactLogout

\* every LOGOUT was refused
Refused(c) ==
  /\ Times(c) = Told(c)
  /\ keyboard[c] \in {"none", "test", "getline"} => ~logoutFailed[c]

\* the last line is a LOGOUT that has no answer
Waits(c) ==
  /\ Times(c) = Told(c) + 1 /\ LastTyped(c)
  /\ keyboard[c] \in {"wait", "done"}
  /\ keyboard[c] = "wait" => ~logoutFailed[c]

\* the last line is a LOGOUT, and the keyboard thread types no more
Over(c) == LastTyped(c) /\ keyboard[c] \in {"wait", "reset", "test", "done"}

LogoutIn(c) == IF terminate[c] THEN Over(c) ELSE Refused(c) \/ Waits(c)

LogoutInv == Undivided => \A c \in Conn : ExactOnly(c) => LogoutIn(c)

\* where the opcode of an answer is read, another answer was sent than those printed
LEMMA LogoutAnswered ==
  ASSUME TypesInv, NEW c \in Conn, Cleared(c), ReaderIn(c),
         NEW step \in {"messageOpcode", "arg"}, C!CanGet(c, step), C!Number(C!Got(c, step)) = 3
  PROVE  Cardinality(AnswersTo(c, 3)) \in Nat /\ Cardinality(AnswersTo(c, 3)) + 1 <= Written(c, 3)
<1>1. /\ step \in DOMAIN C!Size \ {"opCode", "last"} /\ step \notin C!Frames \cup {"last"}
      /\ C!Size[step] = 2 /\ C!ReaderAt(c, step) /\ Len(toClient[c]) >= C!Size[step]
  BY DEF C!Size, C!Frames, C!CanGet
<1>2. toClient[c] # <<>>
  BY <1>1
<1>3. Within(c)
  BY <1>1, <1>2, ReadingIs
<1>4. PICK m : m = Len(printed[c]) + 1
  OBVIOUS
<1>5. PICK a : a = sent[c][m]
  OBVIOUS
<1>6. /\ a \in Clear /\ step \in StepsOf(a) /\ Ahead(c, m, Left(step, a))
      /\ Len(printed[c]) \in Nat /\ Len(printed[c]) < Len(sent[c])
  BY <1>1, <1>3, <1>4, <1>5, WithinIs DEF Within, C!ReaderAt
<1>7. a.kind # "NOTIFICATION"
  BY <1>6 DEF StepsOf
<1>8. PICK u : BytesAt(step, a, u)
  BY <1>1, <1>6, Anatomies DEF Anatomy
<1>9. PICK v : v = Left(NextStep(step, a), a)
  OBVIOUS
<1>10. PICK x : x = Left(step, a)
  OBVIOUS
<1>11. /\ u \in Seq(Byte) /\ v \in Seq(Byte) /\ x = u \o v /\ Ahead(c, m, x)
       /\ Len(u) = C!Size[step] /\ Len(u) <= Len(toClient[c])
  <2>1. \A i \in StepsOf(a) : Left(i, a) \in Seq(Byte)
    BY <1>6, Anatomies DEF Anatomy
  <2> QED  BY <1>1, <1>6, <1>8, <1>9, <1>10, <2>1 DEF BytesAt
<1>12. SubSeq(toClient[c], 1, Len(u)) = u
  BY <1>11, PieceRead
<1>13. C!Number(u) = 3
  BY <1>11, <1>12 DEF C!Got
<1>14. a.op = 3
  <2>1. CASE step = "messageOpcode"
    BY <1>8, <1>13, <2>1 DEF BytesAt
  <2>2. CASE step = "arg"
    <3>1. NextStep(step, a) = "last" /\ Partial("last", a) = a
      BY <2>2 DEF NextStep, Partial
    <3>2. Decoded(step, Partial(step, a), u).op = C!Number(u)
      BY <2>2 DEF Decoded, Partial, AnswerOf
    <3> QED  BY <1>8, <1>13, <3>1, <3>2 DEF BytesAt
  <2> QED  BY <2>1, <2>2
<1>15. IsAnswer(a, 3)
  BY <1>7, <1>14 DEF IsAnswer
<1> DEFINE P == AnswersTo(c, 3)
           W == AnswersIn(sent[c], 3)
<1>16. P \subseteq W /\ m \in W /\ m \notin P /\ IsFiniteSet(W)
  <2>1. IsSeq(sent[c])
    BY DEF TypesInv, ServerType, IsSeq
  <2>2. PICK A : printed[c] \in Seq(A)
    BY DEF TypesInv, ReadersType, IsSeq
  <2>3. PICK B : sent[c] \in Seq(B)
    BY <2>1 DEF IsSeq
  <2>4. DOMAIN printed[c] = 1 .. Len(printed[c]) /\ DOMAIN sent[c] = 1 .. Len(sent[c]) /\ Len(sent[c]) \in Nat
    BY <2>2, <2>3, LenProperties
  <2>5. m \in DOMAIN sent[c] /\ m \notin DOMAIN printed[c]
    BY <1>4, <1>6, <2>4
  <2>6. m \in W /\ m \notin P
    BY <1>5, <1>15, <2>5 DEF AnswersIn, AnswersTo
  <2> QED  BY <2>1, <2>6, ToldWritten, AnswersMore
<1> HIDE DEF P, W
<1>17. IsFiniteSet(P) /\ P \cup {m} \subseteq W
  BY <1>16, FS_Subset
<1>18. Cardinality(P \cup {m}) = Cardinality(P) + 1 /\ Cardinality(P) \in Nat
  BY <1>16, <1>17, FS_AddElement, FS_CardinalityType
<1>19. Cardinality(P \cup {m}) <= Cardinality(W)
  BY <1>16, <1>17, FS_Subset
<1> QED  BY <1>18, <1>19 DEF P, W, Written

\* ... so that a LOGOUT is waiting for it
LEMMA LogoutWaits ==
  ASSUME TypesInv, RequestsInv, Undivided, NEW c \in Conn, Cleared(c), ReaderIn(c), Balanced(c, 3),
         NEW step \in {"messageOpcode", "arg"}, C!CanGet(c, step), C!Number(C!Got(c, step)) = 3,
         LogoutIn(c)
  PROVE  terminate[c] \/ (Waits(c) /\ Times(c) = Cardinality(AnswersTo(c, 3)) + 1)
<1>1. Cardinality(AnswersTo(c, 3)) \in Nat /\ Cardinality(AnswersTo(c, 3)) + 1 <= Written(c, 3)
  BY LogoutAnswered
<1>2. Written(c, 3) \in Nat /\ Asked(c, 3) \in Nat /\ Written(c, 3) <= Asked(c, 3)
  BY CountsAre DEF Balanced
<1>3. Times(c) \in Nat /\ Asked(c, 3) <= Times(c)
  BY AskedTyped DEF Times
<1>4. Told(c) = Cardinality(AnswersTo(c, 3))
  <2>1. ~Unprinted(c)
    BY DEF Unprinted, C!CanGet, C!ReaderAt
  <2> QED  BY <1>1, <2>1 DEF Told
<1>5. Times(c) # Told(c)
  BY <1>1, <1>2, <1>3, <1>4
<1> QED  BY <1>4, <1>5 DEF LogoutIn, Refused, Waits

\* where the reader goes
LEMMA OnToIs ==
  ASSUME TypesInv, NEW c \in Conn, NEW next, NEW answer, C!OnTo(c, next, answer)
  PROVE  reader'[c].step = next /\ reader'[c].answer = answer
BY DEF C!OnTo, TypesInv, ReadersType

\* a part that is read is no answer to LOGOUT
LEMMA PartKind ==
  ASSUME TypesInv, NEW c \in Conn, KindIn(c), NEW step \in C!Frames \cup {"stat", "action", "extra", "arguments"},
         reader[c].step = step, NEW answer, IsAnAnswer(answer), answer.kind = reader[c].answer.kind,
         answer.op = reader[c].answer.op, C!OnTo(c, C!After[step], answer)
  PROVE  KindIn(c)' /\ ~Unprinted(c) /\ ~Unprinted(c)'
<1>1. reader'[c].step = C!After[step] /\ reader'[c].answer = answer
  BY OnToIs
<1>2. step \in {"stat", "postingUser", "content", "action", "userName", "extra", "arguments"}
  BY DEF C!Frames
<1>3. /\ step = "stat" => C!After[step] = "postingUser"
      /\ step = "postingUser" => C!After[step] = "content"
      /\ step = "content" => C!After[step] = "last"
      /\ step = "action" => C!After[step] = "userName"
      /\ step = "userName" => C!After[step] = "extra"
      /\ step \in {"extra", "arguments"} => C!After[step] = "last"
  BY DEF C!After
<1>4. \/ step \in {"stat", "postingUser", "content"} /\ answer.kind = "NOTIFICATION"
      \/ step \in {"action", "userName", "extra"} /\ answer.op = 4
      \/ step = "arguments" /\ answer.op \in {7, 8}
  BY <1>2 DEF KindIn
<1>5. KindIn(c)'
  BY <1>1, <1>3, <1>4 DEF KindIn
<1>6. ~Unprinted(c)
  BY <1>2 DEF Unprinted
<1>7. ~Unprinted(c)'
  BY <1>1, <1>4 DEF Unprinted, IsAnswer
<1> QED  BY <1>5, <1>6, <1>7

\* a field more, and it is the same answer
LEMMA FieldMore ==
  ASSUME NEW a, IsAnAnswer(a), NEW f
  PROVE  /\ IsAnAnswer([a EXCEPT !.fields = Append(@, f)])
         /\ [a EXCEPT !.fields = Append(@, f)].kind = a.kind
         /\ [a EXCEPT !.fields = Append(@, f)].op = a.op
BY DEF IsAnAnswer, AnswerOf

\* the opcode of it
LEMMA OpMore ==
  ASSUME NEW a, IsAnAnswer(a), NEW op
  PROVE  /\ IsAnAnswer([a EXCEPT !.op = op])
         /\ [a EXCEPT !.op = op].kind = a.kind
         /\ [a EXCEPT !.op = op].op = op
BY DEF IsAnAnswer, AnswerOf

\* what begins it
LEMMA KindMore ==
  ASSUME NEW a, IsAnAnswer(a), NEW kind
  PROVE  IsAnAnswer([a EXCEPT !.kind = kind]) /\ [a EXCEPT !.kind = kind].kind = kind
BY DEF IsAnAnswer, AnswerOf

\* nothing is said to c of a LOGOUT
Untold(c) ==
  /\ terminate'[c] = terminate[c] /\ logoutFailed'[c] = logoutFailed[c]
  /\ Told(c)' = Told(c)

\* a step of the reader
LEMMA LogoutRead ==
  ASSUME TypesInv, NEW c \in Conn, KindIn(c), C!ReaderStep(c)
  PROVE  KindIn(c)' /\ (Untold(c) \/ C!DecodeAck(c) \/ C!DecodeError(c))
<1>1. ASSUME UNCHANGED <<terminate, logoutFailed, printed>>, Unprinted(c)' <=> Unprinted(c)
      PROVE  Untold(c)
  BY <1>1 DEF Untold, Told, AnswersTo
<1>2. IsAnAnswer(reader[c].answer)
  BY DEF KindIn
<1>3. CASE C!DecodeOpcode(c)
  <2> DEFINE n == C!NoAnswer
             note == [[n EXCEPT !.kind = "NOTIFICATION"] EXCEPT !.op = 9]
  <2>1. /\ IsAnAnswer(note) /\ note.kind = "NOTIFICATION"
        /\ \A kind : IsAnAnswer([n EXCEPT !.kind = kind]) /\ [n EXCEPT !.kind = kind].kind = kind
    <3>1. IsAnAnswer(n)
      BY DEF IsAnAnswer, AnswerOf, C!NoAnswer
    <3>2. \A kind : IsAnAnswer([n EXCEPT !.kind = kind]) /\ [n EXCEPT !.kind = kind].kind = kind
      BY <3>1, KindMore
    <3> DEFINE m == [n EXCEPT !.kind = "NOTIFICATION"]
    <3>3. IsAnAnswer(m) /\ m.kind = "NOTIFICATION"
      BY <3>2
    <3>4. note = [m EXCEPT !.op = 9]
      OBVIOUS
    <3> HIDE DEF m, note
    <3>5. IsAnAnswer(note) /\ note.kind = "NOTIFICATION"
      BY <3>3, <3>4, OpMore
    <3> QED  BY <3>2, <3>5
  <2>2. /\ reader[c].step = "opCode" /\ UNCHANGED <<terminate, logoutFailed, printed>>
        /\ \/ C!OnTo(c, "stat", [n EXCEPT !.kind = "NOTIFICATION", !.op = 9])
           \/ C!OnTo(c, "messageOpcode", [n EXCEPT !.kind = "ACK"])
           \/ C!OnTo(c, "arg", [n EXCEPT !.kind = "ERROR"])
    BY <1>3 DEF C!DecodeOpcode, C!CanGet, C!ReaderAt, C!flagVars
  <2>3. [n EXCEPT !.kind = "NOTIFICATION", !.op = 9] = note
    OBVIOUS
  <2> HIDE DEF note, n
  <2>4. ~Unprinted(c)
    BY <2>2 DEF Unprinted
  <2>5. CASE C!OnTo(c, "stat", note)
    <3>1. reader'[c].step = "stat" /\ reader'[c].answer = note
      BY <2>5, OnToIs
    <3>2. KindIn(c)' /\ ~Unprinted(c)'
      BY <2>1, <3>1 DEF KindIn, Unprinted
    <3> QED  BY <1>1, <2>2, <2>4, <3>2
  <2>6. ASSUME NEW step \in {"messageOpcode", "arg"}, NEW kind \in {"ACK", "ERROR"},
               C!OnTo(c, step, [n EXCEPT !.kind = kind])
        PROVE  KindIn(c)' /\ Untold(c)
    <3>1. PICK a : a = [n EXCEPT !.kind = kind]
      OBVIOUS
    <3>2. reader'[c].step = step /\ reader'[c].answer = a
      BY <2>6, <3>1, OnToIs
    <3>3. IsAnAnswer(a) /\ a.kind = kind
      BY <2>1, <3>1
    <3>4. KindIn(c)' /\ ~Unprinted(c)'
      BY <3>2, <3>3 DEF KindIn, Unprinted
    <3> QED  BY <1>1, <2>2, <2>4, <3>4
  <2> QED  BY <2>2, <2>3, <2>5, <2>6
<1>4. CASE C!DecodeNothing(c) \/ \E step \in DOMAIN C!Size : C!ReadFails(c, step)
  <2>1. UNCHANGED <<terminate, logoutFailed, printed, reader>>
    BY <1>4 DEF C!DecodeNothing, C!ReadFails, C!flagVars, C!readerVars
  <2>2. KindIn(c)' /\ Unprinted(c)' = Unprinted(c)
    BY <2>1 DEF KindIn, Unprinted
  <2> QED  BY <1>1, <2>1, <2>2
<1>5. CASE C!DecodeAck(c)
  <2>1. PICK op : /\ op = C!Number(C!Got(c, "messageOpcode"))
                  /\ C!OnTo(c,
                            CASE op = 4 -> "action" [] op \in {7, 8} -> "arguments" [] OTHER -> "last",
                            [reader[c].answer EXCEPT !.op = op])
    BY <1>5 DEF C!DecodeAck
  <2>2. PICK a : a = [reader[c].answer EXCEPT !.op = op]
    OBVIOUS
  <2>3. IsAnAnswer(a) /\ a.op = op
    BY <1>2, <2>2, OpMore
  <2>4. PICK next : next = CASE op = 4 -> "action" [] op \in {7, 8} -> "arguments" [] OTHER -> "last"
    OBVIOUS
  <2>5. \/ op = 4 /\ next = "action"
        \/ op \in {7, 8} /\ next = "arguments"
        \/ next = "last"
    BY <2>4
  <2>6. reader'[c].step = next /\ reader'[c].answer = a
    BY <2>1, <2>2, <2>4, OnToIs
  <2> QED  BY <1>5, <2>3, <2>5, <2>6 DEF KindIn
<1>6. CASE C!DecodeError(c)
  <2>1. PICK op : C!OnTo(c, "last", [reader[c].answer EXCEPT !.op = op])
    BY <1>6 DEF C!DecodeError
  <2>2. PICK a : a = [reader[c].answer EXCEPT !.op = op]
    OBVIOUS
  <2>3. reader'[c].step = "last" /\ reader'[c].answer = a /\ IsAnAnswer(a)
    BY <1>2, <2>1, <2>2, OnToIs, OpMore
  <2> QED  BY <1>6, <2>3 DEF KindIn
<1>7. CASE C!PrintAnswer(c)
  <2>1. /\ reader[c].step = "last" /\ UNCHANGED <<terminate, logoutFailed>>
        /\ printed' = [printed EXCEPT ![c] = Append(@, reader[c].answer)]
        /\ \E next \in {"opCode", "done"} : C!OnTo(c, next, C!NoAnswer)
    BY <1>7 DEF C!PrintAnswer, C!CanGet, C!ReaderAt, C!flagVars
  <2>2. reader'[c].step \in {"opCode", "done"} /\ reader'[c].answer = C!NoAnswer
    BY <2>1, OnToIs
  <2>3. IsAnAnswer(C!NoAnswer)
    BY DEF IsAnAnswer, AnswerOf, C!NoAnswer
  <2>4. KindIn(c)' /\ ~Unprinted(c)'
    BY <2>2, <2>3 DEF KindIn, Unprinted
  <2>5. printed'[c] = Append(printed[c], reader[c].answer) /\ IsSeq(printed[c])
    BY <2>1 DEF TypesInv, ReadersType
  <2>6. \A q : Cardinality(AnswersIn(q, 3)) = Cardinality({i \in DOMAIN q : q[i].kind # "NOTIFICATION" /\ q[i].op = 3})
    BY DEF AnswersIn, IsAnswer
  <2>7. /\ Cardinality(AnswersTo(c, 3)) = Cardinality(AnswersIn(printed[c], 3))
        /\ Cardinality(AnswersTo(c, 3))' = Cardinality(AnswersIn(printed'[c], 3))
    BY <2>6 DEF AnswersTo
  <2>8. /\ Cardinality(AnswersTo(c, 3)) \in Nat
        /\ Cardinality(AnswersTo(c, 3))' =
             Cardinality(AnswersTo(c, 3)) + (IF IsAnswer(reader[c].answer, 3) THEN 1 ELSE 0)
    BY <2>5, <2>7, AnswersMore
  <2>9. Told(c)' = Cardinality(AnswersTo(c, 3))' + 0
    BY <2>4 DEF Told
  <2>10. Told(c) = Cardinality(AnswersTo(c, 3)) + (IF IsAnswer(reader[c].answer, 3) THEN 1 ELSE 0)
    BY <2>1 DEF Told, Unprinted
  <2>11. Told(c)' = Told(c)
    BY <2>8, <2>9, <2>10
  <2> QED  BY <2>1, <2>4, <2>11 DEF Untold
<1>8. ASSUME NEW step \in C!Frames \cup {"stat", "action", "extra", "arguments"}, reader[c].step = step,
             UNCHANGED <<terminate, logoutFailed, printed>>,
             NEW a, a = reader[c].answer \/ \E f : a = [reader[c].answer EXCEPT !.fields = Append(@, f)],
             C!OnTo(c, C!After[step], a)
      PROVE  KindIn(c)' /\ Untold(c)
  <2>1. IsAnAnswer(a) /\ a.kind = reader[c].answer.kind /\ a.op = reader[c].answer.op
    <3>1. PICK b : b = reader[c].answer
      OBVIOUS
    <3>2. CASE a = b
      BY <1>2, <3>1, <3>2
    <3>3. CASE \E f : a = [b EXCEPT !.fields = Append(@, f)]
      <4>1. PICK f : a = [b EXCEPT !.fields = Append(@, f)]
        BY <3>3
      <4>2. IsAnAnswer(b)
        BY <1>2, <3>1
      <4>3. IsAnAnswer(a) /\ a.kind = b.kind /\ a.op = b.op
        BY <4>1, <4>2, FieldMore
      <4> QED  BY <3>1, <4>3
    <3> QED  BY <1>8, <3>1, <3>2, <3>3
  <2> QED  BY <1>1, <1>8, <2>1, PartKind
<1>9. ASSUME NEW step \in {"stat", "action", "extra", "arguments"}, C!DecodeBytes(c, step)
      PROVE  KindIn(c)' /\ Untold(c)
  <2>1. PICK a : a = CASE step = "extra" -> reader[c].answer
                       [] step = "arguments" -> C!Field(c, C!Numbers(C!Got(c, step)))
                       [] OTHER -> C!Field(c, C!Got(c, step))
    OBVIOUS
  <2>2. a = reader[c].answer \/ \E f : a = [reader[c].answer EXCEPT !.fields = Append(@, f)]
    BY <2>1 DEF C!Field
  <2>3. /\ reader[c].step = step /\ C!OnTo(c, C!After[step], a)
        /\ UNCHANGED <<terminate, logoutFailed, printed>>
    BY <1>9, <2>1 DEF C!DecodeBytes, C!CanGet, C!ReaderAt, C!flagVars
  <2> QED  BY <1>8, <2>2, <2>3
<1>10. ASSUME NEW step \in C!Frames, C!DecodeFrame(c, step) \/ C!FrameOfNothing(c, step)
       PROVE  KindIn(c)' /\ Untold(c)
  <2>1. /\ reader[c].step = step /\ UNCHANGED <<terminate, logoutFailed, printed>>
        /\ \E f : C!OnTo(c, C!After[step], C!Field(c, f))
    BY <1>10 DEF C!DecodeFrame, C!FrameOfNothing, C!CutFrame, C!ReaderAt, C!flagVars
  <2>2. PICK f : C!OnTo(c, C!After[step], C!Field(c, f))
    BY <2>1
  <2>3. C!Field(c, f) = [reader[c].answer EXCEPT !.fields = Append(@, f)]
    BY DEF C!Field
  <2> QED  BY <1>8, <2>1, <2>2, <2>3
<1>11. ASSUME NEW step \in C!Frames, C!FrameRepeats(c, step)
       PROVE  KindIn(c)' /\ Untold(c)
  <2>1. reader'[c].step = "repeat" /\ reader'[c].answer = reader[c].answer
    <3>1. PICK A : reader[c] \in [step : C!ReaderSteps, answer : A]
      BY DEF TypesInv, ReadersType, IsReader
    <3> QED  BY <1>11, <3>1 DEF C!FrameRepeats, TypesInv, ReadersType
  <2>2. UNCHANGED <<terminate, logoutFailed, printed>> /\ reader[c].step # "last"
    BY <1>11 DEF C!FrameRepeats, C!CutFrame, C!ReaderAt, C!Frames, C!flagVars
  <2>3. KindIn(c)' /\ Unprinted(c)' = Unprinted(c)
    BY <1>2, <2>1, <2>2 DEF KindIn, Unprinted
  <2> QED  BY <1>1, <2>2, <2>3
<1> QED  BY <1>3, <1>4, <1>5, <1>6, <1>7, <1>9, <1>10, <1>11 DEF C!ReaderStep

\* nothing happens to the keyboard thread of c and what it depends on
LEMMA LogoutStays ==
  ASSUME NEW c \in Conn, LogoutIn(c), Untold(c), typed'[c] = typed[c], keyboard'[c] = keyboard[c]
  PROVE  LogoutIn(c)'
BY DEF LogoutIn, Over, Waits, Refused, LastTyped, Times, Requested, Untold

\* what the client of c is
Unmoved(c) ==
  /\ terminate'[c] = terminate[c] /\ logoutFailed'[c] = logoutFailed[c]
  /\ typed'[c] = typed[c] /\ keyboard'[c] = keyboard[c]
  /\ reader'[c] = reader[c] /\ printed'[c] = printed[c]

\* ... and if it stays so
LEMMA UnmovedKept ==
  ASSUME NEW c \in Conn, Unmoved(c)
  PROVE  (LogoutIn(c) => LogoutIn(c)') /\ (KindIn(c) => KindIn(c)')
<1>1. Untold(c)
  BY DEF Unmoved, Untold, Told, AnswersTo, Unprinted
<1>2. KindIn(c) => KindIn(c)'
  BY DEF Unmoved, KindIn
<1> QED  BY <1>1, <1>2, LogoutStays DEF Unmoved

\* clients do not meddle with each other
LEMMA OthersUnmoved ==
  ASSUME TypesInv, NEW c \in Conn, NEW d \in Conn, d # c, C!ClientStep(d)
  PROVE  Unmoved(c)
<1>0. /\ DOMAIN terminate = Conn /\ DOMAIN logoutFailed = Conn /\ DOMAIN typed = Conn
      /\ DOMAIN keyboard = Conn /\ DOMAIN reader = Conn /\ DOMAIN printed = Conn
  BY DEF TypesInv, FlagsType, TypedType, ProgramsType, ReadersType
<1>1. CASE C!MainStep(d)
  BY <1>0, <1>1 DEF C!MainStep, C!Start, C!StartFails, C!Exit, C!flagVars, C!keyboardVars, C!readerVars, Unmoved
<1>2. ASSUME NEW line, C!SendLine(d, line)
      PROVE  Unmoved(c)
  BY <1>0, <1>2 DEF C!SendLine, C!KeyboardTo, C!readerVars, Unmoved
<1>3. CASE C!UserStep(d) \/ C!GetNothing(d)
  BY <1>2, <1>3 DEF C!UserStep, C!Type, C!TypeTooLong, C!InputEnds, C!GetNothing
<1>4. CASE C!KeyboardTest(d) \/ C!WaitEnds(d) \/ C!ResetLogout(d)
  BY <1>0, <1>4 DEF C!KeyboardTest, C!WaitEnds, C!ResetLogout, C!KeyboardTo, C!flagVars, C!readerVars, Unmoved
<1>5. CASE C!ReaderStep(d)
  <2>1. UNCHANGED <<typed, keyboard>>
    BY <1>5 DEF C!ReaderStep, C!DecodeOpcode, C!DecodeNothing, C!DecodeAck, C!DecodeError, C!PrintAnswer,
                C!DecodeBytes, C!DecodeFrame, C!FrameRepeats, C!FrameOfNothing, C!ReadFails, C!keyboardVars
  <2>2. terminate'[c] = terminate[c] /\ logoutFailed'[c] = logoutFailed[c]
    BY <1>0, <1>5 DEF C!ReaderStep, C!DecodeOpcode, C!DecodeNothing, C!DecodeAck, C!DecodeError, C!PrintAnswer,
                C!DecodeBytes, C!DecodeFrame, C!FrameRepeats, C!FrameOfNothing, C!ReadFails, C!flagVars
  <2>3. reader'[c] = reader[c] /\ printed'[c] = printed[c]
    BY <1>0, <1>5 DEF C!ReaderStep, C!DecodeOpcode, C!DecodeNothing, C!DecodeAck, C!DecodeError, C!PrintAnswer,
                C!DecodeBytes, C!DecodeFrame, C!FrameRepeats, C!FrameOfNothing, C!ReadFails, C!OnTo, C!readerVars
  <2> QED  BY <2>1, <2>2, <2>3 DEF Unmoved
<1> QED  BY <1>1, <1>3, <1>4, <1>5 DEF C!ClientStep, C!KeyboardStep

\* a line more
LEMMA TimesMore ==
  ASSUME TypesInv, NEW c \in Conn, NEW line \in Typable, typed' = [typed EXCEPT ![c] = Append(typed[c], line)]
  PROVE  /\ Times(c) \in Nat /\ Times(c)' = Times(c) + (IF line.word = "LOGOUT" THEN 1 ELSE 0)
         /\ line = C!ExactLogout => LastTyped(c)'
         /\ line \in ToSet(typed[c])'
<1> DEFINE s == typed[c]
           t == typed'[c]
           n == Len(s) + 1
           R == Requested(c, 3)
           T == Requested(c, 3)'
<1>1. /\ Len(t) = n /\ DOMAIN s = 1 .. Len(s) /\ DOMAIN t = 1 .. n /\ Len(s) \in Nat
      /\ \A i \in DOMAIN s : t[i] = s[i]
      /\ t[n] = line
  BY TypedMore, TypedBytesAre
<1>2. Op[line.word] = 3 <=> line.word = "LOGOUT"
  BY Sendable DEF Typable, Op
<1>3. R = {i \in DOMAIN s : Op[s[i].word] = 3} /\ T = {i \in DOMAIN t : Op[t[i].word] = 3}
  BY DEF Requested
<1>4. IsFiniteSet(DOMAIN s)
  BY <1>1, FS_Interval
<1> HIDE DEF s, t, R, T, n
<1>5. n \notin DOMAIN s /\ DOMAIN t = DOMAIN s \cup {n} /\ n \in DOMAIN t
  BY <1>1 DEF n
<1>6. IsFiniteSet(R) /\ Cardinality(R) \in Nat
  BY <1>3, <1>4, FS_Subset, FS_CardinalityType
<1>7. n \notin R /\ T = IF line.word = "LOGOUT" THEN R \cup {n} ELSE R
  BY <1>1, <1>2, <1>3, <1>5
<1>8. Cardinality(T) = Cardinality(R) + (IF line.word = "LOGOUT" THEN 1 ELSE 0)
  <2>1. Cardinality(R \cup {n}) = Cardinality(R) + 1
    BY <1>6, <1>7, FS_AddElement
  <2> QED  BY <1>6, <1>7, <2>1
<1>9. t # <<>> /\ Last(t) = line
  <2>1. Len(t) # 0 /\ Len(<<>>) = 0
    BY <1>1 DEF n
  <2> QED  BY <1>1, <2>1 DEF Last
<1>10. line \in ToSet(t)
  BY <1>1, <1>5 DEF ToSet
<1> QED  BY <1>6, <1>8, <1>9, <1>10 DEF R, T, t, Times, LastTyped

\* a line is sent: after a LOGOUT the keyboard thread waits, or it is done
LEMMA LogoutTyped ==
  ASSUME TypesInv, NEW c \in Conn, keyboard[c] = "getline", LogoutIn(c), NEW line \in C!Line, C!SendLine(c, line),
         ExactOnly(c)'
  PROVE  LogoutIn(c)'
<1>0. C!Encoder(line) = Encoder(line) /\ (Encoder(line) # <<>> <=> line.word \in DOMAIN Op)
  BY Sendable
<1>1. /\ UNCHANGED <<terminate, logoutFailed, reader, printed>>
      /\ \/ keyboard'[c] = IF line = C!ExactLogout THEN "wait" ELSE "test"
         \/ keyboard'[c] = "done" /\ Encoder(line) # <<>>
  BY <1>0 DEF C!SendLine, C!KeyboardTo, C!readerVars, TypesInv, ProgramsType
<1>2. ~terminate[c] /\ Times(c) = Told(c) /\ ~logoutFailed[c]
  BY DEF LogoutIn, Over, Refused, Waits
<1>3. Told(c)' = Told(c) /\ ~terminate'[c] /\ ~logoutFailed'[c]
  BY <1>1, <1>2 DEF Told, AnswersTo, Unprinted
<1>4. C!ExactLogout.word = "LOGOUT" /\ "LOGOUT" \in DOMAIN Op
  BY DEF C!ExactLogout, Op
<1>5. CASE Encoder(line) = <<>>
  <2>1. typed' = typed /\ keyboard'[c] = "test"
    BY <1>0, <1>1, <1>4, <1>5 DEF C!SendLine
  <2>2. Times(c)' = Times(c)
    BY <2>1 DEF Times, Requested
  <2> QED  BY <1>2, <1>3, <2>2 DEF LogoutIn, Refused
<1>6. CASE Encoder(line) # <<>>
  <2>1. typed' = [typed EXCEPT ![c] = Append(typed[c], line)] /\ line \in Typable
    BY <1>0, <1>6 DEF C!SendLine, Typable
  <2>2. /\ Times(c) \in Nat /\ Times(c)' = Times(c) + (IF line.word = "LOGOUT" THEN 1 ELSE 0)
        /\ line = C!ExactLogout => LastTyped(c)'
        /\ line \in ToSet(typed[c])'
    BY <2>1, TimesMore
  <2>3. line.word = "LOGOUT" => line = C!ExactLogout
    BY <2>2 DEF ExactOnly
  <2>4. CASE line.word = "LOGOUT"
    <3>1. Times(c)' = Told(c)' + 1 /\ LastTyped(c)' /\ keyboard'[c] \in {"wait", "done"}
      BY <1>1, <1>2, <1>3, <2>2, <2>3, <2>4
    <3> QED  BY <1>3, <3>1 DEF LogoutIn, Waits
  <2>5. CASE line.word # "LOGOUT"
    <3>1. Times(c)' = Told(c)'
      BY <1>2, <1>3, <2>2, <2>5
    <3> QED  BY <1>3, <3>1 DEF LogoutIn, Refused
  <2> QED  BY <2>4, <2>5
<1> QED  BY <1>5, <1>6

\* the other steps of the keyboard thread, and of main
LEMMA LogoutGoesOn ==
  ASSUME TypesInv, WiredInv, IdleInv, NEW c \in Conn, LogoutIn(c),
         C!MainStep(c) \/ C!KeyboardTest(c) \/ C!WaitEnds(c) \/ C!ResetLogout(c)
  PROVE  LogoutIn(c)'
<1>0. /\ DOMAIN keyboard = Conn /\ DOMAIN logoutFailed = Conn /\ DOMAIN reader = Conn
      /\ \E A : reader[c] \in [step : C!ReaderSteps, answer : A]
  BY DEF TypesInv, FlagsType, ProgramsType, ReadersType, IsReader
<1>1. ASSUME UNCHANGED <<typed, terminate, printed>>, Unprinted(c)' = Unprinted(c),
             terminate[c] => keyboard'[c] \in {"wait", "reset", "test", "done"},
             ~terminate[c] => /\ Refused(c)
                              /\ keyboard'[c] \in {"none", "test", "getline"} => ~logoutFailed'[c]
      PROVE  LogoutIn(c)'
  <2>1. Told(c)' = Told(c) /\ Times(c)' = Times(c) /\ LastTyped(c)' = LastTyped(c)
    BY <1>1 DEF Told, AnswersTo, Times, Requested, LastTyped
  <2> QED  BY <1>1, <2>1 DEF LogoutIn, Over, Refused
<1>2. ASSUME UNCHANGED reader
      PROVE  Unprinted(c)' = Unprinted(c)
  BY <1>2 DEF Unprinted
<1>3. CASE C!Start(c)
  <2>1. /\ link[c] = "none" /\ keyboard'[c] = "test" /\ UNCHANGED <<typed, terminate, logoutFailed, printed>>
        /\ reader' = [reader EXCEPT ![c].step = "opCode"]
    BY <1>0, <1>3 DEF C!Start, C!flagVars
  <2>2. keyboard[c] = "none" /\ reader[c].step = "none"
    BY <2>1 DEF WiredInv, IdleInv
  <2>3. reader'[c].step = "opCode"
    BY <1>0, <2>1
  <2>4. Unprinted(c)' = Unprinted(c)
    BY <2>2, <2>3 DEF Unprinted
  <2>5. ~terminate[c] /\ Refused(c) /\ ~logoutFailed[c]
    BY <2>2 DEF LogoutIn, Over, Waits, Refused
  <2> QED  BY <1>1, <2>1, <2>4, <2>5
<1>4. CASE C!StartFails(c) \/ C!Exit(c)
  <2>1. Unmoved(c)
    BY <1>4 DEF C!StartFails, C!Exit, C!flagVars, C!keyboardVars, C!readerVars, Unmoved
  <2> QED  BY <2>1, UnmovedKept
<1>5. CASE C!KeyboardTest(c)
  <2>1. /\ keyboard[c] = "test" /\ keyboard'[c] = (IF terminate[c] THEN "done" ELSE "getline")
        /\ UNCHANGED <<typed, terminate, logoutFailed, printed, reader>>
    BY <1>0, <1>5 DEF C!KeyboardTest, C!KeyboardAt, C!KeyboardTo, C!flagVars, C!readerVars
  <2>2. ~terminate[c] => Refused(c) /\ ~logoutFailed[c]
    BY <2>1 DEF LogoutIn, Waits, Refused
  <2> QED  BY <1>1, <1>2, <2>1, <2>2
<1>6. CASE C!WaitEnds(c)
  <2>1. /\ keyboard[c] = "wait" /\ keyboard'[c] = "reset" /\ (terminate[c] \/ logoutFailed[c])
        /\ UNCHANGED <<typed, terminate, logoutFailed, printed, reader>>
    BY <1>0, <1>6 DEF C!WaitEnds, C!KeyboardAt, C!KeyboardTo, C!flagVars, C!readerVars
  <2>2. ~terminate[c] => Refused(c)
    BY <2>1 DEF LogoutIn, Waits
  <2> QED  BY <1>1, <1>2, <2>1, <2>2
<1>7. CASE C!ResetLogout(c)
  <2>1. /\ keyboard[c] = "reset" /\ keyboard'[c] = "test" /\ ~logoutFailed'[c]
        /\ UNCHANGED <<typed, terminate, printed, reader>>
    BY <1>0, <1>7 DEF C!ResetLogout, C!KeyboardAt, C!KeyboardTo, C!readerVars
  <2>2. ~terminate[c] => Refused(c)
    BY <2>1 DEF LogoutIn, Waits
  <2> QED  BY <1>1, <1>2, <2>1, <2>2
<1> QED  BY <1>3, <1>4, <1>5, <1>6, <1>7 DEF C!MainStep

\* LOGOUT is acknowledged or refused: it is the one that waits for it
LEMMA LogoutDecoded ==
  ASSUME TypesInv, RequestsInv, Undivided, NEW c \in Conn, Cleared(c), ReaderIn(c), Balanced(c, 3), KindIn(c),
         LogoutIn(c), C!DecodeAck(c) \/ C!DecodeError(c)
  PROVE  LogoutIn(c)'
<1>1. UNCHANGED <<typed, keyboard, printed>>
  BY DEF C!DecodeAck, C!DecodeError, C!keyboardVars
<1>2. LastTyped(c)' = LastTyped(c) /\ Times(c)' = Times(c) /\ AnswersTo(c, 3)' = AnswersTo(c, 3)
  BY <1>1 DEF LastTyped, Times, Requested, AnswersTo
<1>3. ASSUME ~Unprinted(c)', UNCHANGED <<terminate, logoutFailed>>, ~Unprinted(c)
      PROVE  LogoutIn(c)'
  <2>1. Untold(c)
    BY <1>2, <1>3 DEF Untold, Told
  <2> QED  BY <1>1, <2>1, LogoutStays
<1>4. DOMAIN terminate = Conn /\ terminate[c] \in BOOLEAN /\ logoutFailed \in [Conn -> BOOLEAN]
      /\ terminate \in [Conn -> BOOLEAN]
  BY DEF TypesInv, FlagsType
<1>5. PICK a : a = reader[c].answer /\ IsAnAnswer(a)
  BY DEF KindIn
<1>6. ASSUME NEW next, NEW op, C!OnTo(c, next, [a EXCEPT !.op = op])
      PROVE  reader'[c].step = next /\ reader'[c].answer.op = op /\ reader'[c].answer.kind = a.kind
  <2>1. PICK b : b = [a EXCEPT !.op = op]
    OBVIOUS
  <2>2. reader'[c].step = next /\ reader'[c].answer = b
    BY <1>6, <2>1, OnToIs
  <2>3. b.op = op /\ b.kind = a.kind
    BY <1>5, <2>1, OpMore
  <2> QED  BY <2>2, <2>3
<1>7. CASE C!DecodeAck(c)
  <2> DEFINE op == C!Number(C!Got(c, "messageOpcode"))
  <2>1. /\ C!CanGet(c, "messageOpcode") /\ logoutFailed' = logoutFailed
        /\ terminate' = [terminate EXCEPT ![c] = @ \/ op = 3]
        /\ \E next : C!OnTo(c, next, [a EXCEPT !.op = op])
    BY <1>5, <1>7 DEF C!DecodeAck
  <2>2. ~Unprinted(c)
    BY <2>1 DEF C!CanGet, C!ReaderAt, Unprinted
  <2>3. CASE op = 3
    <3>1. terminate[c] \/ Waits(c)
      BY <2>1, <2>3, LogoutWaits
    <3>2. Over(c)
      BY <3>1 DEF LogoutIn, Waits, Over
    <3>3. terminate'[c]
      BY <1>4, <2>1, <2>3
    <3> QED  BY <1>1, <1>2, <3>2, <3>3 DEF LogoutIn, Over
  <2>4. CASE op # 3
    <3>1. terminate' = terminate
      BY <1>4, <2>1, <2>4
    <3> HIDE DEF op
    <3>2. reader'[c].answer.op = op
      BY <1>6, <2>1
    <3>3. ~Unprinted(c)'
      BY <2>4, <3>2 DEF Unprinted, IsAnswer
    <3> QED  BY <1>3, <2>1, <2>2, <3>1, <3>3
  <2> QED  BY <2>3, <2>4
<1>8. CASE C!DecodeError(c)
  <2> DEFINE op == C!Number(C!Got(c, "arg"))
  <2>1. /\ C!CanGet(c, "arg") /\ terminate' = terminate
        /\ logoutFailed' = [logoutFailed EXCEPT ![c] = @ \/ op = 3]
        /\ C!OnTo(c, "last", [a EXCEPT !.op = op])
    BY <1>5, <1>8 DEF C!DecodeError
  <2>2. reader[c].step = "arg" /\ ~Unprinted(c)
    BY <2>1 DEF C!CanGet, C!ReaderAt, Unprinted
  <2>3. PICK n : n = op
    OBVIOUS
  <2>4. reader'[c].step = "last" /\ reader'[c].answer.op = n /\ reader'[c].answer.kind = reader[c].answer.kind
    <3>1. C!OnTo(c, "last", [a EXCEPT !.op = n])
      BY <2>1, <2>3
    <3> QED  BY <1>5, <1>6, <3>1
  <2>5. CASE op = 3
    <3>1. terminate[c] \/ (Waits(c) /\ Times(c) = Cardinality(AnswersTo(c, 3)) + 1)
      BY <2>1, <2>5, LogoutWaits
    <3>2. CASE terminate[c]
      BY <1>1, <1>2, <2>1, <3>2 DEF LogoutIn, Over
    <3>3. CASE ~terminate[c]
      <4>1. reader[c].answer.kind # "NOTIFICATION"
        BY <2>2 DEF KindIn
      <4>2. Unprinted(c)'
        BY <2>3, <2>4, <2>5, <4>1 DEF Unprinted, IsAnswer
      <4>3. Told(c)' = Cardinality(AnswersTo(c, 3)) + 1
        BY <1>2, <4>2 DEF Told
      <4>4. Times(c)' = Told(c)'
        BY <1>2, <3>1, <3>3, <4>3
      <4>5. keyboard'[c] \in {"wait", "done"}
        BY <1>1, <3>1, <3>3 DEF Waits
      <4> QED  BY <2>1, <3>3, <4>4, <4>5 DEF LogoutIn, Refused
    <3> QED  BY <3>2, <3>3
  <2>6. CASE op # 3
    <3>1. logoutFailed' = logoutFailed
      BY <1>4, <2>1, <2>6
    <3>2. ~Unprinted(c)'
      BY <2>3, <2>4, <2>6 DEF Unprinted, IsAnswer
    <3> QED  BY <1>3, <2>1, <2>2, <3>1, <3>2
  <2> QED  BY <2>5, <2>6
<1> QED  BY <1>7, <1>8

\* the parts of answers
LEMMA KindKept == TypesInv /\ KindInv /\ [Next]_vars => KindInv'
<1> SUFFICES ASSUME TypesInv, KindInv, [Next]_vars, NEW c \in Conn
             PROVE  KindIn(c)'
  BY DEF KindInv
<1>0. KindIn(c)
  BY DEF KindInv
<1>1. ASSUME reader'[c] = reader[c]
      PROVE  KindIn(c)'
  BY <1>0, <1>1 DEF KindIn
<1>2. CASE C!MainStep(c)
  <2>1. CASE C!Start(c)
    <3>1. reader'[c].step = "opCode" /\ reader'[c].answer = reader[c].answer
      <4>1. PICK A : reader[c] \in [step : C!ReaderSteps, answer : A]
        BY DEF TypesInv, ReadersType, IsReader
      <4> QED  BY <2>1, <4>1 DEF C!Start, TypesInv, ReadersType
    <3> QED  BY <1>0, <3>1 DEF KindIn
  <2>2. CASE C!StartFails(c) \/ C!Exit(c)
    BY <1>1, <2>2 DEF C!StartFails, C!Exit, C!readerVars
  <2> QED  BY <1>2, <2>1, <2>2 DEF C!MainStep
<1>3. CASE C!UserStep(c) \/ C!KeyboardStep(c)
  BY <1>1, <1>3 DEF C!UserStep, C!KeyboardStep, C!Type, C!TypeTooLong, C!InputEnds, C!GetNothing, C!SendLine,
                    C!KeyboardTest, C!WaitEnds, C!ResetLogout, C!readerVars
<1>4. CASE C!ReaderStep(c)
  BY <1>0, <1>4, LogoutRead
<1>5. ASSUME NEW d \in Conn, C!ClientStep(d)
      PROVE  KindIn(c)'
  <2>1. CASE d = c
    BY <1>2, <1>3, <1>4, <1>5, <2>1 DEF C!ClientStep
  <2>2. CASE d # c
    BY <1>0, <1>5, <2>2, OthersUnmoved, UnmovedKept
  <2> QED  BY <2>1, <2>2
<1>6. ASSUME UNCHANGED reader
      PROVE  KindIn(c)'
  BY <1>1, <1>6
<1> QED  BY <1>5, <1>6 DEF Next, ClientStep, ServerStep, Lose, C!Lose, C!clientVars, C!readerVars, clientVars, vars

\* every step
LEMMA LogoutKept ==
  /\ TypesInv /\ StreamsInv /\ WiredInv /\ RequestsInv /\ ClearInv /\ IdleInv /\ ReaderInv /\ OnceInv
  /\ KindInv /\ LogoutInv /\ [Next]_vars
  => LogoutInv'
<1> SUFFICES ASSUME TypesInv, StreamsInv, WiredInv, RequestsInv, ClearInv, IdleInv, ReaderInv, OnceInv,
                    KindInv, LogoutInv, [Next]_vars, Undivided', NEW c \in Conn, ExactOnly(c)'
             PROVE  LogoutIn(c)'
  BY DEF LogoutInv
<1>1. Undivided
  BY UndividedBefore
<1>2. Cleared(c) /\ ReaderIn(c) /\ Balanced(c, 3) /\ KindIn(c)
  BY <1>1 DEF ClearInv, ReaderInv, OnceInv, Once, KindInv
<1>3. ExactOnly(c)
  <2>1. \A i \in DOMAIN typed[c] : i \in DOMAIN typed'[c] /\ typed'[c][i] = typed[c][i]
    <3>1. CASE LineSent(c)
      <4>1. PICK line \in Typable : typed' = [typed EXCEPT ![c] = Append(typed[c], line)]
        BY <3>1 DEF LineSent
      <4> QED  BY <4>1, TypedMore
    <3>2. CASE NoRequest(c) \/ RequestRead(c)
      BY <3>2 DEF NoRequest, RequestRead
    <3> QED  BY <3>1, <3>2, Requesting
  <2> QED  BY <2>1 DEF ExactOnly, ToSet
<1>4. LogoutIn(c)
  BY <1>1, <1>3 DEF LogoutInv
<1>5. CASE C!UserStep(c) \/ C!GetNothing(c)
  <2>1. PICK line \in C!Line : C!SendLine(c, line)
    <3>1. CASE C!Type(c) \/ C!TypeTooLong(c)
      BY <3>1, MayBeTyped DEF C!Type, C!TypeTooLong
    <3>2. CASE C!InputEnds(c) \/ C!GetNothing(c)
      BY <3>2 DEF C!InputEnds, C!GetNothing, C!Line
    <3> QED  BY <1>5, <3>1, <3>2 DEF C!UserStep
  <2>2. keyboard[c] = "getline"
    BY <1>5 DEF C!UserStep, C!GetNothing, C!Type, C!InputEnds, C!TypeTooLong, C!KeyboardAt
  <2> QED  BY <1>4, <2>1, <2>2, LogoutTyped
<1>6. CASE C!MainStep(c) \/ C!KeyboardTest(c) \/ C!WaitEnds(c) \/ C!ResetLogout(c)
  BY <1>4, <1>6, LogoutGoesOn
<1>7. CASE C!ReaderStep(c)
  <2>1. CASE Untold(c)
    <3>1. UNCHANGED <<typed, keyboard>>
      BY <1>7 DEF C!ReaderStep, C!DecodeOpcode, C!DecodeNothing, C!DecodeAck, C!DecodeError, C!PrintAnswer,
                  C!DecodeBytes, C!DecodeFrame, C!FrameRepeats, C!FrameOfNothing, C!ReadFails, C!keyboardVars
    <3> QED  BY <1>4, <2>1, <3>1, LogoutStays
  <2>2. CASE C!DecodeAck(c) \/ C!DecodeError(c)
    BY <1>1, <1>2, <1>4, <2>2, LogoutDecoded
  <2> QED  BY <1>2, <1>7, <2>1, <2>2, LogoutRead
<1>8. ASSUME NEW d \in Conn, C!ClientStep(d)
      PROVE  LogoutIn(c)'
  <2>1. CASE d = c
    BY <1>5, <1>6, <1>7, <1>8, <2>1 DEF C!ClientStep, C!KeyboardStep
  <2>2. CASE d # c
    BY <1>4, <1>8, <2>2, OthersUnmoved, UnmovedKept
  <2> QED  BY <2>1, <2>2
<1>9. ASSUME UNCHANGED clientVars
      PROVE  LogoutIn(c)'
  <2>1. Unmoved(c)
    BY <1>9 DEF clientVars, Unmoved
  <2> QED  BY <1>4, <2>1, UnmovedKept
<1> QED
  BY <1>8, <1>9 DEF Next, ClientStep, ServerStep, Lose, C!Lose, C!clientVars, C!flagVars, C!keyboardVars, C!readerVars,
                    clientVars, vars

\* nothing is typed
LEMMA LogoutStart == Init => KindInv /\ LogoutInv
<1> SUFFICES ASSUME Init, NEW c \in Conn
             PROVE  KindIn(c) /\ LogoutIn(c)
  BY DEF KindInv, LogoutInv
<1>1. /\ reader[c].step = "none" /\ reader[c].answer = C!NoAnswer
      /\ typed[c] = <<>> /\ printed[c] = <<>> /\ ~terminate[c] /\ ~logoutFailed[c]
  BY DEF Init, C!Init
<1>2. KindIn(c)
  BY <1>1 DEF KindIn, IsAnAnswer, AnswerOf, C!NoAnswer
<1>3. AnswersTo(c, 3) = {} /\ Requested(c, 3) = {} /\ ~Unprinted(c)
  BY <1>1 DEF AnswersTo, Requested, Unprinted
<1>4. Times(c) = 0 /\ Told(c) = 0
  BY <1>3, FS_EmptySet DEF Times, Told
<1> QED  BY <1>1, <1>2, <1>4 DEF LogoutIn, Refused

(***************************************************************************)
(* What the flags of connectionHandler say: until it is acknowledged, a    *)
(* LOGOUT typed has been refused, or it is the last line and the keyboard  *)
(* thread waits, or is done.                                               *)
(***************************************************************************)
THEOREM LogoutInvariance == Spec => [](KindInv /\ LogoutInv)
<1>1. /\ TypesInv /\ StreamsInv /\ WiredInv /\ RequestsInv /\ ClearInv /\ IdleInv /\ ReaderInv /\ OnceInv
      /\ KindInv /\ LogoutInv /\ [Next]_vars
      => KindInv' /\ LogoutInv'
  BY KindKept, LogoutKept
<1> QED  BY TypeCorrect, Invariance, RequestsInvariance, AnswersInvariance, CountsInvariance, LogoutStart, <1>1, PTL
         DEF Spec

(***************************************************************************)
(* The keyboard thread sends nothing behind a LOGOUT that is acknowledged: *)
(* an acknowledgement is always that of the last line.                     *)
(***************************************************************************)
THEOREM LogoutComesLast == Spec => []LogoutIsLast
<1>1. LogoutInv => LogoutIsLast
  BY DEF LogoutInv, LogoutIn, Over, LastTyped, LogoutIsLast
<1> QED  BY LogoutInvariance, <1>1, PTL
=============================================================================
