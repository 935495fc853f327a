-------------------------- MODULE TCPServerProofs ---------------------------
(***************************************************************************)
(* Theorems about TCPServer, for any connections, requests, workers and    *)
(* descriptors, whether or not clients pipeline and hang up.               *)
(*                                                                         *)
(* A reply is written to a number, so it is routed right only as long as   *)
(* the number still means what it meant when the request was read.  The    *)
(* argument is that the server closes a descriptor only when its client    *)
(* has closed the connection, when the descriptor is the listen socket, or *)
(* when it is about to throw a request away: and then a client that waits  *)
(* for each reply has no other one in the pool.  What is read from a       *)
(* descriptor was sent on the connection it refers to.  A reply's two      *)
(* parts stay together for a client with one request under way, which is   *)
(* with one worker.                                                        *)
(***************************************************************************)
EXTENDS TCPServer, TLAPS

\* What is on its way to the server: every part waits on its own request's
\* connection, once, and the request has not been given to the pool.
InboxInv ==
    /\ \A r \in Requests : phase[r] = "half" => Kind[r] = "write"
    /\ \A c \in Conns : \A i \in DOMAIN inbox[c] :
         /\ Owner[inbox[c][i][1]] = c
         /\ phase[inbox[c][i][1]] \in {"half", "sent"}
         /\ inbox[c][i][2] = "payload" =>
              Kind[inbox[c][i][1]] = "write" /\ phase[inbox[c][i][1]] = "sent"
         /\ inbox[c][i][2] = "head" => inbox[c][i][1] \notin reading
         /\ \A j \in DOMAIN inbox[c] : inbox[c][j] = inbox[c][i] => j = i

\* The number a request was read from refers to its connection, or that is cut
\* off; while the reactor thread waits for a payload it does.
SourceInv ==
    \A r \in Requests :
        /\ InPool(r) =>
             source[r] \in Fds /\ (fdTable[source[r]] = Owner[r] \/ CutOff(Owner[r]))
        /\ r \in reading => source[r] \in Fds /\ fdTable[source[r]] = Owner[r]

\* A client that waits for each reply has one request under way.
OneAtATime == \A c \in Conns \ Pipelining : \A q, r \in Unanswered(c) : q = r

IndInv == TypeOK /\ InboxInv /\ OneAtATime /\ SourceInv /\ RepliesStayHome

-----------------------------------------------------------------------------

\* Nothing has been sent yet.
LEMMA InitInv == Init => IndInv
  BY RequestsAssumption, SizesAssumption
  DEF Init, IndInv, TypeOK, InboxInv, OneAtATime, Unanswered, SourceInv, RepliesStayHome, InPool,
      Fds, Phases

-----------------------------------------------------------------------------
(* Two facts about a queue, and one about a write.                         *)

\* The elements of a queue once the first has been taken.
LEMMA TailElements ==
    ASSUME NEW S, NEW q \in Seq(S), q # <<>>
    PROVE  /\ Tail(q) \in Seq(S) /\ Head(q) \in S /\ Head(q) = q[1]
           /\ 1 \in DOMAIN q
           /\ \A i \in DOMAIN Tail(q) : i + 1 \in DOMAIN q /\ i + 1 # 1 /\ Tail(q)[i] = q[i + 1]
  OBVIOUS

\* The elements of a queue once another has been put at its end.
LEMMA AppendElements ==
    ASSUME NEW S, NEW q \in Seq(S), NEW e \in S
    PROVE  /\ Append(q, e) \in Seq(S)
           /\ \A i \in DOMAIN Append(q, e) :
                \/ i \in DOMAIN q /\ Append(q, e)[i] = q[i]
                \/ i = Len(q) + 1 /\ i \notin DOMAIN q /\ Append(q, e)[i] = e
  OBVIOUS

\* What a worker writes goes to one connection's outbox, or nowhere.
LEMMA WritePartType ==
    ASSUME TypeOK, SourceInv, NEW r \in Requests, InPool(r),
           NEW part \in {"head", "payload"}, NEW next \in Phases,
           WritePart(r, part, next)
    PROVE  /\ outbox' \in [Conns -> Seq(Parts)]
           /\ \E p \in {next, "finished", phase[r]} : phase' = [phase EXCEPT ![r] = p]
           /\ server' \in {"running", "dead"}
  <1> DEFINE d == fdTable[source[r]]
  <1>1. d \in Conns \cup {"free", "listen"} /\ <<r, part>> \in Parts
    BY DEF TypeOK, SourceInv, Parts
  <1>2. ASSUME d \in Conns
        PROVE  Append(outbox[d], <<r, part>>) \in Seq(Parts)
    BY <1>1, <1>2, AppendElements DEF TypeOK
  <1>3. phase = [phase EXCEPT ![r] = phase[r]]
    BY DEF TypeOK
  <1>4. outbox' \in [Conns -> Seq(Parts)]
    BY <1>1, <1>2 DEF WritePart, TypeOK
  <1>5. \E p \in {next, "finished", phase[r]} : phase' = [phase EXCEPT ![r] = p]
    BY <1>3 DEF WritePart
  <1>6. server' \in {"running", "dead"}
    BY DEF WritePart, TypeOK
  <1> QED
    BY <1>4, <1>5, <1>6


-----------------------------------------------------------------------------
(* Each part of the invariant is preserved.                                *)

\* The values of the variables.  That a request waits for its payload before
\* it is in the pool comes from InboxInv.
LEMMA TypeStep == TypeOK /\ InboxInv /\ SourceInv /\ [Next]_vars => TypeOK'
  <1> SUFFICES ASSUME TypeOK, InboxInv, SourceInv, [Next]_vars
               PROVE  TypeOK'
    OBVIOUS
  <1> USE RequestsAssumption, SizesAssumption
  <1> USE DEF TypeOK, netVars, driverVars, Fds
  <1>1. ASSUME NEW c \in Conns, Connect(c) \/ HangUp(c)
        PROVE  TypeOK'
    <2>1. CASE Connect(c)
      <3>1. backlog' \in Seq(Conns)
        BY <2>1, AppendElements DEF Connect
      <3> QED
        BY <2>1, <3>1 DEF Connect
    <2>2. CASE HangUp(c)
      BY <2>2 DEF HangUp
    <2> QED
      BY <1>1, <2>1, <2>2
  <1>2. ASSUME NEW r \in Requests, SendHead(r)
        PROVE  TypeOK'
    <2>1. <<r, "head">> \in Parts /\ Append(inbox[Owner[r]], <<r, "head">>) \in Seq(Parts)
      BY AppendElements DEF Parts
    <2>2. inbox' \in [Conns -> Seq(Parts)]
      BY <1>2, <2>1 DEF SendHead
    <2>3. phase' \in [Requests -> Phases]
      BY <1>2 DEF SendHead, Phases
    <2>4. \A q \in reading : phase'[q] = phase[q]
      BY <1>2 DEF SendHead
    <2> QED
      BY <1>2, <2>2, <2>3, <2>4 DEF SendHead
  <1>3. ASSUME NEW r \in Requests, SendPayload(r)
        PROVE  TypeOK'
    <2>1. <<r, "payload">> \in Parts /\ Append(inbox[Owner[r]], <<r, "payload">>) \in Seq(Parts)
      BY AppendElements DEF Parts
    <2>2. inbox' \in [Conns -> Seq(Parts)]
      BY <1>3, <2>1 DEF SendPayload
    <2>3. phase' \in [Requests -> Phases]
      BY <1>3 DEF SendPayload, Phases
    <2>4. \A q \in reading : phase'[q] \in {"half", "sent"}
      BY <1>3 DEF SendPayload
    <2> QED
      BY <1>3, <2>2, <2>3, <2>4 DEF SendPayload
  <1>4. ASSUME NEW f \in Fds, NEW g \in Fds, Accept(f, g)
        PROVE  TypeOK'
    <2>1. Tail(backlog) \in Seq(Conns) /\ Head(backlog) \in Conns
      BY <1>4, TailElements DEF Accept, Add
    <2> QED
      BY <1>4, <2>1 DEF Accept, Add
  <1>5. ASSUME NEW f \in Fds, AcceptFails(f) \/ ReceiveFails(f)
        PROVE  TypeOK'
    <2>1. CASE AcceptFails(f)
      BY <2>1 DEF AcceptFails, CleanUp
    <2>2. CASE ReceiveFails(f)
      <3>1. <<>> \in Seq(Parts)
        OBVIOUS
      <3>2. inbox' \in [Conns -> Seq(Parts)]
        BY <2>2, <3>1 DEF ReceiveFails, CloseClient
      <3> QED
        BY <2>2, <3>2 DEF ReceiveFails, CloseClient, CleanUp
    <2> QED
      BY <1>5, <2>1, <2>2
  <1>6. ASSUME NEW f \in Fds, NEW r \in Requests, ReceiveHead(f, r)
        PROVE  TypeOK'
    <2> DEFINE c == fdTable[f]
    <2>1. c \in Conns /\ inbox[c] \in Seq(Parts) /\ inbox[c] # <<>>
      BY <1>6 DEF ReceiveHead
    <2>2. Tail(inbox[c]) \in Seq(Parts) /\ 1 \in DOMAIN inbox[c] /\ inbox[c][1] = <<r, "head">>
      BY <1>6, <2>1, TailElements DEF ReceiveHead
    <2>3. inbox' \in [Conns -> Seq(Parts)]
      BY <1>6, <2>1, <2>2 DEF ReceiveHead
    <2>4. phase[r] \in {"half", "sent"} /\ r \notin reading
      BY <2>1, <2>2 DEF InboxInv
    <2>5. phase' \in [Requests -> Phases]
      BY <1>6 DEF ReceiveHead, Phases
    <2>6. /\ reading' \subseteq {q \in Requests : Kind[q] = "write" /\ phase'[q] \in {"half", "sent"}}
          /\ \A p, q \in reading' : p = q
      <3>1. CASE Kind[r] = "write"
        <4>1. reading' = {r} /\ phase' = phase
          BY <1>6, <3>1 DEF ReceiveHead
        <4> QED
          BY <2>4, <3>1, <4>1
      <3>2. CASE Kind[r] # "write"
        <4>1. reading' = reading /\ phase' = [phase EXCEPT ![r] = "queued"]
          BY <1>6, <3>2 DEF ReceiveHead
        <4> QED
          BY <2>4, <4>1
      <3> QED
        BY <3>1, <3>2
    <2>7. source' \in [Requests -> 0 .. MaxFds]
      BY <1>6 DEF ReceiveHead
    <2> QED
      BY <1>6, <2>3, <2>5, <2>6, <2>7 DEF ReceiveHead
  <1>7. ASSUME NEW r \in Requests, ReceivePayload(r)
        PROVE  TypeOK'
    <2> DEFINE c == fdTable[source[r]]
    <2>1. inbox' \in [Conns -> Seq(Parts)]
      <3>1. c \in Conns
        BY <1>7 DEF ReceivePayload, SourceInv
      <3> QED
        BY <1>7, <3>1, TailElements DEF ReceivePayload, SaveAllocations
    <2>2. phase' \in [Requests -> Phases]
      BY <1>7 DEF ReceivePayload, SaveAllocations, Phases
    <2> QED
      BY <1>7, <2>1, <2>2 DEF ReceivePayload, SaveAllocations
  <1>8. ASSUME NEW r \in Requests, StartCommand(r) \/ Handle(r)
        PROVE  TypeOK'
    <2>1. phase' \in [Requests -> Phases]
      BY <1>8 DEF StartCommand, Handle, Replies, Phases
    <2>2. \A q \in reading : phase'[q] = phase[q]
      BY <1>8 DEF StartCommand, Handle
    <2> QED
      BY <1>8, <2>1, <2>2 DEF StartCommand, Handle
  <1>9. ASSUME NEW r \in Requests, ReplyHead(r) \/ ReplyPayload(r)
        PROVE  TypeOK'
    <2>1. PICK part \in {"head", "payload"}, next \in {"replyPayload", "finished"} :
            WritePart(r, part, next)
      BY <1>9 DEF ReplyHead, ReplyPayload
    <2>2. InPool(r) /\ next \in Phases
      BY <1>9 DEF ReplyHead, ReplyPayload, InPool, Phases
    <2>3. /\ outbox' \in [Conns -> Seq(Parts)]
          /\ \E p \in {next, "finished", phase[r]} : phase' = [phase EXCEPT ![r] = p]
          /\ server' \in {"running", "dead"}
      BY <2>1, <2>2, WritePartType
    <2>4. phase' \in [Requests -> Phases]
      BY <2>2, <2>3 DEF Phases
    <2>5. r \notin reading
      BY <2>2 DEF InPool
    <2>6. \A q \in reading : phase'[q] = phase[q]
      BY <2>3, <2>5
    <2> QED
      BY <1>9, <2>3, <2>4, <2>6 DEF ReplyHead, ReplyPayload
  <1>10. ASSUME NEW f \in Fds, NEW r \in Requests, ReceiveThrows(f, r)
         PROVE  TypeOK'
    <2>1. <<>> \in Seq(Parts)
      OBVIOUS
    <2>2. inbox' \in [Conns -> Seq(Parts)]
      BY <1>10, <2>1 DEF ReceiveThrows, CloseClient
    <2> QED
      BY <1>10, <2>2 DEF ReceiveThrows, CloseClient, CleanUp
  <1>11. CASE UNCHANGED vars
    BY <1>11 DEF vars
  <1> QED
    BY <1>1, <1>2, <1>3, <1>4, <1>5, <1>6, <1>7, <1>8, <1>9, <1>10, <1>11
    DEF Next, Reactor, WorkerStep


\* A part is sent once, on its request's connection, and received once: the
\* server never finds in a stream what it has already taken from it.
LEMMA InboxStep == TypeOK /\ InboxInv /\ SourceInv /\ [Next]_vars => InboxInv'
  <1> SUFFICES ASSUME TypeOK, InboxInv, SourceInv, [Next]_vars
               PROVE  InboxInv'
    OBVIOUS
  <1> USE RequestsAssumption
  <1>0. \A c \in Conns : \A i \in DOMAIN inbox[c] :
          /\ inbox[c][i] \in Parts /\ inbox[c][i][1] \in Requests
          /\ inbox[c][i] = <<inbox[c][i][1], inbox[c][i][2]>>
          /\ inbox[c][i][2] \in {"head", "payload"}
    BY DEF TypeOK, Parts
  \* Steps that leave the streams alone.
  <1>1. ASSUME UNCHANGED <<inbox, reading>>,
               \A r \in Requests : phase[r] \in {"half", "sent"} => phase'[r] = phase[r],
               \A r \in Requests : phase'[r] = "half" => phase[r] = "half"
        PROVE  InboxInv'
    BY <1>0, <1>1 DEF InboxInv
  <1>2. ASSUME NEW c \in Conns, Connect(c) \/ HangUp(c)
        PROVE  InboxInv'
    BY <1>1, <1>2 DEF Connect, HangUp, driverVars
  <1>3. ASSUME NEW f \in Fds, NEW g \in Fds, Accept(f, g)
        PROVE  InboxInv'
    BY <1>1, <1>3 DEF Accept
  <1>4. ASSUME NEW f \in Fds, AcceptFails(f)
        PROVE  InboxInv'
    BY <1>1, <1>4 DEF AcceptFails, netVars
  <1>5. ASSUME NEW r \in Requests, WorkerStep(r)
        PROVE  InboxInv'
    <2>1. \E p \in Phases \ {"unsent", "half", "sent"} : phase' = [phase EXCEPT ![r] = p]
      <3>1. phase = [phase EXCEPT ![r] = phase[r]]
        BY DEF TypeOK
      <3> QED
        BY <1>5, <3>1
        DEF WorkerStep, StartCommand, Handle, Replies, ReplyHead, ReplyPayload, WritePart, Phases
    <2>2. phase[r] \notin {"half", "sent"}
      BY <1>5 DEF WorkerStep, StartCommand, Handle, ReplyHead, ReplyPayload
    <2>3. UNCHANGED <<inbox, reading>>
      BY <1>5
      DEF WorkerStep, StartCommand, Handle, ReplyHead, ReplyPayload, netVars, driverVars
    <2> QED
      BY <1>1, <2>1, <2>2, <2>3 DEF TypeOK
  \* Steps that add a part.
  <1>6. ASSUME NEW r \in Requests, NEW e \in {<<r, "head">>, <<r, "payload">>}, NEW p \in {"half", "sent"},
               phase[r] = IF e = <<r, "head">> THEN "unsent" ELSE "half",
               inbox' = [inbox EXCEPT ![Owner[r]] = Append(@, e)],
               phase' = [phase EXCEPT ![r] = p],
               p = "half" => Kind[r] = "write",
               e = <<r, "payload">> => p = "sent",
               UNCHANGED reading
        PROVE  InboxInv'
    <2> DEFINE o == Owner[r]
    <2>1. o \in Conns /\ e \in Parts /\ inbox[o] \in Seq(Parts)
      BY DEF TypeOK, Parts
    <2>2. \A c \in Conns : \A i \in DOMAIN inbox[c] :
            inbox[c][i] # e /\ (inbox[c][i][1] = r => inbox[c][i][2] = "head" /\ e = <<r, "payload">>)
      BY <1>0, <1>6 DEF InboxInv
    <2>3. \A q \in Requests : phase'[q] = IF q = r THEN p ELSE phase[q]
      BY <1>6 DEF TypeOK
    <2>4. \A q \in Requests : phase'[q] = "half" => Kind[q] = "write"
      BY <1>6, <2>3 DEF InboxInv
    <2>5. e = <<r, "payload">> => Kind[r] = "write"
      BY <1>6 DEF InboxInv
    <2>6. e = <<r, "head">> => r \notin reading
      BY <1>6 DEF TypeOK
    <2>7. inbox'[o] = Append(inbox[o], e) /\ \A c \in Conns \ {o} : inbox'[c] = inbox[c]
      BY <1>6, <2>1 DEF TypeOK
    <2>8. \A c \in Conns : \A i \in DOMAIN inbox'[c] :
            \/ i \in DOMAIN inbox[c] /\ inbox'[c][i] = inbox[c][i]
            \/ c = o /\ i = Len(inbox[o]) + 1 /\ i \notin DOMAIN inbox[c] /\ inbox'[c][i] = e
      <3>1. \A i \in DOMAIN Append(inbox[o], e) :
              \/ i \in DOMAIN inbox[o] /\ Append(inbox[o], e)[i] = inbox[o][i]
              \/ i = Len(inbox[o]) + 1 /\ i \notin DOMAIN inbox[o] /\ Append(inbox[o], e)[i] = e
        BY <2>1, AppendElements
      <3> QED
        BY <2>7, <3>1
    <2>9. SUFFICES ASSUME NEW c \in Conns, NEW i \in DOMAIN inbox'[c]
                   PROVE  /\ Owner[inbox'[c][i][1]] = c
                          /\ phase'[inbox'[c][i][1]] \in {"half", "sent"}
                          /\ inbox'[c][i][2] = "payload" =>
                               Kind[inbox'[c][i][1]] = "write" /\ phase'[inbox'[c][i][1]] = "sent"
                          /\ inbox'[c][i][2] = "head" => inbox'[c][i][1] \notin reading'
                          /\ \A j \in DOMAIN inbox'[c] : inbox'[c][j] = inbox'[c][i] => j = i
      BY <2>4 DEF InboxInv
    <2>10. CASE i \in DOMAIN inbox[c] /\ inbox'[c][i] = inbox[c][i]
      <3>1. \A j \in DOMAIN inbox'[c] : inbox'[c][j] = inbox'[c][i] => j = i
        BY <2>2, <2>8, <2>10 DEF InboxInv
      <3> QED
        BY <1>0, <1>6, <2>2, <2>3, <2>10, <3>1 DEF InboxInv
    <2>11. CASE c = o /\ i = Len(inbox[o]) + 1 /\ i \notin DOMAIN inbox[c] /\ inbox'[c][i] = e
      <3>1. \A j \in DOMAIN inbox'[c] : inbox'[c][j] = inbox'[c][i] => j = i
        BY <2>2, <2>8, <2>11
      <3> QED
        BY <1>6, <2>3, <2>5, <2>6, <2>11, <3>1
    <2> QED
      BY <2>8, <2>10, <2>11
  <1>7. ASSUME NEW r \in Requests, SendHead(r)
        PROVE  InboxInv'
    <2>1. <<r, "head">> # <<r, "payload">>
      OBVIOUS
    <2>2. CASE Kind[r] = "write"
      BY <1>6, <1>7, <2>1, <2>2 DEF SendHead, driverVars
    <2>3. CASE Kind[r] # "write"
      BY <1>6, <1>7, <2>1, <2>3 DEF SendHead, driverVars
    <2> QED
      BY <2>2, <2>3
  <1>8. ASSUME NEW r \in Requests, SendPayload(r)
        PROVE  InboxInv'
    <2>1. <<r, "head">> # <<r, "payload">>
      OBVIOUS
    <2> QED
      BY <1>6, <1>8, <2>1 DEF SendPayload, driverVars
  \* Steps that take a part.
  <1>9. ASSUME NEW c \in Conns, NEW r \in Requests, inbox[c] # <<>>, Head(inbox[c])[1] = r,
               inbox' = [inbox EXCEPT ![c] = Tail(@)],
               reading' \subseteq reading \cup {r},
               \A q \in Requests \ {r} : phase'[q] = phase[q],
               phase'[r] # phase[r] => phase'[r] = "queued"
                 /\ \A i \in DOMAIN Tail(inbox[c]) : Tail(inbox[c])[i][1] # r,
               r \in reading' => Head(inbox[c])[2] = "head"
        PROVE  InboxInv'
    <2>1. inbox[c] \in Seq(Parts)
      BY DEF TypeOK
    <2>2. inbox'[c] = Tail(inbox[c]) /\ \A d \in Conns \ {c} : inbox'[d] = inbox[d]
      BY <1>9 DEF TypeOK
    <2>3. /\ 1 \in DOMAIN inbox[c] /\ Head(inbox[c]) = inbox[c][1]
          /\ \A i \in DOMAIN inbox'[c] : i + 1 \in DOMAIN inbox[c] /\ i + 1 # 1 /\ inbox'[c][i] = inbox[c][i + 1]
      <3>1. /\ Tail(inbox[c]) \in Seq(Parts) /\ Head(inbox[c]) \in Parts /\ Head(inbox[c]) = inbox[c][1]
            /\ 1 \in DOMAIN inbox[c]
            /\ \A i \in DOMAIN Tail(inbox[c]) :
                 i + 1 \in DOMAIN inbox[c] /\ i + 1 # 1 /\ Tail(inbox[c])[i] = inbox[c][i + 1]
        BY <1>9, <2>1, TailElements
      <3> QED
        BY <2>2, <3>1
    <2>4. Owner[r] = c
      BY <1>9, <2>3 DEF InboxInv
    <2>5. \A q \in Requests : phase'[q] = "half" => Kind[q] = "write"
      BY <1>9 DEF InboxInv
    <2>6. ASSUME NEW d \in Conns \ {c}, NEW i \in DOMAIN inbox'[d]
          PROVE  /\ Owner[inbox'[d][i][1]] = d
                 /\ phase'[inbox'[d][i][1]] \in {"half", "sent"}
                 /\ inbox'[d][i][2] = "payload" =>
                      Kind[inbox'[d][i][1]] = "write" /\ phase'[inbox'[d][i][1]] = "sent"
                 /\ inbox'[d][i][2] = "head" => inbox'[d][i][1] \notin reading'
                 /\ \A j \in DOMAIN inbox'[d] : inbox'[d][j] = inbox'[d][i] => j = i
      <3>1. inbox'[d] = inbox[d] /\ i \in DOMAIN inbox[d]
        BY <2>2, <2>6
      <3>2. inbox[d][i][1] \in Requests \ {r}
        BY <1>0, <2>4, <2>6, <3>1 DEF InboxInv
      <3> QED
        BY <1>9, <3>1, <3>2 DEF InboxInv
    <2>7. ASSUME NEW i \in DOMAIN inbox'[c]
          PROVE  /\ Owner[inbox'[c][i][1]] = c
                 /\ phase'[inbox'[c][i][1]] \in {"half", "sent"}
                 /\ inbox'[c][i][2] = "payload" =>
                      Kind[inbox'[c][i][1]] = "write" /\ phase'[inbox'[c][i][1]] = "sent"
                 /\ inbox'[c][i][2] = "head" => inbox'[c][i][1] \notin reading'
                 /\ \A j \in DOMAIN inbox'[c] : inbox'[c][j] = inbox'[c][i] => j = i
      <3>1. i + 1 \in DOMAIN inbox[c] /\ inbox'[c][i] = inbox[c][i + 1] /\ inbox[c][i + 1] # inbox[c][1]
        BY <2>3, <2>7 DEF InboxInv
      <3>2. phase'[inbox'[c][i][1]] = phase[inbox[c][i + 1][1]]
        <4>1. inbox[c][i + 1][1] \in Requests
          BY <1>0, <3>1
        <4>2. phase'[r] # phase[r] => inbox[c][i + 1][1] # r
          BY <1>9, <2>2, <2>7, <3>1
        <4> QED
          BY <1>9, <3>1, <4>1, <4>2
      <3>3. inbox'[c][i][2] = "head" => inbox'[c][i][1] \notin reading'
        BY <1>0, <1>9, <2>3, <3>1 DEF InboxInv
      <3>4. \A j \in DOMAIN inbox'[c] : inbox'[c][j] = inbox'[c][i] => j = i
        <4>1. \A j \in DOMAIN inbox'[c] : j \in Int
          BY <2>1, <2>2, <2>3, TailElements, <1>9
        <4>2. ASSUME NEW j \in DOMAIN inbox'[c], inbox'[c][j] = inbox'[c][i]
              PROVE  j + 1 = i + 1
          BY <2>3, <3>1, <4>2 DEF InboxInv
        <4> QED
          BY <4>1, <4>2, <2>7
      <3> QED
        BY <3>1, <3>2, <3>3, <3>4 DEF InboxInv
    <2> QED
      BY <2>5, <2>6, <2>7 DEF InboxInv

  <1>10. ASSUME NEW f \in Fds, NEW r \in Requests, ReceiveHead(f, r)
         PROVE  InboxInv'
    <2> DEFINE c == fdTable[f]
    <2>1. /\ c \in Conns /\ inbox[c] # <<>> /\ inbox[c] \in Seq(Parts) /\ reading = {}
          /\ Head(inbox[c]) = <<r, "head">> /\ inbox' = [inbox EXCEPT ![c] = Tail(@)]
      BY <1>10 DEF ReceiveHead, Dispatch, TypeOK
    <2>2. CASE Kind[r] = "write"
      <3>1. reading' = {r} /\ phase' = phase
        BY <1>10, <2>2 DEF ReceiveHead
      <3>2. Head(inbox[c])[1] = r /\ Head(inbox[c])[2] = "head"
        BY <2>1
      <3>3. reading' \subseteq reading \cup {r} /\ phase'[r] = phase[r]
        BY <3>1
      <3> QED
        BY <1>9, <2>1, <3>1, <3>2, <3>3
    <2>3. CASE Kind[r] # "write"
      <3>1. reading' = reading /\ phase' = [phase EXCEPT ![r] = "queued"]
        BY <1>10, <2>3 DEF ReceiveHead
      <3>2. \A i \in DOMAIN Tail(inbox[c]) : Tail(inbox[c])[i][1] # r
        <4>1. /\ Tail(inbox[c]) \in Seq(Parts) /\ Head(inbox[c]) \in Parts /\ Head(inbox[c]) = inbox[c][1]
              /\ 1 \in DOMAIN inbox[c]
              /\ \A i \in DOMAIN Tail(inbox[c]) :
                   i + 1 \in DOMAIN inbox[c] /\ i + 1 # 1 /\ Tail(inbox[c])[i] = inbox[c][i + 1]
          BY <2>1, TailElements
        <4>2. ASSUME NEW i \in DOMAIN inbox[c], inbox[c][i][1] = r
              PROVE  i = 1
          <5>1. inbox[c][i][2] = "head"
            BY <1>0, <2>1, <2>3, <4>2 DEF InboxInv
          <5>2. inbox[c][i] = inbox[c][1]
            BY <1>0, <2>1, <4>1, <4>2, <5>1
          <5> QED
            BY <2>1, <4>1, <5>2 DEF InboxInv
        <4> QED
          BY <4>1, <4>2
      <3>3. phase'[r] = "queued" /\ \A q \in Requests \ {r} : phase'[q] = phase[q]
        BY <3>1 DEF TypeOK
      <3>4. Head(inbox[c])[1] = r /\ r \notin reading' /\ reading' \subseteq reading \cup {r}
        BY <2>1, <3>1
      <3> QED
        BY <1>9, <2>1, <3>2, <3>3, <3>4
    <2> QED
      BY <2>2, <2>3
  <1>11. ASSUME NEW r \in Requests, ReceivePayload(r)
         PROVE  InboxInv'
    <2> DEFINE c == fdTable[source[r]]
    <2>1. c \in Conns /\ r \in reading
      BY <1>11 DEF ReceivePayload, SourceInv, TypeOK
    <2>2. /\ inbox[c] # <<>> /\ inbox[c] \in Seq(Parts) /\ reading' = {}
          /\ Head(inbox[c]) = <<r, "payload">> /\ inbox' = [inbox EXCEPT ![c] = Tail(@)]
          /\ phase' = [phase EXCEPT ![r] = "queued"]
      BY <1>11, <2>1 DEF ReceivePayload, TypeOK
    <2>3. \A i \in DOMAIN Tail(inbox[c]) : Tail(inbox[c])[i][1] # r
      <3>1. /\ Tail(inbox[c]) \in Seq(Parts) /\ Head(inbox[c]) \in Parts /\ Head(inbox[c]) = inbox[c][1]
            /\ 1 \in DOMAIN inbox[c]
            /\ \A i \in DOMAIN Tail(inbox[c]) :
                 i + 1 \in DOMAIN inbox[c] /\ i + 1 # 1 /\ Tail(inbox[c])[i] = inbox[c][i + 1]
        BY <2>1, <2>2, TailElements
      <3>2. ASSUME NEW i \in DOMAIN inbox[c], inbox[c][i][1] = r
            PROVE  i = 1
        <4>1. inbox[c][i][2] = "payload"
          BY <1>0, <2>1, <3>2 DEF InboxInv
        <4>2. inbox[c][i] = inbox[c][1]
          BY <1>0, <2>1, <2>2, <3>1, <3>2, <4>1
        <4> QED
          BY <2>1, <3>1, <4>2 DEF InboxInv
      <3> QED
        BY <3>1, <3>2
    <2>4. phase'[r] = "queued" /\ \A q \in Requests \ {r} : phase'[q] = phase[q]
      BY <2>2 DEF TypeOK
    <2>5. Head(inbox[c])[1] = r /\ r \notin reading' /\ reading' \subseteq reading \cup {r}
      BY <2>2
    <2> QED
      BY <1>9, <2>1, <2>2, <2>3, <2>4, <2>5
  <1>12. ASSUME NEW f \in Fds, fdTable[f] \in Conns, CloseClient(f)
         PROVE  InboxInv'
    <2> DEFINE c == fdTable[f]
    <2>1. /\ c \in Conns /\ reading' = {} /\ phase' = phase
          /\ inbox' = [inbox EXCEPT ![c] = <<>>]
      BY <1>12 DEF CloseClient
    <2>2. DOMAIN inbox'[c] = {} /\ \A d \in Conns \ {c} : inbox'[d] = inbox[d]
      BY <2>1 DEF TypeOK
    <2> QED
      BY <2>1, <2>2 DEF InboxInv
  <1>13. CASE UNCHANGED vars
    BY <1>1, <1>13 DEF vars
  <1> QED
    BY <1>2, <1>3, <1>4, <1>5, <1>7, <1>8, <1>10, <1>11, <1>12, <1>13
    DEF Next, Reactor, ReceiveFails, ReceiveThrows


Writes(r) == ReplyHead(r) \/ ReplyPayload(r)

\* What a step does to the request q.
LEMMA PhaseStep ==
    ASSUME TypeOK, InboxInv, Next, NEW q \in Requests
    PROVE  \/ phase'[q] = phase[q]
           \/ SendHead(q)
           \/ phase[q] \in {"half", "sent"} /\ phase'[q] \in {"sent", "queued"}
           \/ phase[q] = "queued" /\ phase'[q] = "executing"
           \/ phase[q] = "executing" /\ phase'[q] \in {"replyHead", "replyBoth", "finished"}
           \/ Writes(q) /\ phase[q] \notin {"unsent", "finished"}
  <1> DEFINE Goal == \/ phase'[q] = phase[q]
                     \/ SendHead(q)
                     \/ phase[q] \in {"half", "sent"} /\ phase'[q] \in {"sent", "queued"}
                     \/ phase[q] = "queued" /\ phase'[q] = "executing"
                     \/ phase[q] = "executing" /\ phase'[q] \in {"replyHead", "replyBoth", "finished"}
                     \/ Writes(q) /\ phase[q] \notin {"unsent", "finished"}
  <1>1. ASSUME NEW r \in Requests, SendHead(r) \/ SendPayload(r) PROVE Goal
    BY <1>1 DEF SendHead, SendPayload, TypeOK
  <1>2. ASSUME NEW r \in Requests, StartCommand(r) PROVE Goal
    BY <1>2 DEF StartCommand, TypeOK
  <1>3. ASSUME NEW r \in Requests, Handle(r) PROVE Goal
    BY <1>3 DEF Handle, Replies, TypeOK
  <1>4. ASSUME NEW r \in Requests, Writes(r) PROVE Goal
    <2>1. CASE q = r
      BY <1>4, <2>1 DEF Writes, ReplyHead, ReplyPayload
    <2>2. CASE q # r
      BY <1>4, <2>2 DEF Writes, ReplyHead, ReplyPayload, WritePart, TypeOK
    <2> QED
      BY <2>1, <2>2
  <1>5. ASSUME NEW f \in Fds, NEW r \in Requests, ReceiveHead(f, r) PROVE Goal
    <2> DEFINE c == fdTable[f]
    <2>1. c \in Conns /\ inbox[c] # <<>> /\ inbox[c] \in Seq(Parts) /\ Head(inbox[c]) = <<r, "head">>
      BY <1>5 DEF ReceiveHead, TypeOK
    <2>2. 1 \in DOMAIN inbox[c] /\ Head(inbox[c]) = inbox[c][1]
      BY <2>1, TailElements
    <2>3. phase[r] \in {"half", "sent"}
      BY <2>1, <2>2 DEF InboxInv
    <2>4. UNCHANGED phase \/ phase' = [phase EXCEPT ![r] = "queued"]
      BY <1>5 DEF ReceiveHead
    <2> QED
      BY <2>3, <2>4 DEF TypeOK
  <1>6. ASSUME NEW r \in Requests, ReceivePayload(r) PROVE Goal
    BY <1>6 DEF ReceivePayload, TypeOK
  <1>7. CASE UNCHANGED phase
    BY <1>7
  <1> QED
    BY <1>1, <1>2, <1>3, <1>4, <1>5, <1>6, <1>7 DEF Next, Reactor, WorkerStep, Connect, HangUp,
       Accept, AcceptFails, ReceiveFails, ReceiveThrows, CloseClient, Writes

\* Nobody sends a second request before the first is answered.
LEMMA OneStep == TypeOK /\ InboxInv /\ OneAtATime /\ [Next]_vars => OneAtATime'
  <1> SUFFICES ASSUME TypeOK, InboxInv, OneAtATime, [Next]_vars, NEW c \in Conns \ Pipelining,
                      NEW q \in Unanswered(c)', NEW r \in Unanswered(c)'
               PROVE  q = r
    BY DEF OneAtATime
  <1>1. ASSUME NEW s \in Unanswered(c)' PROVE s \in Unanswered(c) \/ SendHead(s)
    <2>1. s \in Requests /\ Owner[s] = c /\ phase'[s] \notin {"unsent", "finished"}
      BY <1>1 DEF Unanswered
    <2>2. SendHead(s) \/ phase[s] \notin {"unsent", "finished"}
      BY <2>1, PhaseStep DEF vars
    <2> QED
      BY <2>1, <2>2 DEF Unanswered
  <1>2. ASSUME NEW s \in Requests, SendHead(s), Owner[s] = c, NEW t \in Unanswered(c)'
        PROVE  t = s
    <2>1. Unanswered(c) = {}
      BY <1>2 DEF SendHead, MaySend
    <2>2. t \in Requests /\ phase'[t] # "unsent" /\ Owner[t] = c /\ phase'[t] # "finished"
      BY <1>2 DEF Unanswered
    <2>3. t # s => phase'[t] = phase[t]
      BY <1>2, <2>2 DEF SendHead, TypeOK
    <2> QED
      BY <2>1, <2>2, <2>3 DEF Unanswered
  <1>3. q \in Requests /\ r \in Requests /\ Owner[q] = c /\ Owner[r] = c
    BY DEF Unanswered
  <1> QED
    BY <1>1, <1>2, <1>3 DEF OneAtATime

\* Who is cut off stays so.
LEMMA CutOffStays ==
    ASSUME TypeOK, [Next]_vars, NEW c \in Conns, CutOff(c)
    PROVE  CutOff(c)'
  <1>1. ASSUME NEW d \in Conns, Connect(d) \/ HangUp(d) PROVE CutOff(c)'
    BY <1>1 DEF Connect, HangUp, Open, CutOff, TypeOK
  <1>2. ASSUME NEW f \in Fds, NEW r \in Requests, ReceiveThrows(f, r) PROVE CutOff(c)'
    BY <1>2 DEF ReceiveThrows, CutOff, TypeOK
  <1>3. CASE UNCHANGED link
    BY <1>3 DEF CutOff
  <1> QED
    BY <1>1, <1>2, <1>3
    DEF Next, vars, Reactor, WorkerStep, SendHead, SendPayload, Accept, AcceptFails, ReceiveFails,
        CloseClient, ReceiveHead, ReceivePayload, StartCommand, Handle, ReplyHead, ReplyPayload,
        netVars

\* The server closes a descriptor only when its client has closed the
\* connection, when it is the listen socket, which no request came from, or when
\* it throws a request away: the only one of a client that waits for each reply.
LEMMA SourceStep == TypeOK /\ InboxInv /\ OneAtATime /\ SourceInv /\ [Next]_vars => SourceInv'
  <1> SUFFICES ASSUME TypeOK, InboxInv, OneAtATime, SourceInv, [Next]_vars
               PROVE  SourceInv'
    OBVIOUS
  <1> USE RequestsAssumption, NamesAssumption
  \* Steps that leave the descriptors alone and put nothing into the pool.
  <1>0. \A c \in Conns : CutOff(c) => CutOff(c)'
    BY CutOffStays
  <1>1. ASSUME UNCHANGED <<fdTable, source>>, reading' \subseteq reading,
               \A r \in Requests : InPool(r)' => InPool(r)
        PROVE  SourceInv'
    BY <1>0, <1>1 DEF SourceInv
  <1>2. ASSUME NEW c \in Conns, Connect(c) \/ HangUp(c)
        PROVE  SourceInv'
    <2>1. UNCHANGED <<fdTable, source, reading, phase>>
      BY <1>2 DEF Connect, HangUp, driverVars
    <2> QED
      BY <1>1, <2>1 DEF InPool
  <1>3. ASSUME NEW r \in Requests, SendHead(r) \/ SendPayload(r)
        PROVE  SourceInv'
    <2>1. UNCHANGED <<fdTable, source, reading, link>>
      BY <1>3 DEF SendHead, SendPayload, driverVars
    <2>2. \A q \in Requests : InPool(q)' => InPool(q)
      BY <1>3 DEF SendHead, SendPayload, InPool, TypeOK
    <2> QED
      BY <1>1, <2>1, <2>2
  <1>4. ASSUME NEW r \in Requests, WorkerStep(r)
        PROVE  SourceInv'
    <2>1. UNCHANGED <<fdTable, source, reading, link>>
      BY <1>4
      DEF WorkerStep, StartCommand, Handle, ReplyHead, ReplyPayload, netVars, driverVars
    <2>2. InPool(r)
      BY <1>4 DEF WorkerStep, StartCommand, Handle, ReplyHead, ReplyPayload, InPool
    <2>3. \A q \in Requests \ {r} : phase'[q] = phase[q]
      BY <1>4 DEF WorkerStep, StartCommand, Handle, ReplyHead, ReplyPayload, WritePart, TypeOK
    <2> QED
      BY <1>1, <2>1, <2>2, <2>3 DEF InPool
  \* Steps that change what one descriptor refers to.
  <1>5. ASSUME NEW g \in Fds, NEW v, fdTable' = [fdTable EXCEPT ![g] = v],
               \A r \in Requests : InPool(r) /\ fdTable[g] = Owner[r] => CutOff(Owner[r])',
               UNCHANGED <<source, phase>>, reading' = {}
        PROVE  SourceInv'
    BY <1>0, <1>5 DEF SourceInv, InPool, TypeOK
  <1>6. ASSUME NEW f \in Fds, NEW g \in Fds, Accept(f, g)
        PROVE  SourceInv'
    <2>1. fdTable[g] = "free" /\ reading' = {}
      BY <1>6 DEF Accept, LowestFree, Free, Dispatch
    <2> QED
      BY <1>5, <1>6, <2>1 DEF Accept, Add
  <1>7. ASSUME NEW f \in Fds, AcceptFails(f)
        PROVE  SourceInv'
    BY <1>5, <1>7 DEF AcceptFails, CleanUp, Dispatch, netVars
  <1>8. ASSUME NEW f \in Fds, ReceiveFails(f)
        PROVE  SourceInv'
    <2>1. \A r \in Requests : fdTable[f] = Owner[r] => CutOff(Owner[r])'
      BY <1>8 DEF ReceiveFails, CutOff
    <2> QED
      BY <1>5, <1>8, <2>1 DEF ReceiveFails, CloseClient, CleanUp
  \* Steps that read a request.
  <1>9. ASSUME NEW f \in Fds, NEW r \in Requests, ReceiveHead(f, r)
        PROVE  SourceInv'
    <2> DEFINE c == fdTable[f]
    <2>1. c \in Conns /\ inbox[c] # <<>> /\ inbox[c] \in Seq(Parts) /\ Head(inbox[c]) = <<r, "head">>
      BY <1>9 DEF ReceiveHead, TypeOK
    <2>2. 1 \in DOMAIN inbox[c] /\ Head(inbox[c]) = inbox[c][1]
      BY <2>1, TailElements
    <2>3. Owner[r] = fdTable[f]
      BY <2>1, <2>2 DEF InboxInv
    <2>4. /\ source'[r] = f /\ reading' \subseteq reading \cup {r} /\ UNCHANGED <<fdTable, link>>
          /\ \A q \in Requests \ {r} : source'[q] = source[q] /\ phase'[q] = phase[q]
      BY <1>9 DEF ReceiveHead, TypeOK
    <2> QED
      BY <2>3, <2>4 DEF SourceInv, InPool, CutOff
  <1>10. ASSUME NEW r \in Requests, ReceivePayload(r)
         PROVE  SourceInv'
    <2>1. /\ r \in reading /\ reading' = {} /\ UNCHANGED <<fdTable, link, source>>
          /\ \A q \in Requests \ {r} : phase'[q] = phase[q]
      BY <1>10 DEF ReceivePayload, TypeOK
    <2> QED
      BY <2>1 DEF SourceInv, InPool, CutOff
  <1>11. ASSUME NEW f \in Fds, NEW r \in Requests, ReceiveThrows(f, r)
         PROVE  SourceInv'
    <2> DEFINE c == fdTable[f]
    <2>1. /\ c \in Conns /\ inbox[c] # <<>> /\ inbox[c] \in Seq(Parts)
          /\ Head(inbox[c]) \in {<<r, "head">>, <<r, "payload">>}
          /\ link'[c] \in {"closed", "dropped"}
      BY <1>11 DEF ReceiveThrows, TypeOK
    <2>2. 1 \in DOMAIN inbox[c] /\ Head(inbox[c]) = inbox[c][1]
      BY <2>1, TailElements
    <2>3. Owner[r] = c /\ phase[r] \in {"half", "sent"}
      BY <2>1, <2>2 DEF InboxInv
    <2>4. ASSUME NEW q \in Requests, InPool(q), c = Owner[q] PROVE CutOff(Owner[q])'
      <3>1. q \in Unanswered(c) /\ r \in Unanswered(c) /\ q # r
        BY <2>3, <2>4 DEF Unanswered, InPool
      <3>2. c \in Pipelining
        BY <2>1, <3>1 DEF OneAtATime
      <3> QED
        BY <2>1, <2>4, <3>2 DEF CutOff
    <2> QED
      BY <1>5, <1>11, <2>4 DEF ReceiveThrows, CloseClient, CleanUp
  <1>12. CASE UNCHANGED vars
    BY <1>1, <1>12 DEF vars, InPool
  <1> QED
    BY <1>2, <1>3, <1>4, <1>6, <1>7, <1>8, <1>9, <1>10, <1>11, <1>12 DEF Next, Reactor

\* A part that reaches another connection belongs to a client that is gone.
LEMMA RepliesStep ==
    TypeOK /\ SourceInv /\ RepliesStayHome /\ [Next]_vars => RepliesStayHome'
  <1> SUFFICES ASSUME TypeOK, SourceInv, RepliesStayHome, [Next]_vars
               PROVE  RepliesStayHome'
    OBVIOUS
  <1> USE RequestsAssumption, NamesAssumption
  <1>0. \A d \in Conns : \A i \in DOMAIN outbox[d] : Owner[outbox[d][i][1]] \in Conns
    BY DEF TypeOK, Parts
  <1>a. \A c \in Conns : CutOff(c) => CutOff(c)'
    BY CutOffStays
  <1>1. ASSUME UNCHANGED outbox
        PROVE  RepliesStayHome'
    BY <1>0, <1>a, <1>1 DEF RepliesStayHome
  <1>2. ASSUME NEW c \in Conns, Connect(c) \/ HangUp(c)
        PROVE  RepliesStayHome'
    BY <1>1, <1>2 DEF Connect, HangUp
  <1>3. ASSUME NEW r \in Requests, SendHead(r) \/ SendPayload(r)
        PROVE  RepliesStayHome'
    BY <1>1, <1>3 DEF SendHead, SendPayload
  <1>4. ASSUME Reactor
        PROVE  RepliesStayHome'
    BY <1>1, <1>4
    DEF Reactor, Accept, AcceptFails, ReceiveHead, ReceivePayload, ReceiveFails, ReceiveThrows,
        CloseClient, netVars
  <1>5. ASSUME NEW r \in Requests, StartCommand(r) \/ Handle(r)
        PROVE  RepliesStayHome'
    BY <1>1, <1>5 DEF StartCommand, Handle, netVars
  <1>6. ASSUME NEW r \in Requests, ReplyHead(r) \/ ReplyPayload(r)
        PROVE  RepliesStayHome'
    <2> DEFINE d == fdTable[source[r]]
    <2>1. PICK part \in {"head", "payload"}, next \in {"replyPayload", "finished"} :
            WritePart(r, part, next)
      BY <1>6 DEF ReplyHead, ReplyPayload
    <2>2. d = Owner[r] \/ CutOff(Owner[r])
      BY <1>6 DEF ReplyHead, ReplyPayload, InPool, SourceInv
    <2>3. Owner[r] \in Conns
      OBVIOUS
    <2>4. CASE UNCHANGED outbox
      BY <1>1, <2>3, <2>4
    <2>5. CASE d \in Conns /\ outbox' = [outbox EXCEPT ![d] = Append(@, <<r, part>>)]
      <3>1. outbox[d] \in Seq(Parts) /\ <<r, part>> \in Parts
        BY <2>5 DEF TypeOK, Parts
      <3>2. outbox'[d] = Append(outbox[d], <<r, part>>) /\ \A c \in Conns \ {d} : outbox'[c] = outbox[c]
        BY <2>5 DEF TypeOK
      <3>3. \A i \in DOMAIN outbox'[d] :
              \/ i \in DOMAIN outbox[d] /\ outbox'[d][i] = outbox[d][i]
              \/ outbox'[d][i] = <<r, part>>
        BY <3>1, <3>2, AppendElements
      <3>4. ASSUME NEW c \in Conns, NEW i \in DOMAIN outbox'[c], NEW o \in Conns,
                   o = Owner[outbox'[c][i][1]]
            PROVE  o = c \/ CutOff(o)'
        <4>1. CASE i \in DOMAIN outbox[c] /\ outbox'[c][i] = outbox[c][i]
          <5>1. o = c \/ CutOff(o)
            BY <3>4, <4>1 DEF RepliesStayHome
          <5> QED
            BY <1>a, <5>1
        <4>2. CASE c = d /\ outbox'[c][i] = <<r, part>>
          <5>1. o = Owner[r]
            BY <3>4, <4>2
          <5>2. o = c \/ CutOff(o)
            BY <2>2, <4>2, <5>1
          <5> QED
            BY <1>a, <5>2
        <4> QED
          BY <3>2, <3>3, <3>4, <4>1, <4>2
      <3>5. \A c \in Conns : \A i \in DOMAIN outbox'[c] : Owner[outbox'[c][i][1]] \in Conns
        BY <1>0, <2>3, <3>2, <3>3
      <3> QED
        BY <3>4, <3>5 DEF RepliesStayHome, CutOff
    <2> QED
      BY <2>1, <2>4, <2>5 DEF WritePart
  <1>7. CASE UNCHANGED vars
    BY <1>1, <1>7 DEF vars
  <1> QED
    BY <1>2, <1>3, <1>4, <1>5, <1>6, <1>7 DEF Next, WorkerStep

-----------------------------------------------------------------------------
(* Theorems.                                                               *)

\* IndInv holds throughout, however clients and workers are scheduled.
THEOREM ServerInvariant == Spec => []IndInv
  <1>1. IndInv /\ [Next]_vars => IndInv'
    BY TypeStep, InboxStep, OneStep, SourceStep, RepliesStep DEF IndInv
  <1> QED
    BY InitInv, <1>1, PTL DEF Spec

\* The variables keep their types, and the reactor thread waits for at most
\* one payload, of a WRITE that is not in the pool yet.
THEOREM ServerTypeCorrect == Spec => []TypeOK
  <1>1. IndInv => TypeOK
    BY DEF IndInv
  <1> QED
    BY ServerInvariant, <1>1, PTL

\* SendReply to a reused descriptor number never takes a reply away from a
\* client that still waits for it: a misrouted one was for a client that hung up,
\* or one with several requests under way that the server dropped over another.
THEOREM RepliesReachTheirClients == Spec => []RepliesStayHome
  <1>1. IndInv => RepliesStayHome
    BY DEF IndInv
  <1> QED
    BY ServerInvariant, <1>1, PTL

-----------------------------------------------------------------------------
(* Frames.                                                                 *)

\* Between its two writes, the header is the last thing in the client's stream,
\* unless the stream has a stray reply in it or the client is gone.
HeaderLast ==
    \A r \in Requests :
        LET d == Owner[r] IN
        phase[r] = "replyPayload" /\ d \notin Pipelining /\ OwnReplies(d) /\ link[d] # "closed" =>
            Len(outbox[d]) > 0 /\ outbox[d][Len(outbox[d])] = <<r, "head">>

FrameInv == IndInv /\ HeaderLast /\ FramesIntact

\* Only writes change what clients have been sent, and a client that is gone is gone.
LEMMA StreamsStep ==
    ASSUME IndInv, Next
    PROVE  /\ UNCHANGED outbox \/ \E r \in Requests : Writes(r)
           /\ \A c \in Conns : link[c] = "closed" => link'[c] = "closed"
  <1> USE DEF IndInv
  <1>1. UNCHANGED outbox \/ \E r \in Requests : Writes(r)
    BY DEF Next, Reactor, WorkerStep, Connect, HangUp, SendHead, SendPayload, Accept, AcceptFails,
       ReceiveFails, ReceiveThrows, CloseClient, ReceiveHead, ReceivePayload, StartCommand, Handle,
       Writes, netVars
  <1>2. ASSUME NEW c \in Conns, Connect(c) \/ HangUp(c)
        PROVE  \A d \in Conns : link[d] = "closed" => link'[d] = "closed"
    BY <1>2 DEF Connect, HangUp, TypeOK
  <1>3. ASSUME NEW f \in Fds, NEW r \in Requests, ReceiveThrows(f, r)
        PROVE  \A d \in Conns : link[d] = "closed" => link'[d] = "closed"
    BY <1>3 DEF ReceiveThrows, TypeOK
  <1>4. \/ UNCHANGED link \/ \E c \in Conns : Connect(c) \/ HangUp(c)
        \/ \E f \in Fds, r \in Requests : ReceiveThrows(f, r)
    BY DEF Next, Reactor, WorkerStep, SendHead, SendPayload, Accept, AcceptFails,
       ReceiveFails, CloseClient, ReceiveHead, ReceivePayload, StartCommand, Handle, ReplyHead, ReplyPayload,
       netVars
  <1> QED
    BY <1>1, <1>2, <1>3, <1>4

\* A step that writes nothing into the stream of d.
LEMMA FrameQuiet ==
    ASSUME UNCHANGED outbox, FramesIntact PROVE FramesIntact'
  BY DEF FramesIntact, OwnReplies

\* A write of a part of r's reply to the connection d.
WritesTo(r, d, part) ==
    /\ link[d] = "open" /\ d = fdTable[source[r]]
    /\ outbox' = [outbox EXCEPT ![d] = Append(@, <<r, part>>)]
    /\ \A q \in Requests : q # r => phase'[q] = phase[q]
    /\ \/ part = "head" /\ phase[r] \in {"replyBoth", "replyHead"}
       \/ part = "payload" /\ phase[r] = "replyPayload" /\ phase'[r] = "finished"

\* A write, or what becomes of it when there is nobody to write to.
LEMMA WriteCases ==
    ASSUME IndInv, NEW r \in Requests, Writes(r)
    PROVE  /\ UNCHANGED link
           /\ fdTable[source[r]] = Owner[r] \/ CutOff(Owner[r])
           /\ \/ \E d \in Conns, part \in {"head", "payload"} : WritesTo(r, d, part)
              \/ /\ UNCHANGED outbox
                 /\ phase'[r] \in {phase[r], "finished"} \/ CutOff(Owner[r])
                 /\ \A q \in Requests : q # r => phase'[q] = phase[q]
  <1> USE DEF IndInv
  <1> DEFINE d == fdTable[source[r]]
  <1>1. UNCHANGED link
    BY DEF Writes, ReplyHead, ReplyPayload
  <1>2. d = Owner[r] \/ CutOff(Owner[r])
    BY DEF Writes, ReplyHead, ReplyPayload, InPool, SourceInv
  <1>3. PICK part \in {"head", "payload"}, next \in {"replyPayload", "finished"} :
          /\ WritePart(r, part, next)
          /\ \/ part = "head" /\ phase[r] \in {"replyBoth", "replyHead"}
             \/ part = "payload" /\ phase[r] = "replyPayload" /\ next = "finished"
    BY DEF Writes, ReplyHead, ReplyPayload
  <1>4. \A q \in Requests : q # r => phase'[q] = phase[q]
    BY <1>3 DEF WritePart, TypeOK
  <1>5. CASE d \in Conns /\ link[d] = "open" /\ phase'[r] = next
               /\ outbox' = [outbox EXCEPT ![d] = Append(@, <<r, part>>)]
    <2>1. WritesTo(r, d, part)
      BY <1>3, <1>4, <1>5 DEF WritesTo
    <2> QED
      BY <1>1, <1>2, <1>5, <2>1
  <1>6. CASE UNCHANGED outbox /\ (phase'[r] \in {phase[r], "finished"} \/ link[d] = "closed")
    BY <1>1, <1>2, <1>4, <1>6 DEF CutOff
  <1> QED
    BY <1>3, <1>5, <1>6 DEF WritePart, TypeOK

\* The streams after a write.
LEMMA WriteStreams ==
    ASSUME IndInv, NEW r \in Requests, NEW d \in Conns, NEW part \in {"head", "payload"},
           WritesTo(r, d, part)
    PROVE  /\ Len(outbox[d]) \in Nat /\ Len(outbox'[d]) = Len(outbox[d]) + 1
           /\ DOMAIN outbox[d] = 1 .. Len(outbox[d]) /\ DOMAIN outbox'[d] = 1 .. Len(outbox'[d])
           /\ outbox'[d][Len(outbox[d]) + 1] = <<r, part>>
           /\ \A i \in DOMAIN outbox[d] : outbox'[d][i] = outbox[d][i]
           /\ \A c \in Conns : c # d => outbox'[c] = outbox[c]
           /\ OwnReplies(d)' => OwnReplies(d) /\ Owner[r] = d
  <1>1. /\ outbox[d] \in Seq(Parts) /\ <<r, part>> \in Parts
        /\ outbox'[d] = Append(outbox[d], <<r, part>>)
        /\ \A c \in Conns : c # d => outbox'[c] = outbox[c]
    BY DEF WritesTo, IndInv, TypeOK, Parts
  <1>2. /\ Len(outbox[d]) \in Nat /\ Len(outbox'[d]) = Len(outbox[d]) + 1
        /\ DOMAIN outbox[d] = 1 .. Len(outbox[d]) /\ DOMAIN outbox'[d] = 1 .. Len(outbox'[d])
        /\ outbox'[d][Len(outbox[d]) + 1] = <<r, part>>
        /\ \A i \in DOMAIN outbox[d] : outbox'[d][i] = outbox[d][i]
    BY <1>1
  <1>3. Len(outbox[d]) + 1 \in DOMAIN outbox'[d] /\ DOMAIN outbox[d] \subseteq DOMAIN outbox'[d]
    BY <1>2
  <1>4. OwnReplies(d)' => OwnReplies(d) /\ Owner[r] = d
    BY <1>2, <1>3 DEF OwnReplies
  <1> QED
    BY <1>1, <1>2, <1>4

\* The header that is still waiting for its payload stays last.
LEMMA HeaderStep ==
    ASSUME IndInv, HeaderLast, Next PROVE HeaderLast'
  <1> SUFFICES ASSUME NEW q \in Requests, NEW c \in Conns, c = Owner[q], phase'[q] = "replyPayload",
                      c \notin Pipelining, OwnReplies(c)', link'[c] # "closed"
               PROVE  Len(outbox'[c]) > 0 /\ outbox'[c][Len(outbox'[c])] = <<q, "head">>
    BY RequestsAssumption DEF HeaderLast, OwnReplies
  <1>1. link[c] # "closed"
    BY StreamsStep
  <1>2. ASSUME phase[q] = "replyPayload", outbox'[c] = outbox[c]
        PROVE  Len(outbox'[c]) > 0 /\ outbox'[c][Len(outbox'[c])] = <<q, "head">>
    <2>1. OwnReplies(c)
      BY <1>2 DEF OwnReplies
    <2> QED
      BY <1>1, <1>2, <2>1 DEF HeaderLast
  <1>3. ASSUME NEW r \in Requests, NEW d \in Conns, NEW part \in {"head", "payload"},
               WritesTo(r, d, part), fdTable[source[r]] = Owner[r] \/ CutOff(Owner[r])
        PROVE  Len(outbox'[c]) > 0 /\ outbox'[c][Len(outbox'[c])] = <<q, "head">>
    <2>1. CASE r = q
      <3>1. d = c /\ part = "head"
        BY <1>1, <1>3, <2>1 DEF WritesTo, CutOff
      <3> QED
        BY <1>3, <2>1, <3>1, WriteStreams
    <2>2. CASE r # q
      <3>1. phase[q] = "replyPayload"
        BY <1>3, <2>2 DEF WritesTo
      <3>2. d # c
        <4>1. SUFFICES ASSUME d = c PROVE FALSE
          OBVIOUS
        <4>2. Owner[r] = c
          BY <1>3, <4>1, WriteStreams
        <4>3. q \in Unanswered(c) /\ r \in Unanswered(c)
          BY <1>3, <3>1, <4>2 DEF Unanswered, WritesTo
        <4> QED
          BY <2>2, <4>3 DEF OneAtATime, IndInv
      <3>3. outbox'[c] = outbox[c]
        BY <1>3, <3>2, WriteStreams
      <3> QED
        BY <1>2, <3>1, <3>3
    <2> QED
      BY <2>1, <2>2
  <1>4. CASE \E r \in Requests : Writes(r)
    <2>1. PICK r \in Requests : Writes(r)
      BY <1>4
    <2>2. CASE \E d \in Conns, part \in {"head", "payload"} : WritesTo(r, d, part)
      BY <1>3, <2>1, <2>2, WriteCases
    <2>3. CASE /\ UNCHANGED outbox
               /\ phase'[r] \in {phase[r], "finished"} \/ CutOff(Owner[r])
               /\ \A s \in Requests : s # r => phase'[s] = phase[s]
      <3>1. phase[q] = "replyPayload"
        BY <1>1, <2>3 DEF CutOff
      <3> QED
        BY <1>2, <2>3, <3>1
    <2> QED
      BY <2>1, <2>2, <2>3, WriteCases
  <1>5. CASE ~\E r \in Requests : Writes(r)
    <2>1. UNCHANGED outbox
      BY <1>5, StreamsStep
    <2>2. ~SendHead(q)
      BY DEF SendHead, IndInv, TypeOK
    <2>3. phase[q] = "replyPayload"
      BY <1>5, <2>2, PhaseStep DEF IndInv
    <2> QED
      BY <1>2, <2>1, <2>3
  <1> QED
    BY <1>4, <1>5

LEMMA FrameStep ==
    ASSUME IndInv, HeaderLast, FramesIntact, Next PROVE FramesIntact'
  <1>1. CASE UNCHANGED outbox
    BY <1>1, FrameQuiet
  <1>2. ASSUME NEW r \in Requests, NEW d \in Conns, NEW part \in {"head", "payload"},
               WritesTo(r, d, part)
        PROVE  FramesIntact'
    <2> SUFFICES ASSUME NEW c \in Conns \ Pipelining, OwnReplies(c)', NEW i \in DOMAIN outbox'[c],
                        outbox'[c][i][2] = "payload"
                 PROVE  i > 1 /\ outbox'[c][i - 1] = <<outbox'[c][i][1], "head">>
      BY DEF FramesIntact, OwnReplies
    <2>1. CASE c # d
      <3>1. outbox'[c] = outbox[c]
        BY <1>2, <2>1, WriteStreams
      <3>2. OwnReplies(c)
        BY <3>1 DEF OwnReplies
      <3> QED
        BY <3>1, <3>2 DEF FramesIntact
    <2>2. CASE c = d
      <3>1. /\ Len(outbox[d]) \in Nat /\ Len(outbox'[d]) = Len(outbox[d]) + 1
            /\ DOMAIN outbox[d] = 1 .. Len(outbox[d]) /\ DOMAIN outbox'[d] = 1 .. Len(outbox'[d])
            /\ outbox'[d][Len(outbox[d]) + 1] = <<r, part>>
            /\ \A j \in DOMAIN outbox[d] : outbox'[d][j] = outbox[d][j]
            /\ OwnReplies(d) /\ Owner[r] = d
        BY <1>2, <2>2, WriteStreams
      <3>2. CASE i \in DOMAIN outbox[d]
        <4>1. outbox'[d][i] = outbox[d][i]
          BY <3>1, <3>2
        <4>2. i > 1 /\ outbox[d][i - 1] = <<outbox[d][i][1], "head">>
          BY <2>2, <3>1, <3>2, <4>1 DEF FramesIntact
        <4>3. i - 1 \in DOMAIN outbox[d]
          BY <3>1, <3>2, <4>2
        <4> QED
          BY <2>2, <3>1, <4>1, <4>2, <4>3
      <3>3. CASE i = Len(outbox[d]) + 1
        <4>1. part = "payload" /\ outbox'[d][i][1] = r
          BY <2>2, <3>1, <3>3
        <4>2. phase[r] = "replyPayload" /\ link[d] # "closed"
          BY <1>2, <4>1 DEF WritesTo
        <4>3. Len(outbox[d]) > 0 /\ outbox[d][Len(outbox[d])] = <<r, "head">>
          BY <2>2, <3>1, <4>2 DEF HeaderLast
        <4>4. i > 1 /\ i - 1 = Len(outbox[d]) /\ i - 1 \in DOMAIN outbox[d]
          BY <3>1, <3>3, <4>3
        <4> QED
          BY <2>2, <3>1, <4>1, <4>3, <4>4
      <3> QED
        BY <2>2, <3>1, <3>2, <3>3
    <2> QED
      BY <2>1, <2>2
  <1> QED
    BY <1>1, <1>2, StreamsStep, WriteCases

\* A client that waits for each reply finds in its stream every payload right after
\* its own header, although SendReply takes no lock between its two WriteAll calls:
\* the one request it has under way is with one worker.
THEOREM RepliesAreFramed == Spec => []FramesIntact
  <1>1. Init => HeaderLast /\ FramesIntact
    BY RequestsAssumption DEF Init, HeaderLast, FramesIntact
  <1>2. FrameInv /\ [Next]_vars => (HeaderLast /\ FramesIntact)'
    <2> SUFFICES ASSUME FrameInv, [Next]_vars PROVE (HeaderLast /\ FramesIntact)'
      OBVIOUS
    <2>1. CASE Next
      BY <2>1, HeaderStep, FrameStep DEF FrameInv
    <2>2. CASE UNCHANGED vars
      BY <2>2 DEF vars, FrameInv, HeaderLast, FramesIntact, OwnReplies
    <2> QED
      BY <2>1, <2>2
  <1>3. FrameInv /\ [Next]_vars => IndInv'
    BY TypeStep, InboxStep, OneStep, SourceStep, RepliesStep DEF FrameInv, IndInv
  <1>4. Init => FrameInv
    BY <1>1, InitInv DEF FrameInv
  <1>5. FrameInv /\ [Next]_vars => FrameInv'
    BY <1>2, <1>3 DEF FrameInv
  <1>6. FrameInv => FramesIntact
    BY DEF FrameInv
  <1> QED
    BY <1>4, <1>5, <1>6, PTL DEF Spec
=============================================================================
