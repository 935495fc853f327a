----------------------------- MODULE TCPServer ------------------------------
(***************************************************************************)
(* The TCP server while it runs: TCPDriverComm, InputMediator and Reactor, *)
(* with clients that connect, send requests and hang up, a pool of workers *)
(* that reply, and the kernel's table of descriptors and sockets.          *)
(*                                                                         *)
(* Threads: the reactor thread runs Notify for one ready descriptor at a   *)
(* time and blocks inside ReadAll; the workers run the handlers.  Nothing  *)
(* but the number m_source_fd ties a request to its connection, and no     *)
(* lock covers the two writes of a reply.                                  *)
(*                                                                         *)
(* Data: a request's frame is its header and, for WRITE, its payload; a    *)
(* reply's is its header and, for a successful READ or LIST_OFFSETS with   *)
(* data, its payload.  Storage results are chosen: RAIDStorage models them.*)
(* Every FunctionCommand has the same priority, so the pool may start any  *)
(* queued one: ThreadPool models how.  Sockets' send buffers are unbounded.*)
(***************************************************************************)
EXTENDS Integers, Sequences, FiniteSets

CONSTANTS
    Conns,       \* client connections, each made at most once
    Requests,    \* requests clients may send
    Owner,       \* the connection each request is sent on
    Kind,        \* "read": may have reply payload (READ, LIST_OFFSETS);
                 \* "write": has request payload (WRITE); "plain": neither
                 \* (FLUSH, TRIM, GET_SIZE); "silent": no reply (DISCONNECT, and
                 \* a type without handler, whose exception the pool swallows)
    NumWorkers,  \* threads of the pool
    MaxFds,      \* descriptors the process may have open for sockets
    Pipelining,  \* connections whose client may send a request before the last
                 \* one is answered, as client.py does after a timeout
    HangUps,     \* connections whose client may close with a request unanswered
    Refused      \* requests for whose data there may be no memory

Kinds == {"read", "write", "plain", "silent"}

ASSUME RequestsAssumption == Owner \in [Requests -> Conns] /\ Kind \in [Requests -> Kinds]
ASSUME SizesAssumption    == NumWorkers \in Nat \ {0} /\ MaxFds \in Nat \ {0}
ASSUME ClientsAssumption  == Pipelining \subseteq Conns /\ HangUps \subseteq Conns
ASSUME RefusedAssumption  == Refused \subseteq Requests
ASSUME NamesAssumption    == Conns \cap {"free", "listen"} = {}

VARIABLES
    link,        \* each connection: "none" yet, "open", "closed" by its client, or
                 \* "dropped" by the server under a client that was there
    backlog,     \* connections the server has yet to accept
    inbox,       \* parts of requests sent and not yet read by the server
    outbox,      \* parts of replies written to the connection
    fdTable,     \* what each descriptor number refers to
    epoll,       \* descriptors registered with the Reactor
    clientFds,   \* m_client_fds (m_fd_to_ip has the same keys)
    reading,     \* requests whose payload the reactor thread is blocked on
    phase,       \* how far each request has come
    source,      \* m_source_fd of each request received
    allocated,   \* WRITE requests recorded in m_allocations and .tcp_allocations
    server       \* "running", or "dead": killed by SIGPIPE

vars == <<link, backlog, inbox, outbox, fdTable, epoll, clientFds, reading, phase, source,
          allocated, server>>
netVars    == <<link, backlog, inbox, outbox>>
driverVars == <<fdTable, epoll, clientFds, reading, source, allocated>>

Fds   == 1 .. MaxFds
Parts == Requests \X {"head", "payload"}

\* unsent, half (header sent, payload to come), sent, queued in the pool,
\* executing, then about to write: both parts, the header alone, the payload.
Phases == {"unsent", "half", "sent", "queued", "executing",
           "replyBoth", "replyHead", "replyPayload", "finished"}

InPool(r)     == phase[r] \in {"queued", "executing", "replyBoth", "replyHead", "replyPayload"}
WithWorker    == {r \in Requests : InPool(r) /\ phase[r] # "queued"}
Free          == {f \in Fds : fdTable[f] = "free"}
LowestFree(g) == g \in Free /\ \A h \in Free : g <= h
Listening     == \E f \in Fds : fdTable[f] = "listen"

\* What the client of connection c still waits for.
Unanswered(c) == {r \in Requests : Owner[r] = c /\ phase[r] \notin {"unsent", "finished"}}

-----------------------------------------------------------------------------

\* The constructor has bound the listen socket and RunServer has added it.
Init ==
    /\ link = [c \in Conns |-> "none"]
    /\ backlog = <<>>
    /\ inbox = [c \in Conns |-> <<>>]
    /\ outbox = [c \in Conns |-> <<>>]
    /\ fdTable = [f \in Fds |-> IF f = 1 THEN "listen" ELSE "free"]
    /\ epoll = {1}
    /\ clientFds = {}
    /\ reading = {}
    /\ phase = [r \in Requests |-> "unsent"]
    /\ source = [r \in Requests |-> 0]
    /\ allocated = {}
    /\ server = "running"

-----------------------------------------------------------------------------
(* Clients.                                                                *)

\* The connection is up at both ends: a dead process has lost its sockets.
Open(c) == link[c] = "open" /\ server = "running"

Connect(c) ==
    /\ link[c] = "none" /\ Listening /\ server = "running"
    /\ link' = [link EXCEPT ![c] = "open"]
    /\ backlog' = Append(backlog, c)
    /\ UNCHANGED <<inbox, outbox, driverVars, phase, server>>

\* A client that waits for each reply has nothing unanswered; one that gave up
\* waiting after its timeout has at least sent its last request whole.
MaySend(c) == \A q \in Unanswered(c) : c \in Pipelining /\ phase[q] # "half"

SendHead(r) ==
    LET c == Owner[r]
    IN  /\ Open(c) /\ phase[r] = "unsent"
        /\ MaySend(c)
        /\ inbox' = [inbox EXCEPT ![c] = Append(@, <<r, "head">>)]
        /\ phase' = [phase EXCEPT ![r] = IF Kind[r] = "write" THEN "half" ELSE "sent"]
        /\ UNCHANGED <<link, backlog, outbox, driverVars, server>>

SendPayload(r) ==
    LET c == Owner[r]
    IN  /\ Open(c) /\ phase[r] = "half"
        /\ inbox' = [inbox EXCEPT ![c] = Append(@, <<r, "payload">>)]
        /\ phase' = [phase EXCEPT ![r] = "sent"]
        /\ UNCHANGED <<link, backlog, outbox, driverVars, server>>

HangUp(c) ==
    /\ Open(c)
    /\ c \in HangUps \/ Unanswered(c) = {}
    /\ link' = [link EXCEPT ![c] = "closed"]
    /\ UNCHANGED <<backlog, inbox, outbox, driverVars, phase, server>>

-----------------------------------------------------------------------------
(* The reactor thread: Reactor::Run calls InputMediator::Notify(fd).       *)

\* The thread is in epoll_wait and fd is ready.
Dispatch(f) == server = "running" /\ reading = {} /\ f \in epoll

\* Reactor::Add.
Add(g) == epoll' = epoll \cup {g}

\* Mutant of Accept: the new descriptor is not given to the reactor.
AcceptUnwatched(f, g) ==
    /\ Dispatch(f) /\ fdTable[f] = "listen" /\ backlog # <<>>
    /\ LowestFree(g)
    /\ backlog' = Tail(backlog)
    /\ fdTable' = [fdTable EXCEPT ![g] = Head(backlog)]
    /\ clientFds' = clientFds \cup {g}
    /\ UNCHANGED <<link, inbox, outbox, epoll, reading, phase, source, allocated, server>>

\* The listen socket is ready: TryAccept, then Reactor::Add.  The kernel hands
\* out g, the lowest free number.
Accept(f, g) ==
    /\ Dispatch(f) /\ fdTable[f] = "listen" /\ backlog # <<>>
    /\ LowestFree(g)
    /\ backlog' = Tail(backlog)
    /\ fdTable' = [fdTable EXCEPT ![g] = Head(backlog)]
    /\ clientFds' = clientFds \cup {g}
    /\ Add(g)
    /\ UNCHANGED <<link, inbox, outbox, reading, phase, source, allocated, server>>

\* Mutant of CleanUp: the descriptor is not closed.
CleanUpLeaks(f) ==
    /\ epoll' = epoll \ {f}
    /\ clientFds' = clientFds \ {f}
    /\ UNCHANGED fdTable

\* Notify's catch block: Reactor::Remove and RemoveClientFD, which closes fd.
CleanUp(f) ==
    /\ epoll' = epoll \ {f}
    /\ clientFds' = clientFds \ {f}
    /\ fdTable' = [fdTable EXCEPT ![f] = "free"]

\* accept fails, here for want of a descriptor.  TryAccept's -1 also means "not
\* the listen socket", so Notify goes on to read a request from the listen
\* socket, which fails as well and is cleaned up like a client.
AcceptFails(f) ==
    /\ Dispatch(f) /\ fdTable[f] = "listen" /\ backlog # <<>>
    /\ Free = {}
    /\ CleanUp(f)
    /\ UNCHANGED <<netVars, reading, phase, source, allocated, server>>

\* ReceiveRequest reads the header.  For WRITE it goes on to read the payload,
\* blocking the thread; otherwise the request goes to the pool.
ReceiveHead(f, r) ==
    LET c == fdTable[f]
    IN  /\ Dispatch(f) /\ c \in Conns
        /\ inbox[c] # <<>> /\ Head(inbox[c]) = <<r, "head">>
        /\ inbox' = [inbox EXCEPT ![c] = Tail(@)]
        /\ source' = [source EXCEPT ![r] = f]
        /\ IF Kind[r] = "write"
           THEN reading' = {r} /\ UNCHANGED phase
           ELSE phase' = [phase EXCEPT ![r] = "queued"] /\ UNCHANGED reading
        /\ UNCHANGED <<link, backlog, outbox, fdTable, epoll, clientFds, allocated, server>>

\* The WRITE is entered in m_allocations and the file rewritten, before the
\* storage has seen the request.
SaveAllocations(r) == allocated' = allocated \cup {r}

\* The payload is complete: UpdateAllocation, SaveAllocations, AddCommand.
ReceivePayload(r) ==
    LET c == fdTable[source[r]]
    IN  /\ r \in reading /\ inbox[c] # <<>> /\ Head(inbox[c]) = <<r, "payload">>
        /\ inbox' = [inbox EXCEPT ![c] = Tail(@)]
        /\ SaveAllocations(r)
        /\ phase' = [phase EXCEPT ![r] = "queued"]
        /\ reading' = {}
        /\ UNCHANGED <<link, backlog, outbox, fdTable, epoll, clientFds, source, server>>

\* Notify's catch block for a client: what was not read is discarded.
CloseClient(f) ==
    /\ CleanUp(f)
    /\ reading' = {}
    /\ inbox' = [inbox EXCEPT ![fdTable[f]] = <<>>]
    /\ UNCHANGED <<backlog, outbox, phase, source, allocated, server>>

\* ReadAll meets the end of the stream or a reset, which may discard what was
\* sent: at the header of a request, or at the payload it is blocked on.
ReceiveFails(f) ==
    /\ fdTable[f] \in Conns /\ link[fdTable[f]] = "closed"
    /\ Dispatch(f) \/ \E r \in reading : source[r] = f
    /\ CloseClient(f)
    /\ UNCHANGED link

\* There is no memory for the request: for the DriverData, whose buffer has the
\* length the header gives, or, once its payload is read, for what
\* UpdateAllocation appends.  The exception ends in the same catch block, and the
\* connection is closed under a client that is there.
ReceiveThrows(f, r) ==
    LET c == fdTable[f]
    IN  /\ c \in Conns /\ r \in Refused /\ inbox[c] # <<>>
        /\ \/ Dispatch(f) /\ Head(inbox[c]) = <<r, "head">>
           \/ r \in reading /\ source[r] = f /\ Head(inbox[c]) = <<r, "payload">>
        /\ CloseClient(f)
        /\ link' = [link EXCEPT ![c] = IF @ = "closed" THEN @ ELSE "dropped"]

-----------------------------------------------------------------------------
(* The workers: FunctionCommand::Execute, one of the mediator's handlers.  *)

StartCommand(r) ==
    /\ server = "running"
    /\ phase[r] = "queued" /\ Cardinality(WithWorker) < NumWorkers
    /\ phase' = [phase EXCEPT ![r] = "executing"]
    /\ UNCHANGED <<netVars, driverVars, server>>

\* What SendReply has to write once the handler has its result: nothing for
\* DISCONNECT, a header, and a payload with a successful and non-empty READ.
Replies(r) ==
    IF Kind[r] = "silent" THEN {"finished"}
    ELSE {"replyHead"} \cup IF Kind[r] = "read" THEN {"replyBoth"} ELSE {}

\* Mutant of Handle: DISCONNECT closes the descriptor it came from.
HandleCloses(r) ==
    /\ server = "running" /\ phase[r] = "executing"
    /\ \E p \in Replies(r) : phase' = [phase EXCEPT ![r] = p]
    /\ IF Kind[r] = "silent" THEN CleanUp(source[r]) ELSE UNCHANGED <<epoll, clientFds, fdTable>>
    /\ UNCHANGED <<netVars, reading, source, allocated, server>>

\* The handler has its result from the storage and calls SendReply.
Handle(r) ==
    /\ server = "running" /\ phase[r] = "executing"
    /\ \E p \in Replies(r) : phase' = [phase EXCEPT ![r] = p]
    /\ UNCHANGED <<netVars, driverVars, server>>

\* SendReply writes a part to whatever m_source_fd refers to by now: a socket, or
\* nothing ("free", which may also be a file the process has open for a moment).
WritePart(r, part, next) ==
    LET d == fdTable[source[r]]
    IN  \* a live connection
        \/ /\ d \in Conns /\ link[d] = "open"
           /\ outbox' = [outbox EXCEPT ![d] = Append(@, <<r, part>>)]
           /\ phase' = [phase EXCEPT ![r] = next]
           /\ UNCHANGED server
        \* the peer is gone: the kernel takes the bytes and drops them
        \/ /\ d \in Conns /\ link[d] = "closed"
           /\ phase' = [phase EXCEPT ![r] = next]
           /\ UNCHANGED <<outbox, server>>
        \* EBADF, or ECONNRESET: WriteAll throws and SendReply swallows it
        \/ /\ d = "free" \/ (d \in Conns /\ link[d] = "closed")
           /\ phase' = [phase EXCEPT ![r] = "finished"]
           /\ UNCHANGED <<outbox, server>>
        \* EPIPE: write() raises SIGPIPE, which nobody blocks or handles
        \/ /\ d \in Conns /\ link[d] = "closed"
           /\ server' = "dead"
           /\ UNCHANGED <<outbox, phase>>

\* Mutant of ReplyHead: the payload goes out first.
ReplyPayloadFirst(r) ==
    /\ server = "running"
    /\ phase[r] \in {"replyBoth", "replyHead"}
    /\ IF phase[r] = "replyBoth" THEN WritePart(r, "payload", "replyHead")
                                 ELSE WritePart(r, "head", "finished")
    /\ UNCHANGED <<link, backlog, inbox, driverVars>>

ReplyHead(r) ==
    /\ server = "running"
    /\ phase[r] \in {"replyBoth", "replyHead"}
    /\ WritePart(r, "head", IF phase[r] = "replyBoth" THEN "replyPayload" ELSE "finished")
    /\ UNCHANGED <<link, backlog, inbox, driverVars>>

ReplyPayload(r) ==
    /\ server = "running"
    /\ phase[r] = "replyPayload"
    /\ WritePart(r, "payload", "finished")
    /\ UNCHANGED <<link, backlog, inbox, driverVars>>

-----------------------------------------------------------------------------

Reactor ==
    \/ \E f, g \in Fds : Accept(f, g)
    \/ \E f \in Fds : AcceptFails(f) \/ ReceiveFails(f)
    \/ \E f \in Fds, r \in Requests : ReceiveHead(f, r) \/ ReceiveThrows(f, r)
    \/ \E r \in Requests : ReceivePayload(r)

WorkerStep(r) == StartCommand(r) \/ Handle(r) \/ ReplyHead(r) \/ ReplyPayload(r)

Next ==
    \/ \E c \in Conns : Connect(c) \/ HangUp(c)
    \/ \E r \in Requests : SendHead(r) \/ SendPayload(r) \/ WorkerStep(r)
    \/ Reactor

Spec == Init /\ [][Next]_vars

\* The threads of the server run.
ServerFairSpec == Spec /\ WF_vars(Reactor) /\ \A r \in Requests : WF_vars(WorkerStep(r))

\* Clients also finish the frames they begin.
FairSpec == ServerFairSpec /\ \A r \in Requests : WF_vars(SendPayload(r))

-----------------------------------------------------------------------------
(* Properties.                                                             *)

\* The values every variable ranges over; the reactor thread waits for at most
\* one payload, of a WRITE not yet given to the pool.
TypeOK ==
    /\ link \in [Conns -> {"none", "open", "closed", "dropped"}]
    /\ backlog \in Seq(Conns)
    /\ inbox \in [Conns -> Seq(Parts)] /\ outbox \in [Conns -> Seq(Parts)]
    /\ fdTable \in [Fds -> Conns \cup {"free", "listen"}]
    /\ epoll \subseteq Fds /\ clientFds \subseteq Fds
    /\ phase \in [Requests -> Phases]
    /\ source \in [Requests -> 0 .. MaxFds]
    /\ reading \subseteq {r \in Requests : Kind[r] = "write" /\ phase[r] \in {"half", "sent"}}
    /\ \A q, r \in reading : q = r
    /\ allocated \subseteq Requests /\ server \in {"running", "dead"}

\* The replies to c's requests have nowhere to go: its client hung up, or the
\* server dropped the connection while it had several requests under way.
CutOff(c) == link[c] = "closed" \/ (link[c] = "dropped" /\ c \in Pipelining)

\* Nobody reads a reply meant for a client that is still there: if a part of
\* r's reply reaches another connection, r's own has been closed by its client,
\* or dropped on account of a later request, however descriptor numbers were
\* reused while r was in the pool.  A client that waits for each reply loses none
\* to another.
RepliesStayHome ==
    \A d \in Conns : \A i \in DOMAIN outbox[d] :
        LET r == outbox[d][i][1] IN Owner[r] = d \/ CutOff(Owner[r])

\* Every part of a reply in d's stream is for a request of d.
OwnReplies(d) == \A i \in DOMAIN outbox[d] : Owner[outbox[d][i][1]] = d

\* A client that waits for each reply can parse its stream, although no lock
\* covers the two writes of a reply: a payload follows its own header with no
\* other worker's write in between.  Only a stray reply, from a descriptor
\* number used before, could break this.
FramesIntact ==
    \A d \in Conns \ Pipelining : OwnReplies(d) =>
        \A i \in DOMAIN outbox[d] :
            outbox[d][i][2] = "payload" =>
                i > 1 /\ outbox[d][i - 1] = <<outbox[d][i][1], "head">>

\* A request that a client has sent whole is answered on its connection, unless
\* the server was killed, the client hung up, the server dropped the connection
\* for want of memory, or it never accepted it, having closed the listen socket
\* at the descriptor limit.
Answered ==
    \A r \in Requests :
        phase[r] = "sent" /\ Kind[r] # "silent" ~>
            \/ \E i \in DOMAIN outbox[Owner[r]] : outbox[Owner[r]][i] = <<r, "head">>
            \/ server = "dead" \/ link[Owner[r]] \in {"closed", "dropped"}
            \/ ~Listening /\ \E i \in DOMAIN backlog : backlog[i] = Owner[r]

\* The descriptor of a connection that its client closed is closed by the server
\* and can be handed out again.
FdsReclaimed ==
    \A c \in Conns :
        link[c] = "closed" ~> server = "dead" \/ \A f \in Fds : fdTable[f] # c

\* TCPDriverComm.cpp, on a reply that cannot be written: "Client disconnected -
\* will be cleaned up by Reactor".
ServerSurvives == server # "dead"
=============================================================================
