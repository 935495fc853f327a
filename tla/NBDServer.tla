------------------------------ MODULE NBDServer -----------------------------
(***************************************************************************)
(* The data path of NBD mode: the kernel's block device at one end of the  *)
(* socket pair; NBDDriverComm, InputMediator and Reactor at the other.     *)
(*                                                                         *)
(* The kernel sends requests without waiting for the last reply, and       *)
(* matches replies by their handle, in any order.  The workers write them  *)
(* into the one socket without a lock: a header, then, for a successful    *)
(* READ, the data, for which WriteAll may need several writes.  The kernel *)
(* reads as much data as it asked for, whatever it is.                     *)
(*                                                                         *)
(* Storage results are chosen.  NBDDriver models the threads of the driver *)
(* and its Disconnect.                                                     *)
(***************************************************************************)
EXTENDS Naturals, Sequences, FiniteSets

CONSTANTS
    Requests,    \* requests the kernel may send
    Kind,        \* "read", "write", "plain" (FLUSH, TRIM) or "disc"
    Workers,     \* values the number of worker threads may have
    Depths,      \* values the number of requests in flight may be limited to
    Chunks,      \* writes the data of one READ takes
    Refused      \* requests ReceiveRequest may have no memory for

ASSUME KindAssumption    == Kind \in [Requests -> {"read", "write", "plain", "disc"}]
ASSUME SizesAssumption   == Workers \cup Depths \cup {Chunks} \subseteq Nat \ {0}
ASSUME RefusedAssumption == Refused \subseteq Requests

VARIABLES
    workers,     \* threads of the pool
    depth,       \* requests the kernel has in flight at most
    waiting,     \* requests the kernel waits for a reply to
    inbox,       \* what the kernel has sent and the server has not read
    stream,      \* what the workers have written and the kernel has not read
    expect,      \* what the kernel reads next: a header, or data of a READ
    torn,        \* the kernel has taken something for what it is not
    kernel,      \* "up", or "down": it has shut the socket down
    phase,       \* how far each request has come
    part,        \* the part of its reply each request's worker writes next
    reading,     \* WRITEs whose payload the reactor thread is reading
    watched,     \* the socket is registered with the Reactor
    server       \* "running", or "dead": killed by SIGPIPE

vars == <<workers, depth, waiting, inbox, stream, expect, torn, kernel, phase, part,
          reading, watched, server>>

conf       == <<workers, depth>>
kernelVars == <<conf, waiting, expect, torn, kernel>>

\* "half": the payload of a WRITE is to follow.
Phases == {"unsent", "half", "sent", "queued", "executing", "writing", "finished",
           "refused"}

\* The parts of a reply: a header that says EIO, chunks 1 to Chunks, and a header
\* that says ok.
Eio   == 0
Ok    == Chunks + 1
Parts == Eio .. Ok

WithWorker == {r \in Requests : phase[r] \in {"executing", "writing"}}
Header     == <<>>

Init ==
    /\ workers \in Workers /\ depth \in Depths
    /\ waiting = {} /\ inbox = <<>> /\ stream = <<>>
    /\ expect = Header /\ torn = FALSE /\ kernel = "up"
    /\ phase = [r \in Requests |-> "unsent"] /\ part = [r \in Requests |-> Ok]
    /\ reading = {} /\ watched = TRUE /\ server = "running"

-----------------------------------------------------------------------------
(* The kernel.                                                             *)

Connected == kernel = "up" /\ server = "running"

\* Nothing comes between the header and the payload of a WRITE; nothing is
\* sent after NBD_CMD_DISC, which has no reply.
SendHead(r) ==
    /\ Connected /\ phase[r] = "unsent"
    /\ \A q \in Requests : phase[q] # "half" /\ (Kind[q] = "disc" => phase[q] = "unsent")
    /\ Cardinality(waiting) < depth
    /\ inbox' = Append(inbox, <<r, "head">>)
    /\ phase' = [phase EXCEPT ![r] = IF Kind[r] = "write" THEN "half" ELSE "sent"]
    /\ waiting' = waiting \cup (IF Kind[r] = "disc" THEN {} ELSE {r})
    /\ UNCHANGED <<conf, stream, expect, torn, kernel, part, reading, watched, server>>

SendPayload(r) ==
    /\ Connected /\ phase[r] = "half"
    /\ inbox' = Append(inbox, <<r, "payload">>)
    /\ phase' = [phase EXCEPT ![r] = "sent"]
    /\ UNCHANGED <<kernelVars, stream, part, reading, watched, server>>

\* The kernel has read the header of a reply it waits for; data follow if it
\* answers a READ and says ok.
Reply(r, status) ==
    /\ status \in {Ok, Eio} /\ r \in waiting
    /\ LET data == Kind[r] = "read" /\ status = Ok
       IN  /\ expect' = IF data THEN <<r, 1>> ELSE Header
           /\ waiting' = IF data THEN waiting ELSE waiting \ {r}
    /\ stream' = Tail(stream)
    /\ UNCHANGED <<torn, kernel>>

\* Whatever comes is the data of a READ.
Data(r, k) ==
    /\ torn' = (torn \/ Head(stream) # <<r, k>>)
    /\ expect' = IF k = Chunks THEN Header ELSE <<r, k + 1>>
    /\ waiting' = IF k = Chunks THEN waiting \ {r} ELSE waiting
    /\ stream' = Tail(stream)
    /\ UNCHANGED kernel

\* The socket is shut down, and what is in flight fails.
ShutDown ==
    /\ kernel' = "down"
    /\ waiting' = {} /\ stream' = <<>> /\ expect' = Header

\* A header that makes no sense: wrong magic, or a handle nobody waits for.
Nonsense(r, status) ==
    /\ status \notin {Ok, Eio} \/ r \notin waiting
    /\ torn' = TRUE
    /\ ShutDown

ReadReply ==
    /\ Connected /\ stream # <<>>
    /\ IF expect # Header THEN Data(expect[1], expect[2])
       ELSE LET u == Head(stream) IN Reply(u[1], u[2]) \/ Nonsense(u[1], u[2])
    /\ UNCHANGED <<conf, inbox, phase, part, reading, watched, server>>

\* NBD_DISCONNECT, or the kernel gives the device up.
KernelDisconnects ==
    /\ Connected
    /\ ShutDown
    /\ UNCHANGED <<conf, torn, inbox, phase, part, reading, watched, server>>

-----------------------------------------------------------------------------
(* The reactor thread: Notify, which calls ReceiveRequest.                 *)

Dispatch == server = "running" /\ watched /\ reading = {}

\* Mutant of ReceiveHead: the payload of a WRITE is left in the socket.
ReceiveHeadOnly(r) ==
    /\ Dispatch /\ inbox # <<>> /\ Head(inbox) = <<r, "head">>
    /\ inbox' = Tail(inbox)
    /\ phase' = [phase EXCEPT ![r] = "queued"]
    /\ UNCHANGED <<kernelVars, stream, part, reading, watched, server>>

\* The header is read; for WRITE, the thread goes on to the payload.  TryAccept
\* has said that this is no listen socket.
ReceiveHead(r) ==
    /\ Dispatch /\ inbox # <<>> /\ Head(inbox) = <<r, "head">>
    /\ inbox' = Tail(inbox)
    /\ \/ Kind[r] = "write" /\ reading' = {r} /\ UNCHANGED phase
       \/ Kind[r] # "write" /\ phase' = [phase EXCEPT ![r] = "queued"] /\ UNCHANGED reading
    /\ UNCHANGED <<kernelVars, stream, part, watched, server>>

ReceivePayload(r) ==
    /\ server = "running" /\ r \in reading
    /\ inbox # <<>> /\ Head(inbox) = <<r, "payload">>
    /\ inbox' = Tail(inbox)
    /\ reading' = {}
    /\ phase' = [phase EXCEPT ![r] = "queued"]
    /\ UNCHANGED <<kernelVars, stream, part, watched, server>>

\* Notify's catch block: the socket is taken out of the Reactor, RemoveClientFD
\* does nothing.  No request is read any more.
CleanUp == watched' = FALSE

\* Mutant of EndOfStream: the socket stays registered.
EndOfStreamWatched ==
    /\ server = "running" /\ watched
    /\ inbox = <<>> /\ kernel = "down"
    /\ reading' = {}
    /\ UNCHANGED <<kernelVars, inbox, stream, phase, part, watched, server>>

\* ReadAll meets the end of the stream, at a header or a payload.
EndOfStream ==
    /\ server = "running" /\ watched
    /\ inbox = <<>> /\ kernel = "down"
    /\ CleanUp
    /\ reading' = {}
    /\ UNCHANGED <<kernelVars, inbox, stream, phase, part, server>>

\* ReceiveRequest throws on a header: its magic is wrong, since it is the payload
\* of a WRITE, or there is no memory for the data.
BadRequest ==
    /\ Dispatch /\ inbox # <<>>
    /\ LET r == Head(inbox)[1]
       IN  /\ Head(inbox)[2] = "payload" \/ r \in Refused
           /\ phase' = [phase EXCEPT ![r] = IF Head(inbox)[2] = "head" THEN "refused" ELSE @]
    /\ CleanUp
    /\ inbox' = Tail(inbox)
    /\ UNCHANGED <<kernelVars, stream, part, reading, server>>

-----------------------------------------------------------------------------
(* The workers.                                                            *)

StartCommand(r) ==
    /\ server = "running"
    /\ phase[r] = "queued" /\ Cardinality(WithWorker) < workers
    /\ phase' = [phase EXCEPT ![r] = "executing"]
    /\ UNCHANGED <<kernelVars, inbox, stream, part, reading, watched, server>>

\* Mutant of Handle: DISCONNECT is replied to.
HandleReplies(r) ==
    /\ server = "running" /\ phase[r] = "executing"
    /\ phase' = [phase EXCEPT ![r] = "writing"]
    /\ part' \in {[part EXCEPT ![r] = p] :
                    p \in {Ok} \cup (IF Kind[r] \in {"read", "write"} THEN {Eio} ELSE {})}
    /\ UNCHANGED <<kernelVars, inbox, stream, reading, watched, server>>

\* The handler of the request's type: READ and WRITE may fail in the storage,
\* FLUSH and TRIM do nothing, DISCONNECT is not replied to.
Handle(r) ==
    /\ server = "running" /\ phase[r] = "executing"
    /\ phase' = [phase EXCEPT ![r] = IF Kind[r] = "disc" THEN "finished" ELSE "writing"]
    /\ part' \in {[part EXCEPT ![r] = p] :
                    p \in {Ok} \cup (IF Kind[r] \in {"read", "write"} THEN {Eio} ELSE {})}
    /\ UNCHANGED <<kernelVars, inbox, stream, reading, watched, server>>

\* Mutant of LastPart: the status is not looked at, data follow a failed READ.
LastPartAlways(r) == Kind[r] # "read" \/ part[r] = Chunks

\* SendReply is done when it has written this part.
LastPart(r) == Kind[r] # "read" \/ part[r] \in {Chunks, Eio}

\* SendReply writes its next part.
WriteAll(r) ==
    /\ server = "running" /\ phase[r] = "writing" /\ kernel = "up"
    /\ stream' = Append(stream, <<r, part[r]>>)
    /\ IF LastPart(r)
       THEN phase' = [phase EXCEPT ![r] = "finished"] /\ UNCHANGED part
       ELSE part' = [part EXCEPT ![r] = IF @ = Ok THEN 1 ELSE @ + 1] /\ UNCHANGED phase
    /\ UNCHANGED <<kernelVars, inbox, reading, watched, server>>

\* Into a socket that has been shut down, write raises SIGPIPE.
WriteKills(r) ==
    /\ server = "running" /\ phase[r] = "writing" /\ kernel = "down"
    /\ server' = "dead"
    /\ UNCHANGED <<kernelVars, inbox, stream, phase, part, reading, watched>>

-----------------------------------------------------------------------------

Reactor ==
    \/ \E r \in Requests : ReceiveHead(r) \/ ReceivePayload(r)
    \/ EndOfStream \/ BadRequest

WorkerStep(r) == StartCommand(r) \/ Handle(r) \/ WriteAll(r) \/ WriteKills(r)

Next ==
    \/ \E r \in Requests : SendHead(r) \/ SendPayload(r) \/ WorkerStep(r)
    \/ ReadReply \/ KernelDisconnects
    \/ Reactor

Spec == Init /\ [][Next]_vars

\* The server's threads run, and the kernel sends the payloads it owes and
\* reads what it is sent.
FairSpec ==
    /\ Spec
    /\ WF_vars(Reactor) /\ WF_vars(ReadReply)
    /\ \A r \in Requests : WF_vars(WorkerStep(r)) /\ WF_vars(SendPayload(r))

-----------------------------------------------------------------------------
(* Properties.                                                             *)

\* The values every variable ranges over.
TypeOK ==
    /\ workers \in Workers /\ depth \in Depths
    /\ waiting \subseteq Requests /\ Cardinality(waiting) <= depth
    /\ \A i \in DOMAIN inbox : inbox[i] \in Requests \X {"head", "payload"}
    /\ \A i \in DOMAIN stream : stream[i] \in Requests \X Parts
    /\ expect = Header \/ expect \in Requests \X (1 .. Chunks)
    /\ torn \in BOOLEAN /\ kernel \in {"up", "down"}
    /\ phase \in [Requests -> Phases] /\ part \in [Requests -> Parts]
    /\ reading \subseteq {r \in Requests : Kind[r] = "write"} /\ Cardinality(reading) <= 1
    /\ watched \in BOOLEAN /\ server \in {"running", "dead"}
    /\ Cardinality(WithWorker) <= workers

\* The kernel can parse the replies, and gets for each READ the data written for
\* it, if the pool has one worker or the kernel waits for each reply; with two
\* workers and two requests in flight, nothing keeps the reply of another worker
\* out from between the header and the data of a READ.
StreamIntact ==
    torn => /\ workers > 1 /\ depth > 1
            /\ \E r \in Requests : Kind[r] = "read" /\ phase[r] # "unsent"

\* Replies the kernel has yet to read are to requests it waits for, one each,
\* in whatever order the workers have finished them.
AnsweredOnce ==
    LET heads == {i \in DOMAIN stream : stream[i][2] \in {Ok, Eio}}
    IN  ~torn => /\ \A i \in heads : stream[i][1] \in waiting
                 /\ \A i, j \in heads : stream[i][1] = stream[j][1] => i = j

\* Every request the kernel has sent whole is answered, until the kernel loses
\* track of the replies (see StreamIntact) or shuts the socket down, SIGPIPE ends
\* the server, or a request there was no memory for has made the server deaf.
Answered ==
    \A r \in Requests :
        r \in waiting /\ phase[r] = "sent" ~>
            r \notin waiting \/ torn \/ kernel = "down" \/ server = "dead"
              \/ \E q \in Refused : phase[q] = "refused"

\* When the kernel is gone the reactor thread notices and does not spin on the
\* end of the stream.
EndNoticed == kernel = "down" ~> ~watched \/ server = "dead"
=============================================================================
