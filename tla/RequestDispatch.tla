-------------------------- MODULE RequestDispatch --------------------------
(***************************************************************************)
(* The Go server behind one or more control WebSockets (cycletls/index.go).*)
(*                                                                         *)
(* Every control socket c has a reader goroutine (readSocket), a hand-off  *)
(* goroutine (readProcess) and a writer goroutine (writeSocket) behind the *)
(* unbuffered channel chanWrite.  Every request r is served by a goroutine *)
(* of its own (dispatcherAsync and its SSE and WebSocket variants).  The   *)
(* registry activeRequests is one map for the whole process, keyed by the  *)
(* request id the client chose.                                            *)
(*                                                                         *)
(* A member of Requests is one request message; RequestID need not be      *)
(* injective, because nothing in the server checks that ids are distinct.  *)
(* A frame carries its kind and, as a ghost, the number n of data frames   *)
(* its dispatcher produced up to and including it.                         *)
(***************************************************************************)
EXTENDS Naturals, Sequences

CONSTANTS Requests, Ids, Conns,
          RequestID,    \* the requestId field of each request
          Protocol,     \* "http" (HTTP/1, 2 and 3), "sse" or "websocket"
          ConnOf,       \* the control socket each request is sent on
          NoRequest,    \* "no entry" in activeRequests, "nothing in hand"
          MaxChunks,    \* bound: chunks, events or messages per upstream
          MaxControls   \* bound: cancel, exit and malformed messages

ASSUME DispatchAssumption ==
  /\ RequestID \in [Requests -> Ids]
  /\ Protocol \in [Requests -> {"http", "sse", "websocket"}]
  /\ ConnOf \in [Requests -> Conns]
  /\ NoRequest \notin Requests
  /\ MaxChunks \in Nat
  /\ MaxControls \in Nat

VARIABLES
  inbox,     \* messages sent by the client of c and not yet read
  sock,      \* the control socket: "open" or "closed"
  reader,    \* readSocket of c: "reading", "handoff" or "stopped"
  active,    \* activeRequests: the request whose cancel func is stored
  ctxDone,   \* requests whose context has been cancelled
  pc,        \* where request r is
  out,       \* frame dispatcher r is blocked sending on chanWrite
  held,      \* frame of r received by writeSocket and not yet written
  stream,    \* frames of r written to the socket
  chunks,    \* ghost: data frames dispatcher r has produced
  late,      \* ghost: data and error frames of r writeSocket got after r's cancel
  crashed,   \* the process died of an unrecovered panic
  controls   \* control messages sent so far

vars == <<inbox, sock, reader, active, ctxDone, pc, out, held, stream,
          chunks, late, crashed, controls>>

Kinds == {"none", "response", "data", "error", "end"}
Frames == [kind : Kinds, n : 0..(MaxChunks + 1)]
NoFrame == [kind |-> "none", n |-> 0]

Messages == [action : {"request"}, req : Requests]
              \cup [action : {"cancel"}, id : Ids]
              \cup [action : {"exit", "garbage"}]

\* Program points of a request: on the wire to the server, in the reader's
\* hands (with or without a usable http.Request), then in its dispatcher.
Running == {"connect", "hello", "check", "read", "chunk", "last", "error",
            "drained", "end", "defer"}
Points == {"new", "inbox", "handoff", "handoffNil", "doNil", "done"} \cup Running

Bound(r) == IF Protocol[r] = "websocket" THEN MaxChunks + 1 ELSE MaxChunks

TypeOK ==
  /\ inbox \in [Conns -> Seq(Messages)]
  /\ sock \in [Conns -> {"open", "closed"}]
  /\ reader \in [Conns -> {"reading", "handoff", "stopped"}]
  /\ active \in [Ids -> Requests \cup {NoRequest}]
  /\ ctxDone \subseteq Requests
  /\ pc \in [Requests -> Points]
  /\ out \in [Requests -> Frames]
  /\ held \in [Requests -> Frames]
  /\ stream \in [Requests -> Seq(Frames)]
  /\ chunks \in [Requests -> 0..(MaxChunks + 1)]
  /\ late \in [Requests -> Nat]
  /\ crashed \in BOOLEAN
  /\ controls \in 0..MaxControls

Init ==
  /\ inbox = [c \in Conns |-> <<>>]
  /\ sock = [c \in Conns |-> "open"]
  /\ reader = [c \in Conns |-> "reading"]
  /\ active = [id \in Ids |-> NoRequest]
  /\ ctxDone = {}
  /\ pc = [r \in Requests |-> "new"]
  /\ out = [r \in Requests |-> NoFrame]
  /\ held = [r \in Requests |-> NoFrame]
  /\ stream = [r \in Requests |-> <<>>]
  /\ chunks = [r \in Requests |-> 0]
  /\ late = [r \in Requests |-> 0]
  /\ crashed = FALSE
  /\ controls = 0

dispatchVars == <<pc, out, chunks>>
writerVars == <<held, stream, late>>

-----------------------------------------------------------------------------
(* The client of a control socket (outside the server).                    *)

Deliver(c, m) == inbox' = [inbox EXCEPT ![c] = Append(@, m)]

ClientRequest(r) ==
  /\ ~crashed
  /\ pc[r] = "new"
  /\ sock[ConnOf[r]] = "open"
  /\ Deliver(ConnOf[r], [action |-> "request", req |-> r])
  /\ pc' = [pc EXCEPT ![r] = "inbox"]
  /\ UNCHANGED <<sock, reader, active, ctxDone, out, chunks, writerVars,
                 crashed, controls>>

ClientControl(c) ==
  /\ ~crashed
  /\ sock[c] = "open"
  /\ controls < MaxControls
  /\ controls' = controls + 1
  /\ \/ \E id \in Ids : Deliver(c, [action |-> "cancel", id |-> id])
     \/ Deliver(c, [action |-> "exit"])
     \/ Deliver(c, [action |-> "garbage"])
  /\ UNCHANGED <<sock, reader, active, ctxDone, dispatchVars, writerVars, crashed>>

\* The peer goes away: whatever it sent may still be read, nothing written
\* from here on reaches it.
ClientDrop(c) ==
  /\ ~crashed
  /\ sock[c] = "open"
  /\ sock' = [sock EXCEPT ![c] = "closed"]
  /\ UNCHANGED <<inbox, reader, active, ctxDone, dispatchVars, writerVars,
                 crashed, controls>>

-----------------------------------------------------------------------------
(* readSocket and readProcess.                                             *)

Receive(c, what) ==
  /\ ~crashed
  /\ reader[c] = "reading"
  /\ inbox[c] # <<>>
  /\ Head(inbox[c]).action = what
  /\ inbox' = [inbox EXCEPT ![c] = Tail(@)]

Registered(r) == [active EXCEPT ![RequestID[r]] = r]
\* Mutant: a tombstone instead of a deletion.
DeregisteredTombstone(id) == [active EXCEPT ![id] = "deleted"]
Deregistered(id) == [active EXCEPT ![id] = NoRequest]

\* How processRequest and its variants end.  They run inside the read loop
\* and register the request just before they return; when something cannot
\* be built they register nothing and return a fullRequest without
\* http.Request, which is handed on all the same.
Accept(r) == active' = Registered(r) /\ pc' = [pc EXCEPT ![r] = "handoff"]
Reject(r) == pc' = [pc EXCEPT ![r] = "handoffNil"] /\ UNCHANGED active

\* The client, the http.Request or the URL may fail to build (for HTTP/3 too),
\* for SSE the client or the placeholder request, for a WebSocket the latter.
ProcessRequest(r) == Protocol[r] = "http" /\ (Accept(r) \/ Reject(r))
DispatchSSERequest(r) == Protocol[r] = "sse" /\ (Accept(r) \/ Reject(r))
DispatchWebSocketRequest(r) == Protocol[r] = "websocket" /\ (Accept(r) \/ Reject(r))

ReadRequest(c) ==
  /\ Receive(c, "request")
  /\ LET r == Head(inbox[c]).req
     IN  ProcessRequest(r) \/ DispatchSSERequest(r) \/ DispatchWebSocketRequest(r)
  /\ reader' = [reader EXCEPT ![c] = "handoff"]
  /\ UNCHANGED <<sock, ctxDone, out, chunks, writerVars, crashed, controls>>

\* Mutant: cancel() is called and the entry is kept.
ReadCancelKeepsEntry(c) ==
  /\ Receive(c, "cancel")
  /\ LET r == active[Head(inbox[c]).id]
     IN  IF r = NoRequest
         THEN UNCHANGED ctxDone
         ELSE ctxDone' = ctxDone \cup {r}
  /\ UNCHANGED <<sock, reader, active, dispatchVars, writerVars, crashed, controls>>

\* action "cancel": call the stored cancel func and drop the entry.
ReadCancel(c) ==
  /\ Receive(c, "cancel")
  /\ LET id == Head(inbox[c]).id
         r == active[id]
     IN  IF r = NoRequest
         THEN UNCHANGED <<active, ctxDone>>
         ELSE /\ ctxDone' = ctxDone \cup {r}
              /\ active' = Deregistered(id)
  /\ UNCHANGED <<sock, reader, dispatchVars, writerVars, crashed, controls>>

WriterBusy(c) == \E r \in Requests : ConnOf[r] = c /\ held[r] # NoFrame

\* action "exit": a close frame is written from the reader goroutine, then
\* the socket is closed.  The WebSocket library allows one writer at a time
\* and may panic when writeSocket is inside WriteMessage.
ReadExit(c) ==
  /\ Receive(c, "exit")
  /\ sock' = [sock EXCEPT ![c] = "closed"]
  /\ reader' = [reader EXCEPT ![c] = "stopped"]
  /\ crashed' \in (IF WriterBusy(c) /\ sock[c] = "open" THEN BOOLEAN ELSE {FALSE})
  /\ UNCHANGED <<active, ctxDone, dispatchVars, writerVars, controls>>

\* A message that does not parse, or a read error: the loop returns without
\* closing the socket.
ReadGarbage(c) ==
  /\ Receive(c, "garbage")
  /\ reader' = [reader EXCEPT ![c] = "stopped"]
  /\ UNCHANGED <<sock, active, ctxDone, dispatchVars, writerVars, crashed, controls>>

ReadError(c) ==
  /\ ~crashed
  /\ reader[c] = "reading"
  /\ sock[c] = "closed"
  /\ reader' = [reader EXCEPT ![c] = "stopped"]
  /\ UNCHANGED <<inbox, sock, active, ctxDone, dispatchVars, writerVars,
                 crashed, controls>>

\* chanRead is unbuffered: the read loop goes on when readProcess has taken
\* the request and started its goroutine.
Handoff(r) ==
  /\ ~crashed
  /\ pc[r] \in {"handoff", "handoffNil"}
  /\ pc' = [pc EXCEPT ![r] = IF @ = "handoff" THEN "connect" ELSE "doNil"]
  /\ reader' = [reader EXCEPT ![ConnOf[r]] = "reading"]
  /\ UNCHANGED <<inbox, sock, active, ctxDone, out, chunks, writerVars,
                 crashed, controls>>

-----------------------------------------------------------------------------
(* Dispatchers.  A dispatcher runs only while it is not blocked in a send. *)

At(r, point, protocols) ==
  /\ ~crashed
  /\ out[r] = NoFrame
  /\ pc[r] = point
  /\ Protocol[r] \in protocols

OthersUnchanged == UNCHANGED <<inbox, sock, reader, active, ctxDone,
                               writerVars, crashed, controls>>

Goto(r, point) == pc' = [pc EXCEPT ![r] = point]

\* Block in chanWrite <- frame, and go on at point once it is received.
Send(r, kind, point) ==
  /\ out' = [out EXCEPT ![r] = [kind |-> kind, n |-> chunks[r]]]
  /\ Goto(r, point)
  /\ UNCHANGED chunks

SendData(r, point) ==
  /\ chunks[r] < Bound(r)
  /\ chunks' = [chunks EXCEPT ![r] = @ + 1]
  /\ out' = [out EXCEPT ![r] = [kind |-> "data", n |-> chunks[r] + 1]]
  /\ Goto(r, point)

Move(r, point) == Goto(r, point) /\ UNCHANGED <<out, chunks>>

\* client.Do on the nil request of a failed processRequest dereferences a
\* nil pointer in a goroutine that nobody recovers.
DoNil(r) ==
  /\ ~crashed
  /\ pc[r] = "doNil"
  /\ crashed' = TRUE
  /\ UNCHANGED <<inbox, sock, reader, active, ctxDone, dispatchVars,
                 writerVars, controls>>

\* Connecting fails with one error frame and return, or is announced by the
\* response frame.
ConnectOn(r, protocol, next) ==
  /\ At(r, "connect", {protocol})
  /\ Send(r, "error", "defer") \/ Send(r, "response", next)
  /\ OthersUnchanged

\* client.Do, SSEClient.Connect and WebSocketClient.Connect in the three
\* dispatchers.
HttpConnect(r) == ConnectOn(r, "http", "read")
SseConnect(r) == ConnectOn(r, "sse", "check")
WsConnect(r) == ConnectOn(r, "websocket", "hello")
Connect(r) == HttpConnect(r) \/ SseConnect(r) \/ WsConnect(r)

\* Mutants of HttpRead: a cancelled request returns instead of leaving the
\* loop; the context is not tested; a read that the cancel made fail is
\* reported as an error.
HttpReadReturns(r) ==
  /\ At(r, "read", {"http"})
  /\ IF r \in ctxDone THEN Move(r, "defer") ELSE Move(r, "error") \/ Move(r, "end")
  /\ OthersUnchanged
HttpReadUnchecked(r) ==
  /\ At(r, "read", {"http"})
  /\ \/ Move(r, "error")
     \/ Move(r, "end")
     \/ chunks[r] < Bound(r) /\ Move(r, "chunk")
  /\ OthersUnchanged
HttpReadReportsCancel(r) ==
  /\ At(r, "read", {"http"})
  /\ \/ Move(r, "error")
     \/ Move(r, "end")
     \/ r \notin ctxDone /\ chunks[r] < Bound(r) /\ Move(r, "chunk")
  /\ OthersUnchanged

\* One round of the body loop of dispatcherAsync up to its last look at the
\* context, which comes after the read: the request was cancelled, or the
\* read failed, or it returned bytes, perhaps together with EOF, or EOF alone.
\* A cancel that comes after this step no longer stops what was read.
HttpRead(r) ==
  /\ At(r, "read", {"http"})
  /\ IF r \in ctxDone
     THEN Move(r, "end")
     ELSE \/ Move(r, "error")
          \/ Move(r, "end")
          \/ chunks[r] < Bound(r) /\ (Move(r, "chunk") \/ Move(r, "last"))
  /\ OthersUnchanged

\* Mutant: the loop goes on after an error frame.
HttpForwardGoesOn(r) ==
  /\ \/ At(r, "chunk", {"http"}) /\ SendData(r, "read")
     \/ At(r, "last", {"http"}) /\ SendData(r, "end")
     \/ At(r, "error", {"http"}) /\ Send(r, "error", "read")
  /\ OthersUnchanged

\* What was read is sent: a chunk, the last bytes, or the error frame, which
\* the end frame follows.
HttpForward(r) ==
  /\ \/ At(r, "chunk", {"http"}) /\ SendData(r, "read")
     \/ At(r, "last", {"http"}) /\ SendData(r, "end")
     \/ At(r, "error", {"http"}) /\ Send(r, "error", "end")
  /\ OthersUnchanged

HttpEnd(r) ==
  /\ At(r, "end", {"http"})
  /\ Send(r, "end", "defer")
  /\ OthersUnchanged

\* The event loop of dispatchSSEAsync has no way out.  The break of a cancelled
\* request leaves the select and not the loop: it stays at "check".  At the
\* end of the stream Scanner.Err is nil, NextEvent returns neither event nor
\* error, and the loop continues; after a read error the break again leaves
\* only the select.  Either way NextEvent says the same for ever ("drained").
SseCheck(r) ==
  /\ At(r, "check", {"sse"})
  /\ r \notin ctxDone
  /\ Move(r, "read")
  /\ OthersUnchanged

SseNextEvent(r) ==
  /\ At(r, "read", {"sse"})
  /\ SendData(r, "check") \/ Move(r, "drained")
  /\ OthersUnchanged

SseSpin(r) ==
  /\ \/ At(r, "drained", {"sse"})
     \/ At(r, "check", {"sse"}) /\ r \in ctxDone
  /\ UNCHANGED vars

\* The "connected" data frame of dispatchWebSocketAsync.
WsHello(r) ==
  /\ At(r, "hello", {"websocket"})
  /\ SendData(r, "check")
  /\ OthersUnchanged

WsCheck(r) ==
  /\ At(r, "check", {"websocket"})
  /\ Move(r, IF r \in ctxDone THEN "defer" ELSE "read")
  /\ OthersUnchanged

\* A message, a normal closure (break leaves the select only) or any other
\* error (return, no end frame).
WsReceive(r) ==
  /\ At(r, "read", {"websocket"})
  /\ SendData(r, "check") \/ Move(r, "drained") \/ Move(r, "defer")
  /\ OthersUnchanged

\* Reading again after a normal closure fails with the same error each time;
\* the WebSocket library panics when the application does not stop.
WsRereadCancelled(r) ==
  /\ At(r, "drained", {"websocket"})
  /\ r \in ctxDone
  /\ Move(r, "defer")
  /\ OthersUnchanged

WsRereadPanic(r) ==
  /\ At(r, "drained", {"websocket"})
  /\ crashed' = TRUE
  /\ UNCHANGED <<inbox, sock, reader, active, ctxDone, dispatchVars,
                 writerVars, controls>>

\* Mutant: the deferred delete is missing.
FinishKeepsEntry(r) ==
  /\ At(r, "defer", {"http", "sse", "websocket"})
  /\ Move(r, "done")
  /\ OthersUnchanged

\* The deferred calls: the entry under r's id goes, whoever owns it.
Finish(r) ==
  /\ At(r, "defer", {"http", "sse", "websocket"})
  /\ Move(r, "done")
  /\ active' = Deregistered(RequestID[r])
  /\ UNCHANGED <<inbox, sock, reader, ctxDone, writerVars, crashed, controls>>

-----------------------------------------------------------------------------
(* writeSocket: one frame at a time; a failed write is logged and dropped. *)

WriterTake(r) ==
  /\ ~crashed
  /\ out[r] # NoFrame
  /\ ~WriterBusy(ConnOf[r])
  /\ held' = [held EXCEPT ![r] = out[r]]
  /\ out' = [out EXCEPT ![r] = NoFrame]
  /\ late' = IF r \in ctxDone /\ out[r].kind \in {"data", "error"}
             THEN [late EXCEPT ![r] = @ + 1]
             ELSE late
  /\ UNCHANGED <<inbox, sock, reader, active, ctxDone, pc, stream, chunks,
                 crashed, controls>>

\* Mutant: the writer returns after a failed write, its hands full for ever.
WriterWriteGivesUp(r) ==
  /\ ~crashed
  /\ held[r] # NoFrame
  /\ sock[ConnOf[r]] = "open"
  /\ stream' = [stream EXCEPT ![r] = Append(@, held[r])]
  /\ held' = [held EXCEPT ![r] = NoFrame]
  /\ UNCHANGED <<inbox, sock, reader, active, ctxDone, dispatchVars, late,
                 crashed, controls>>

WriterWrite(r) ==
  /\ ~crashed
  /\ held[r] # NoFrame
  /\ stream' = IF sock[ConnOf[r]] = "open"
               THEN [stream EXCEPT ![r] = Append(@, held[r])]
               ELSE stream
  /\ held' = [held EXCEPT ![r] = NoFrame]
  /\ UNCHANGED <<inbox, sock, reader, active, ctxDone, dispatchVars, late,
                 crashed, controls>>

-----------------------------------------------------------------------------
\* Nothing left to do: the process died, or every request was never sent, is
\* lost in the inbox of a reader that stopped, or is done.
Terminated ==
  /\ \/ crashed
     \/ \A r \in Requests : /\ \/ pc[r] \in {"new", "done"}
                               \/ pc[r] = "inbox" /\ reader[ConnOf[r]] = "stopped"
                            /\ out[r] = NoFrame
                            /\ held[r] = NoFrame
  /\ UNCHANGED vars

Dispatch(r) ==
  \/ DoNil(r) \/ HttpRead(r) \/ HttpForward(r) \/ HttpEnd(r)
  \/ SseCheck(r) \/ SseNextEvent(r) \/ SseSpin(r)
  \/ WsHello(r) \/ WsCheck(r) \/ WsRereadCancelled(r) \/ WsRereadPanic(r)
  \/ Finish(r)

Read(c) ==
  \/ ReadRequest(c) \/ ReadCancel(c) \/ ReadExit(c) \/ ReadGarbage(c)
  \/ ReadError(c)

Next ==
  \/ \E r \in Requests : ClientRequest(r) \/ Handoff(r) \/ Connect(r)
                           \/ Dispatch(r) \/ WsReceive(r) \/ WriterTake(r) \/ WriterWrite(r)
  \/ \E c \in Conns : ClientControl(c) \/ ClientDrop(c) \/ Read(c)
  \/ Terminated

\* Goroutines are scheduled fairly, reads of a body return (the HTTP client's
\* Timeout is never zero and ends them), and the client reads its socket or
\* loses it.  Connect gets no fairness: a handshake with a silent server, or
\* with a silent proxy, does not look at the context and may last for ever.
\* WsReceive has no deadline either.
Fairness ==
  /\ \A r \in Requests : /\ WF_vars(Handoff(r)) /\ WF_vars(Dispatch(r))
                         /\ WF_vars(WriterTake(r)) /\ WF_vars(WriterWrite(r))
  /\ \A c \in Conns : WF_vars(Read(c))

Spec == Init /\ [][Next]_vars
FairSpec == Spec /\ Fairness

-----------------------------------------------------------------------------
(* Properties.                                                             *)

Live(r) == pc[r] \in Running \cup {"handoff"}
DistinctIds == \A r, q \in Requests : RequestID[r] = RequestID[q] => r = q

\* When request ids are distinct, a cancel message finds the cancel func of
\* its request exactly while that request is in flight and not yet cancelled:
\* the entry is there before the goroutine starts and no other request's
\* completion takes it away.
RegistryTracksLive ==
  DistinctIds => \A r \in Requests :
                   active[RequestID[r]] = r <=> Live(r) /\ r \notin ctxDone

\* Even when ids collide, the registry never holds the cancel func of a
\* request that has finished, was cancelled, or was sent under another id.
NoStaleEntry ==
  \A id \in Ids : active[id] # NoRequest =>
    /\ RequestID[active[id]] = id
    /\ Live(active[id])
    /\ active[id] \notin ctxDone

\* After its cancel at most one more chunk or error frame of a request gets
\* through to writeSocket: the one its dispatcher was blocked on, had looked at
\* the context for, or was still connecting or reading for.
CancelStopsChunks == \A r \in Requests : late[r] <= 1

\* The frames of r that have left its dispatcher, the one in the writer's
\* hands included.
Departed(r) == IF held[r] = NoFrame THEN stream[r] ELSE Append(stream[r], held[r])
\* Everything the dispatcher of r has produced.
Produced(r) == IF out[r] = NoFrame THEN Departed(r) ELSE Append(Departed(r), out[r])
Terminal(s) == /\ s # <<>>
               /\ \/ s[Len(s)].kind = "end"
                  \/ s[Len(s)].kind = "error" /\ Len(s) = 1

\* An HTTP dispatcher gives up its registry entry only after its terminal
\* frame (an end frame, or the error frame of a failed connection) has been
\* received by writeSocket, as long as the control socket lives.
HttpAnswered ==
  \A r \in Requests :
    Protocol[r] = "http" /\ pc[r] = "done" /\ sock[ConnOf[r]] = "open"
      => Terminal(Departed(r))

\* Each request's frames on the wire implement ResponseStream.
Phase(s) ==
  IF s = <<>> THEN "silent"
  ELSE CASE s[Len(s)].kind = "end" -> "ended"
         [] s[Len(s)].kind = "error" -> IF Len(s) = 1 THEN "failed" ELSE "broken"
         [] OTHER -> "open"

Promise == INSTANCE ResponseStream WITH
  phase <- [r \in Requests |-> Phase(stream[r])],
  received <- [r \in Requests |-> IF stream[r] = <<>> THEN 0
                                  ELSE stream[r][Len(stream[r])].n]

\* Refinement: what is written for a request is a run of ResponseStream.
StreamContract == Promise!Spec

\* An HTTP dispatcher takes the steps ClientRequest assumes of its server
\* (ServerStep): what it passes to writeSocket keeps to ResponseStream, and once
\* its context has ended that is at most one chunk or error, and the end.
Emitted(r) == Phase(Departed(r))
LastEmitted(r) == IF Departed(r) = <<>> THEN 0 ELSE Departed(r)[Len(Departed(r))].n
HttpStep(r) ==
  \/ Emitted(r) = "silent" /\ Emitted(r)' \in {"failed", "open"} /\ LastEmitted(r)' = 0
  \/ /\ Emitted(r) = "open" /\ (r \in ctxDone => late[r] = 0)
     /\ \/ Emitted(r)' = "open" /\ LastEmitted(r)' = LastEmitted(r) + 1
        \/ Emitted(r)' = "broken" /\ LastEmitted(r)' = LastEmitted(r)
  \/ /\ Emitted(r) \in {"open", "broken"}
     /\ Emitted(r)' = "ended" /\ LastEmitted(r)' = LastEmitted(r)

ServesAsAssumed ==
  [][\A r \in Requests :
       Protocol[r] = "http" /\ sock'[ConnOf[r]] = "open"
         => HttpStep(r) \/ UNCHANGED <<Emitted(r), LastEmitted(r)>>]_vars

\* client.Do has returned, with a response or an error.
Answered(r) == Protocol[r] = "http" /\ pc[r] \in {"read", "defer"}

\* Every HTTP request whose client.Do returned finishes and leaves the registry,
\* even when the control socket fails underway: writeSocket keeps receiving
\* after a failed write, so no dispatcher stays blocked on chanWrite, whatever
\* other requests are stuck in.
HttpCompletes ==
  \A r \in Requests : Answered(r) ~> (crashed \/ pc[r] = "done")

\* The client of a live control socket gets the terminal frame of every HTTP
\* request whose client.Do returned, cancelled or not.
HttpTerminates ==
  \A r \in Requests :
    Answered(r) ~> (crashed \/ sock[ConnOf[r]] = "closed" \/ Terminal(stream[r]))

\* What the comments "Normal end of stream" and, after the loop, "Send end
\* message" say of dispatchSSEAsync: an event stream that ended upstream is
\* ended for the client, unless the socket or the process is gone.
StreamEndReachesClient ==
  \A r \in Requests :
    (Protocol[r] = "sse" /\ pc[r] = "drained")
      ~> (crashed \/ sock[ConnOf[r]] = "closed" \/ Terminal(stream[r]))

-----------------------------------------------------------------------------
(* Inductive strengthenings, for the proofs.                               *)

\* A request message lies in one place of one inbox until it is read.
InboxInv ==
  \A c \in Conns : \A i \in 1..Len(inbox[c]) :
    LET m == inbox[c][i]
    IN  m.action = "request" =>
          /\ ConnOf[m.req] = c
          /\ pc[m.req] = "inbox"
          /\ \A j \in 1..Len(inbox[c]) :
               inbox[c][j].action = "request" /\ inbox[c][j].req = m.req => j = i

\* Only requests that were registered are ever cancelled.
CancelledStarted ==
  \A r \in ctxDone : Live(r) \/ pc[r] = "done"

RegistryInv == InboxInv /\ CancelledStarted /\ NoStaleEntry /\ RegistryTracksLive

\* Where the dispatcher of r sends a chunk or an error without another look
\* at the context.
Committed(r) ==
  \/ pc[r] \in {"handoff", "connect", "hello", "chunk", "last", "error"}
  \/ pc[r] = "read" /\ Protocol[r] # "http"

Late == {"data", "error"}

\* The one chunk or error that may follow a cancel is passed on already, on
\* offer to writeSocket, or still to come, and only one of these.
LateOnce(r) ==
  /\ late[r] <= 1
  /\ late[r] > 0 => r \in ctxDone
  /\ late[r] > 0 => ~Committed(r) /\ out[r].kind \notin Late
  /\ out[r].kind \in Late => ~Committed(r)
  /\ pc[r] \in {"chunk", "last", "error"} => Protocol[r] = "http"
  /\ pc[r] \in {"new", "inbox"} => out[r] = NoFrame

LateInv == \A r \in Requests : LateOnce(r)

\* Frame f may come right after the frames s.
Follows(s, f) ==
  IF s = <<>> THEN f.kind \in {"response", "error"} /\ f.n = 0
  ELSE LET last == s[Len(s)]
       IN  \/ /\ last.kind \in {"response", "data"}
              /\ \/ f.kind = "data" /\ f.n = last.n + 1
                 \/ f.kind \in {"error", "end"} /\ f.n = last.n
           \/ /\ last.kind = "error" /\ Len(s) > 1
              /\ f.kind = "end" /\ f.n = last.n

\* While the control socket lives, the frames on their way from a dispatcher
\* to the wire are in order, and its program point knows the last of them.
FrameInv(r) ==
  sock[ConnOf[r]] = "open" =>
    /\ held[r] # NoFrame => Follows(stream[r], held[r])
    /\ out[r] # NoFrame => Follows(Departed(r), out[r])
    /\ pc[r] \in {"new", "inbox", "handoff", "handoffNil", "doNil", "connect"} =>
         Produced(r) = <<>> /\ chunks[r] = 0
    /\ pc[r] \in {"hello", "check", "read", "chunk", "last", "error", "drained", "end"} =>
         LET s == Produced(r)
         IN  /\ s # <<>>
             /\ s[Len(s)].n = chunks[r]
             /\ \/ s[Len(s)].kind \in {"response", "data"}
                \/ pc[r] = "end" /\ s[Len(s)].kind = "error" /\ Len(s) > 1
    /\ pc[r] \in {"defer", "done"} /\ Protocol[r] = "http" => Terminal(Produced(r))
    /\ pc[r] = "done" => out[r] = NoFrame

FramesInv == \A r \in Requests : FrameInv(r)

=============================================================================
