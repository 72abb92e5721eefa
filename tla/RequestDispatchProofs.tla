----------------------- MODULE RequestDispatchProofs -----------------------
(***************************************************************************)
(* Theorems about RequestDispatch for any set of requests, ids, protocols  *)
(* and control sockets.                                                    *)
(***************************************************************************)
EXTENDS RequestDispatch, TLAPS

-----------------------------------------------------------------------------
(* Facts about the building blocks.                                        *)

\* A frame sent with the current chunk count is a frame.
LEMMA FrameType ==
  ASSUME TypeOK, NEW r \in Requests, NEW kind \in Kinds
  PROVE  [kind |-> kind, n |-> chunks[r]] \in Frames
  BY DEF TypeOK, Frames

\* Room below the bound leaves room in the type.
LEMMA ChunkType ==
  ASSUME TypeOK, NEW r \in Requests, chunks[r] < Bound(r)
  PROVE  /\ chunks[r] + 1 \in 0..(MaxChunks + 1)
         /\ [kind |-> "data", n |-> chunks[r] + 1] \in Frames
  BY DispatchAssumption DEF TypeOK, Frames, Bound, Kinds

\* The variables a dispatcher's step may change keep their types.
LEMMA DispatcherTypes ==
  ASSUME TypeOK, NEW r \in Requests, NEW point \in Points,
         NEW kind \in Kinds,
         Send(r, kind, point) \/ SendData(r, point) \/ Move(r, point)
  PROVE  /\ pc' \in [Requests -> Points]
         /\ out' \in [Requests -> Frames]
         /\ chunks' \in [Requests -> 0..(MaxChunks + 1)]
<1>0. pc \in [Requests -> Points] /\ out \in [Requests -> Frames]
        /\ chunks \in [Requests -> 0..(MaxChunks + 1)]
  BY DEF TypeOK
<1>1. CASE Send(r, kind, point)
  BY <1>0, <1>1, FrameType DEF Send, Goto
<1>2. CASE SendData(r, point)
  <2>1. chunks[r] < Bound(r)
    BY <1>2 DEF SendData
  <2> QED  BY <1>0, <1>2, <2>1, ChunkType DEF SendData, Goto
<1>3. CASE Move(r, point)
  BY <1>0, <1>3 DEF Move, Goto
<1> QED  BY <1>1, <1>2, <1>3

\* The first message of a non-empty inbox is a message, the rest an inbox.
LEMMA InboxType ==
  ASSUME TypeOK, NEW c \in Conns, NEW what, Receive(c, what)
  PROVE  /\ Head(inbox[c]) \in Messages
         /\ Head(inbox[c]).action = what
         /\ inbox' \in [Conns -> Seq(Messages)]
<1>1. inbox[c] \in Seq(Messages) /\ inbox[c] # <<>>
  BY DEF TypeOK, Receive
<1>2. Head(inbox[c]) \in Messages /\ Tail(inbox[c]) \in Seq(Messages)
  BY <1>1
<1> QED  BY <1>2 DEF Receive, TypeOK

LEMMA RequestMessage ==
  ASSUME NEW m \in Messages, m.action = "request"
  PROVE  m.req \in Requests
  BY DEF Messages

LEMMA CancelMessage ==
  ASSUME NEW m \in Messages, m.action = "cancel"
  PROVE  m.id \in Ids
  BY DEF Messages

-----------------------------------------------------------------------------
(* Type correctness.                                                       *)

LEMMA InitType == Init => TypeOK
<1> SUFFICES ASSUME Init PROVE TypeOK
  OBVIOUS
<1>1. NoFrame \in Frames /\ "new" \in Points /\ 0 \in 0..(MaxChunks + 1)
  BY DispatchAssumption DEF NoFrame, Frames, Kinds, Points
<1>2. /\ inbox \in [Conns -> Seq(Messages)]
      /\ stream \in [Requests -> Seq(Frames)]
  BY DEF Init
<1>3. controls \in 0..MaxControls
  BY DispatchAssumption DEF Init
<1>4. crashed \in BOOLEAN
  BY DEF Init
<1> QED  BY <1>1, <1>2, <1>3, <1>4 DEF Init, TypeOK

\* The steps of the dispatchers.
LEMMA DispatchType ==
  ASSUME TypeOK, NEW r \in Requests, Connect(r) \/ Dispatch(r) \/ WsReceive(r)
  PROVE  TypeOK'
<1>p. /\ {"connect", "hello", "check", "read", "chunk", "last", "error", "drained", "end", "defer"} \subseteq Points
      /\ {"done", "doNil"} \subseteq Points
      /\ {"response", "data", "error", "end"} \subseteq Kinds
  BY DEF Points, Running, Kinds
<1>s. ASSUME NEW point \in Points, NEW kind \in Kinds, OthersUnchanged,
             Send(r, kind, point) \/ SendData(r, point) \/ Move(r, point)
      PROVE  TypeOK'
  <2>1. /\ pc' \in [Requests -> Points]
        /\ out' \in [Requests -> Frames]
        /\ chunks' \in [Requests -> 0..(MaxChunks + 1)]
    BY <1>s, DispatcherTypes
  <2> QED  BY <1>s, <2>1 DEF TypeOK, OthersUnchanged, writerVars
<1>1. CASE DoNil(r)
  BY <1>1 DEF DoNil, TypeOK, dispatchVars, writerVars
<1>2. CASE Connect(r)
  <2>1. CASE Send(r, "error", "defer")
    BY <1>2, <1>p, <1>s, <2>1 DEF Connect, HttpConnect, SseConnect, WsConnect, ConnectOn
  <2>2. CASE ~Send(r, "error", "defer")
    <3>1. Protocol[r] \in {"http", "sse", "websocket"}
      BY DispatchAssumption
    <3>2. PICK point \in Points : Send(r, "response", point)
      BY <1>2, <1>p, <2>2, <3>1 DEF Connect, HttpConnect, SseConnect, WsConnect, ConnectOn
    <3> QED  BY <1>2, <1>p, <1>s, <3>2 DEF Connect, HttpConnect, SseConnect, WsConnect,
      ConnectOn
  <2> QED  BY <2>1, <2>2
<1>3. CASE HttpRead(r)
  BY <1>3, <1>p, <1>s DEF HttpRead
<1>14. CASE HttpForward(r)
  BY <1>14, <1>p, <1>s DEF HttpForward
<1>4. CASE HttpEnd(r)
  BY <1>4, <1>p, <1>s DEF HttpEnd
<1>5. CASE SseCheck(r)
  BY <1>5, <1>p, <1>s DEF SseCheck
<1>6. CASE SseNextEvent(r)
  BY <1>6, <1>p, <1>s DEF SseNextEvent
<1>7. CASE SseSpin(r)
  BY <1>7 DEF SseSpin, vars, TypeOK, dispatchVars, writerVars
<1>8. CASE WsHello(r)
  BY <1>8, <1>p, <1>s DEF WsHello
<1>9. CASE WsCheck(r)
  BY <1>9, <1>p, <1>s DEF WsCheck
<1>10. CASE WsReceive(r)
  BY <1>10, <1>p, <1>s DEF WsReceive
<1>11. CASE WsRereadCancelled(r)
  BY <1>11, <1>p, <1>s DEF WsRereadCancelled
<1>12. CASE WsRereadPanic(r)
  BY <1>12 DEF WsRereadPanic, TypeOK, dispatchVars, writerVars
<1>13. CASE Finish(r)
  <2>1. pc' \in [Requests -> Points] /\ out' = out /\ chunks' = chunks
    BY <1>13, <1>p DEF Finish, Move, Goto, TypeOK
  <2>2. active' \in [Ids -> Requests \cup {NoRequest}]
    BY <1>13, DispatchAssumption DEF Finish, Deregistered, TypeOK
  <2> QED  BY <1>13, <2>1, <2>2 DEF Finish, TypeOK, writerVars
<1> QED
  BY <1>1, <1>2, <1>3, <1>4, <1>5, <1>6, <1>7, <1>8, <1>9, <1>10, <1>11,
     <1>12, <1>13, <1>14 DEF Dispatch

\* The steps of the read loop.
LEMMA ReadType ==
  ASSUME TypeOK, NEW c \in Conns, Read(c)
  PROVE  TypeOK'
<1>1. CASE ReadRequest(c)
  <2>1. Receive(c, "request")
    BY <1>1 DEF ReadRequest, ProcessRequest, DispatchSSERequest,
      DispatchWebSocketRequest, Accept, Reject
  <2>2. Head(inbox[c]).req \in Requests /\ inbox' \in [Conns -> Seq(Messages)]
    BY <2>1, InboxType, RequestMessage
  <2>3. RequestID[Head(inbox[c]).req] \in Ids
    BY <2>2, DispatchAssumption
  <2>4. active' \in [Ids -> Requests \cup {NoRequest}]
    BY <1>1, <2>2, <2>3 DEF ReadRequest, ProcessRequest, DispatchSSERequest,
      DispatchWebSocketRequest, Accept, Reject, Registered, TypeOK
  <2>5. pc' \in [Requests -> Points]
    BY <1>1, <2>2 DEF ReadRequest, ProcessRequest, DispatchSSERequest,
      DispatchWebSocketRequest, Accept, Reject, TypeOK, Points
  <2> QED
    BY <1>1, <2>2, <2>4, <2>5 DEF ReadRequest, ProcessRequest, DispatchSSERequest,
      DispatchWebSocketRequest, Accept, Reject, TypeOK,
      writerVars
<1>2. CASE ReadCancel(c)
  <2> DEFINE id == Head(inbox[c]).id
  <2>1. Receive(c, "cancel")
    BY <1>2 DEF ReadCancel
  <2>2. id \in Ids /\ inbox' \in [Conns -> Seq(Messages)]
    BY <2>1, InboxType, CancelMessage
  <2>3. CASE active[id] = NoRequest
    BY <1>2, <2>2, <2>3
    DEF ReadCancel, TypeOK, dispatchVars, writerVars
  <2>4. CASE active[id] # NoRequest
    <3>1. active[id] \in Requests
      BY <2>2, <2>4 DEF TypeOK
    <3>2. /\ ctxDone' \subseteq Requests
          /\ active' \in [Ids -> Requests \cup {NoRequest}]
      <4>1. /\ ctxDone' = ctxDone \cup {active[id]}
            /\ active' = [active EXCEPT ![id] = NoRequest]
        BY <1>2, <2>4 DEF ReadCancel, Deregistered
      <4> QED  BY <2>2, <3>1, <4>1 DEF TypeOK
    <3> QED
      BY <1>2, <2>2, <3>2 DEF ReadCancel, TypeOK, dispatchVars, writerVars
  <2> QED  BY <2>3, <2>4
<1>3. CASE ReadExit(c)
  <2>1. inbox' \in [Conns -> Seq(Messages)]
    BY <1>3, InboxType DEF ReadExit
  <2> QED
    BY <1>3, <2>1 DEF ReadExit, TypeOK, dispatchVars, writerVars
<1>4. CASE ReadGarbage(c)
  <2>1. inbox' \in [Conns -> Seq(Messages)]
    BY <1>4, InboxType DEF ReadGarbage
  <2> QED
    BY <1>4, <2>1 DEF ReadGarbage, TypeOK, dispatchVars, writerVars
<1>5. CASE ReadError(c)
  BY <1>5 DEF ReadError, TypeOK, dispatchVars, writerVars
<1> QED  BY <1>1, <1>2, <1>3, <1>4, <1>5 DEF Read

\* The steps of the client, of readProcess and of the writer.
LEMMA PlumbingType ==
  ASSUME TypeOK, NEW r \in Requests,
         ClientRequest(r) \/ Handoff(r) \/ WriterTake(r) \/ WriterWrite(r)
  PROVE  TypeOK'
<1>0. ConnOf[r] \in Conns /\ NoFrame \in Frames
  BY DispatchAssumption DEF NoFrame, Frames, Kinds
<1>1. CASE ClientRequest(r)
  <2>1. [action |-> "request", req |-> r] \in Messages
    BY DEF Messages
  <2>2. inbox' \in [Conns -> Seq(Messages)]
    BY <1>0, <1>1, <2>1 DEF ClientRequest, Deliver, TypeOK
  <2> QED
    BY <1>1, <2>2 DEF ClientRequest, TypeOK, Points, writerVars
<1>2. CASE Handoff(r)
  BY <1>0, <1>2 DEF Handoff, TypeOK, Points, Running, writerVars
<1>3. CASE WriterTake(r)
  BY <1>0, <1>3 DEF WriterTake, TypeOK
<1>4. CASE WriterWrite(r)
  <2>1. Append(stream[r], held[r]) \in Seq(Frames)
    BY DEF TypeOK
  <2> QED
    BY <1>0, <1>4, <2>1 DEF WriterWrite, TypeOK, dispatchVars
<1> QED  BY <1>1, <1>2, <1>3, <1>4

LEMMA ClientType ==
  ASSUME TypeOK, NEW c \in Conns, ClientControl(c) \/ ClientDrop(c)
  PROVE  TypeOK'
<1>1. CASE ClientControl(c)
  <2>1. PICK m \in Messages : Deliver(c, m)
    BY <1>1 DEF ClientControl, Messages
  <2>2. inbox' \in [Conns -> Seq(Messages)]
    BY <2>1 DEF Deliver, TypeOK
  <2>3. controls' \in 0..MaxControls
    BY <1>1, DispatchAssumption DEF ClientControl, TypeOK
  <2> QED
    BY <1>1, <2>2, <2>3
    DEF ClientControl, TypeOK, dispatchVars, writerVars
<1>2. CASE ClientDrop(c)
  BY <1>2 DEF ClientDrop, TypeOK, dispatchVars, writerVars
<1> QED  BY <1>1, <1>2

LEMMA StepType == TypeOK /\ [Next]_vars => TypeOK'
<1> SUFFICES ASSUME TypeOK, [Next]_vars PROVE TypeOK'
  OBVIOUS
<1>1. CASE UNCHANGED vars
  BY <1>1 DEF vars, TypeOK, dispatchVars, writerVars
<1>2. CASE Terminated
  BY <1>2 DEF Terminated, vars, TypeOK, dispatchVars, writerVars
<1>3. ASSUME NEW r \in Requests,
             ClientRequest(r) \/ Handoff(r) \/ WriterTake(r) \/ WriterWrite(r)
      PROVE  TypeOK'
  BY <1>3, PlumbingType
<1>4. ASSUME NEW r \in Requests, Connect(r) \/ Dispatch(r) \/ WsReceive(r)
      PROVE  TypeOK'
  BY <1>4, DispatchType
<1>5. ASSUME NEW c \in Conns, ClientControl(c) \/ ClientDrop(c)
      PROVE  TypeOK'
  BY <1>5, ClientType
<1>6. ASSUME NEW c \in Conns, Read(c)
      PROVE  TypeOK'
  BY <1>6, ReadType
<1> QED  BY <1>1, <1>2, <1>3, <1>4, <1>5, <1>6 DEF Next

\* Every reachable state of the server is well typed.
THEOREM TypeCorrect == Spec => []TypeOK
  BY InitType, StepType, PTL DEF Spec

-----------------------------------------------------------------------------
(* The registry.                                                           *)

\* What a dispatcher's step does to the state other goroutines look at.
LEMMA DispatchSummary ==
  ASSUME TypeOK, NEW r \in Requests, Connect(r) \/ Dispatch(r) \/ WsReceive(r)
  PROVE  /\ UNCHANGED <<inbox, sock, reader, ctxDone, held, stream, late, controls>>
         /\ \A q \in Requests \ {r} :
              pc'[q] = pc[q] /\ chunks'[q] = chunks[q] /\ out'[q] = out[q]
         /\ \/ UNCHANGED <<pc, active, chunks>>
            \/ pc[r] \in Running /\ pc'[r] \in Running /\ UNCHANGED active
            \/ pc[r] = "defer" /\ pc'[r] = "done" /\ UNCHANGED chunks
                /\ active' = Deregistered(RequestID[r])
<1>p. {"connect", "hello", "check", "read", "chunk", "last", "error", "drained", "end", "defer"} \subseteq Running
  BY DEF Running
<1>t. /\ pc \in [Requests -> Points] /\ chunks \in [Requests -> 0..(MaxChunks + 1)]
      /\ out \in [Requests -> Frames]
  BY DEF TypeOK
<1>s. ASSUME NEW point \in Running, NEW kind, OthersUnchanged, pc[r] \in Running,
             Send(r, kind, point) \/ SendData(r, point) \/ Move(r, point)
      PROVE  /\ UNCHANGED <<inbox, sock, reader, ctxDone, held, stream, late, controls>>
             /\ \A q \in Requests \ {r} :
              pc'[q] = pc[q] /\ chunks'[q] = chunks[q] /\ out'[q] = out[q]
             /\ pc[r] \in Running /\ pc'[r] \in Running /\ UNCHANGED active
  BY <1>s, <1>t DEF Send, SendData, Move, Goto, OthersUnchanged, writerVars
<1>1. CASE DoNil(r)
  BY <1>1 DEF DoNil, dispatchVars, writerVars
<1>2. CASE Connect(r)
  <2>1. pc[r] \in Running /\ OthersUnchanged
    BY <1>2, <1>p DEF Connect, HttpConnect, SseConnect, WsConnect, ConnectOn, At
  <2>2. CASE Send(r, "error", "defer")
    BY <2>1, <1>p, <1>s, <2>2
  <2>3. CASE ~Send(r, "error", "defer")
    <3>1. Protocol[r] \in {"http", "sse", "websocket"}
      BY DispatchAssumption
    <3>2. PICK point \in Running : Send(r, "response", point)
      BY <1>2, <1>p, <2>3, <3>1 DEF Connect, HttpConnect, SseConnect, WsConnect, ConnectOn
    <3> QED  BY <2>1, <1>s, <3>2
  <2> QED  BY <2>2, <2>3
<1>3. CASE HttpRead(r)
  BY <1>3, <1>p, <1>s DEF HttpRead, At
<1>14. CASE HttpForward(r)
  BY <1>14, <1>p, <1>s DEF HttpForward, At
<1>4. CASE HttpEnd(r)
  BY <1>4, <1>p, <1>s DEF HttpEnd, At
<1>5. CASE SseCheck(r)
  BY <1>5, <1>p, <1>s DEF SseCheck, At
<1>6. CASE SseNextEvent(r)
  BY <1>6, <1>p, <1>s DEF SseNextEvent, At
<1>7. CASE SseSpin(r)
  BY <1>7 DEF SseSpin, vars, dispatchVars, writerVars
<1>8. CASE WsHello(r)
  BY <1>8, <1>p, <1>s DEF WsHello, At
<1>9. CASE WsCheck(r)
  BY <1>9, <1>p, <1>s DEF WsCheck, At
<1>10. CASE WsReceive(r)
  BY <1>10, <1>p, <1>s DEF WsReceive, At
<1>11. CASE WsRereadCancelled(r)
  BY <1>11, <1>p, <1>s DEF WsRereadCancelled, At
<1>12. CASE WsRereadPanic(r)
  BY <1>12 DEF WsRereadPanic, dispatchVars, writerVars
<1>13. CASE Finish(r)
  BY <1>13, <1>t DEF Finish, At, Move, Goto, writerVars
<1> QED
  BY <1>1, <1>2, <1>3, <1>4, <1>5, <1>6, <1>7, <1>8, <1>9, <1>10, <1>11,
     <1>12, <1>13, <1>14 DEF Dispatch

\* The inboxes and registry entries are disturbed by nothing a dispatcher
\* does but its last step.
LEMMA DispatchRegistry ==
  ASSUME TypeOK, RegistryInv, NEW r \in Requests, Connect(r) \/ Dispatch(r) \/ WsReceive(r)
  PROVE  RegistryInv'
<1>t. /\ pc \in [Requests -> Points] /\ active \in [Ids -> Requests \cup {NoRequest}]
      /\ RequestID \in [Requests -> Ids] /\ NoRequest \notin Requests
      /\ ctxDone \subseteq Requests
      /\ \A c \in Conns : inbox[c] \in Seq(Messages)
  BY DispatchAssumption DEF TypeOK
<1>1. CASE UNCHANGED <<pc, active>>
  <2>1. UNCHANGED <<pc, active, inbox, ctxDone>>
    BY <1>1, DispatchSummary
  <2> QED
    BY <2>1 DEF RegistryInv, InboxInv, CancelledStarted, NoStaleEntry,
                RegistryTracksLive, Live, DistinctIds
<1>2. CASE pc[r] \in Running /\ pc'[r] \in Running /\ UNCHANGED active
  <2>0. /\ UNCHANGED <<active, inbox, ctxDone>>
        /\ \A q \in Requests \ {r} : pc'[q] = pc[q]
    BY <1>2, DispatchSummary
  <2>1. \A q \in Requests : /\ Live(q)' <=> Live(q)
                            /\ pc[q] = "done" => pc'[q] = "done"
                            /\ pc[q] = "inbox" => pc'[q] = "inbox"
    BY <1>2, <2>0 DEF Live, Running
  <2>2. InboxInv'
    <3>1. \A c \in Conns : \A i \in 1..Len(inbox[c]) :
            inbox[c][i].action = "request" => inbox[c][i].req \in Requests
      BY <1>t, RequestMessage
    <3> QED  BY <2>0, <2>1, <3>1 DEF RegistryInv, InboxInv
  <2>3. CancelledStarted'
    BY <1>t, <2>0, <2>1 DEF RegistryInv, CancelledStarted
  <2>4. NoStaleEntry'
    BY <1>t, <2>0, <2>1 DEF RegistryInv, NoStaleEntry
  <2>5. RegistryTracksLive'
    BY <1>t, <2>0, <2>1 DEF RegistryInv, RegistryTracksLive, DistinctIds
  <2> QED  BY <2>2, <2>3, <2>4, <2>5 DEF RegistryInv
<1>3. CASE pc[r] = "defer" /\ pc'[r] = "done" /\ active' = Deregistered(RequestID[r])
  <2>0. /\ UNCHANGED <<inbox, ctxDone>>
        /\ \A q \in Requests \ {r} : pc'[q] = pc[q]
        /\ active' = [active EXCEPT ![RequestID[r]] = NoRequest]
    BY <1>3, DispatchSummary DEF Deregistered
  <2>1. /\ \A q \in Requests : /\ q # r => (Live(q)' <=> Live(q))
                               /\ pc[q] = "done" => pc'[q] = "done"
                               /\ pc[q] = "inbox" => pc'[q] = "inbox"
        /\ Live(r) /\ ~Live(r)'
    BY <1>3, <2>0 DEF Live, Running
  <2>2. InboxInv'
    <3>1. \A c \in Conns : \A i \in 1..Len(inbox[c]) :
            inbox[c][i].action = "request" => inbox[c][i].req \in Requests
      BY <1>t, RequestMessage
    <3> QED  BY <2>0, <2>1, <3>1 DEF RegistryInv, InboxInv
  <2>3. CancelledStarted'
    BY <1>t, <1>3, <2>0, <2>1 DEF RegistryInv, CancelledStarted
  <2>4. NoStaleEntry'
    BY <1>t, <2>0, <2>1 DEF RegistryInv, NoStaleEntry
  <2>5. RegistryTracksLive'
    BY <1>t, <2>0, <2>1 DEF RegistryInv, RegistryTracksLive, DistinctIds
  <2> QED  BY <2>2, <2>3, <2>4, <2>5 DEF RegistryInv
<1> QED  BY <1>1, <1>2, <1>3, DispatchSummary

\* Taking the first message leaves every other message where it was, one
\* place earlier.
LEMMA ReceiveInbox ==
  ASSUME TypeOK, NEW c \in Conns, NEW what, Receive(c, what)
  PROVE  /\ Len(inbox[c]) > 0
         /\ Head(inbox[c]) = inbox[c][1] /\ inbox[c][1].action = what
         /\ \A i \in 1..Len(inbox'[c]) :
              i + 1 \in 1..Len(inbox[c]) /\ inbox'[c][i] = inbox[c][i + 1]
         /\ \A d \in Conns \ {c} : inbox'[d] = inbox[d]
<1>1. inbox[c] \in Seq(Messages) /\ inbox[c] # <<>> /\ inbox \in [Conns -> Seq(Messages)]
  BY DEF TypeOK, Receive
<1>2. inbox'[c] = Tail(inbox[c]) /\ \A d \in Conns \ {c} : inbox'[d] = inbox[d]
  BY <1>1 DEF Receive
<1>3. Len(inbox[c]) > 0 /\ Head(inbox[c]) = inbox[c][1]
  BY <1>1
<1>4. \A i \in 1..Len(Tail(inbox[c])) :
        i + 1 \in 1..Len(inbox[c]) /\ Tail(inbox[c])[i] = inbox[c][i + 1]
  BY <1>1, <1>3
<1> QED  BY <1>2, <1>3, <1>4 DEF Receive

\* A reader's step that takes a message and starts no request keeps the
\* inbox invariant.
LEMMA ReceiveInboxInv ==
  ASSUME TypeOK, InboxInv, NEW c \in Conns, NEW what, Receive(c, what), UNCHANGED pc
  PROVE  InboxInv'
<1>1. \A d \in Conns \ {c} : inbox'[d] = inbox[d]
  BY ReceiveInbox
<1>2. \A i \in 1..Len(inbox'[c]) :
        i \in Nat /\ i + 1 \in 1..Len(inbox[c]) /\ inbox'[c][i] = inbox[c][i + 1]
  BY ReceiveInbox
<1>3. ASSUME NEW d \in Conns, NEW i \in 1..Len(inbox'[d]),
             inbox'[d][i].action = "request"
      PROVE  /\ ConnOf[inbox'[d][i].req] = d
             /\ pc[inbox'[d][i].req] = "inbox"
             /\ \A j \in 1..Len(inbox'[d]) :
                  inbox'[d][j].action = "request"
                    /\ inbox'[d][j].req = inbox'[d][i].req => j = i
  <2>1. CASE d = c
    <3>1. \A j \in 1..Len(inbox[c]) :
            inbox[c][j].action = "request"
              /\ inbox[c][j].req = inbox[c][i + 1].req => j = i + 1
      BY <1>2, <1>3, <2>1 DEF InboxInv
    <3>2. \A j \in 1..Len(inbox'[d]) :
            inbox'[d][j].action = "request"
              /\ inbox'[d][j].req = inbox'[d][i].req => j = i
      <4> SUFFICES ASSUME NEW j \in 1..Len(inbox'[d]), inbox'[d][j].action = "request",
                          inbox'[d][j].req = inbox'[d][i].req
                   PROVE  j = i
        OBVIOUS
      <4>1. /\ i \in Nat /\ inbox'[d][i] = inbox[c][i + 1]
            /\ j \in Nat /\ j + 1 \in 1..Len(inbox[c]) /\ inbox'[d][j] = inbox[c][j + 1]
        BY <1>2, <2>1
      <4>2. j + 1 = i + 1
        BY <3>1, <4>1
      <4> QED  BY <4>1, <4>2
    <3> QED  BY <1>2, <1>3, <2>1, <3>2 DEF InboxInv
  <2>2. CASE d # c
    BY <1>1, <1>3, <2>2 DEF InboxInv
  <2> QED  BY <2>1, <2>2
<1> QED  BY <1>3 DEF InboxInv

LEMMA ReadRegistry ==
  ASSUME TypeOK, RegistryInv, NEW c \in Conns, Read(c)
  PROVE  RegistryInv'
<1>t. /\ pc \in [Requests -> Points] /\ active \in [Ids -> Requests \cup {NoRequest}]
      /\ RequestID \in [Requests -> Ids] /\ NoRequest \notin Requests
      /\ ctxDone \subseteq Requests
      /\ \A d \in Conns : inbox[d] \in Seq(Messages)
  BY DispatchAssumption DEF TypeOK
<1>i. InboxInv /\ CancelledStarted /\ NoStaleEntry /\ RegistryTracksLive
  BY DEF RegistryInv
<1>1. CASE ReadRequest(c)
  <2>0. PICK r \in Requests : r = Head(inbox[c]).req
    BY <1>1, InboxType, RequestMessage DEF ReadRequest, ProcessRequest, DispatchSSERequest,
      DispatchWebSocketRequest, Accept, Reject
  <2>1. Receive(c, "request") /\ inbox[c][1].req = r /\ RequestID[r] \in Ids
    BY <1>1, <1>t, <2>0, ReceiveInbox DEF ReadRequest, ProcessRequest, DispatchSSERequest,
      DispatchWebSocketRequest, Accept, Reject
  <2>2. pc[r] = "inbox" /\ ConnOf[r] = c
    BY <1>i, <2>1, ReceiveInbox DEF InboxInv
  <2>3. r \notin ctxDone
    BY <1>i, <2>2 DEF CancelledStarted, Live, Running
  <2>4. \A q \in Requests \ {r} : pc'[q] = pc[q] /\ (Live(q)' <=> Live(q))
    BY <1>1, <1>t, <2>0 DEF ReadRequest, ProcessRequest, DispatchSSERequest,
      DispatchWebSocketRequest, Accept, Reject, Live
  <2>5. UNCHANGED ctxDone
    BY <1>1 DEF ReadRequest, ProcessRequest, DispatchSSERequest,
      DispatchWebSocketRequest, Accept, Reject
  <2>6. InboxInv'
    <3> SUFFICES ASSUME NEW d \in Conns, NEW i \in 1..Len(inbox'[d]),
                        inbox'[d][i].action = "request"
                 PROVE  /\ ConnOf[inbox'[d][i].req] = d
                        /\ pc'[inbox'[d][i].req] = "inbox"
                        /\ \A j \in 1..Len(inbox'[d]) :
                             inbox'[d][j].action = "request"
                               /\ inbox'[d][j].req = inbox'[d][i].req => j = i
      BY DEF InboxInv
    <3>1. CASE d = c
      <4> DEFINE m == inbox[c][i + 1]
      <4>0. i \in Nat /\ i > 0 /\ i + 1 # 1
        OBVIOUS
      <4>1. i + 1 \in 1..Len(inbox[c]) /\ inbox'[d][i] = m
        BY <2>1, <3>1, ReceiveInbox
      <4>2. m.req # r
        BY <1>i, <2>1, <4>0, <4>1, ReceiveInbox DEF InboxInv
      <4>3. m.req \in Requests
        BY <1>t, <4>1, RequestMessage
      <4>4. /\ ConnOf[m.req] = c /\ pc[m.req] = "inbox"
            /\ \A j \in 1..Len(inbox[c]) :
                 inbox[c][j].action = "request" /\ inbox[c][j].req = m.req => j = i + 1
        BY <1>i, <4>1 DEF InboxInv
      <4>5. \A j \in 1..Len(inbox'[c]) :
              j \in Nat /\ j + 1 \in 1..Len(inbox[c]) /\ inbox'[c][j] = inbox[c][j + 1]
        BY <2>1, ReceiveInbox
      <4>6. ASSUME NEW j \in 1..Len(inbox'[c]), inbox'[c][j].action = "request",
                   inbox'[c][j].req = m.req
            PROVE  j = i
        <5>1. j \in Nat /\ j + 1 \in 1..Len(inbox[c]) /\ inbox'[c][j] = inbox[c][j + 1]
          BY <4>5
        <5>2. j + 1 = i + 1
          BY <4>4, <4>6, <5>1
        <5> QED  BY <4>0, <5>1, <5>2
      <4> QED  BY <2>4, <3>1, <4>1, <4>2, <4>3, <4>4, <4>6
    <3>2. CASE d # c
      <4>1. inbox'[d] = inbox[d]
        BY <2>1, <3>2, ReceiveInbox
      <4>2. /\ ConnOf[inbox[d][i].req] = d /\ pc[inbox[d][i].req] = "inbox"
            /\ \A j \in 1..Len(inbox[d]) :
                 inbox[d][j].action = "request"
                   /\ inbox[d][j].req = inbox[d][i].req => j = i
        BY <1>i, <4>1 DEF InboxInv
      <4>3. inbox[d][i].req \in Requests /\ inbox[d][i].req # r
        BY <1>t, <2>2, <3>2, <4>1, <4>2, RequestMessage
      <4> QED  BY <2>4, <4>1, <4>2, <4>3
    <3> QED  BY <3>1, <3>2
  <2>7. CancelledStarted'
    BY <1>t, <1>i, <2>3, <2>4, <2>5 DEF CancelledStarted
  <2>8. NoStaleEntry' /\ RegistryTracksLive'
    <3>1. CASE active' = Registered(r) /\ pc' = [pc EXCEPT ![r] = "handoff"]
      <4>1. Live(r)' /\ active' = [active EXCEPT ![RequestID[r]] = r]
        BY <1>t, <2>1, <3>1 DEF Live, Registered
      <4> QED
        BY <1>t, <1>i, <2>1, <2>3, <2>4, <2>5, <4>1
        DEF NoStaleEntry, RegistryTracksLive, DistinctIds
    <3>2. CASE UNCHANGED active /\ pc' = [pc EXCEPT ![r] = "handoffNil"]
      <4>1. ~Live(r)' /\ ~Live(r)
        BY <1>t, <2>1, <2>2, <3>2 DEF Live, Running
      <4> QED
        BY <1>t, <1>i, <2>1, <2>4, <2>5, <3>2, <4>1
        DEF NoStaleEntry, RegistryTracksLive, DistinctIds
    <3> QED  BY <1>1, <2>0, <3>1, <3>2 DEF ReadRequest, ProcessRequest, DispatchSSERequest,
      DispatchWebSocketRequest, Accept, Reject
  <2> QED  BY <2>6, <2>7, <2>8 DEF RegistryInv
<1>2. CASE ReadCancel(c)
  <2> DEFINE id == Head(inbox[c]).id
  <2>1. Receive(c, "cancel") /\ id \in Ids /\ UNCHANGED pc
    BY <1>2, InboxType, CancelMessage DEF ReadCancel, dispatchVars
  <2>2. InboxInv'
    BY <1>i, <2>1, ReceiveInboxInv
  <2>3. \A q : Live(q)' <=> Live(q)
    BY <2>1 DEF Live
  <2>4. CASE active[id] = NoRequest
    <3>1. UNCHANGED <<active, ctxDone>>
      BY <1>2, <2>4 DEF ReadCancel
    <3> QED
      BY <1>i, <2>1, <2>2, <2>3, <3>1
      DEF RegistryInv, CancelledStarted, NoStaleEntry, RegistryTracksLive
  <2>5. CASE active[id] # NoRequest
    <3>1. /\ ctxDone' = ctxDone \cup {active[id]}
          /\ active' = [active EXCEPT ![id] = NoRequest]
      BY <1>2, <2>5 DEF ReadCancel, Deregistered
    <3>2. active[id] \in Requests /\ RequestID[active[id]] = id /\ Live(active[id])
      BY <1>t, <1>i, <2>1, <2>5 DEF NoStaleEntry
    <3>3. CancelledStarted'
      BY <1>i, <2>1, <2>3, <3>1, <3>2 DEF CancelledStarted
    <3>4. NoStaleEntry'
      BY <1>t, <1>i, <2>1, <2>3, <3>1, <3>2 DEF NoStaleEntry
    <3>5. RegistryTracksLive'
      BY <1>t, <1>i, <2>1, <2>3, <3>1, <3>2 DEF RegistryTracksLive, DistinctIds
    <3> QED  BY <2>2, <3>3, <3>4, <3>5 DEF RegistryInv
  <2> QED  BY <2>4, <2>5
<1>3. ASSUME UNCHANGED <<pc, active, ctxDone>>, InboxInv'
      PROVE  RegistryInv'
  BY <1>3, <1>i
  DEF RegistryInv, CancelledStarted, NoStaleEntry, RegistryTracksLive, Live
<1>4. CASE ReadExit(c)
  BY <1>3, <1>4, <1>i, ReceiveInboxInv DEF ReadExit, dispatchVars
<1>5. CASE ReadGarbage(c)
  BY <1>3, <1>5, <1>i, ReceiveInboxInv DEF ReadGarbage, dispatchVars
<1>6. CASE ReadError(c)
  BY <1>3, <1>6, <1>i DEF ReadError, InboxInv, dispatchVars
<1> QED  BY <1>1, <1>2, <1>4, <1>5, <1>6 DEF Read

LEMMA PlumbingRegistry ==
  ASSUME TypeOK, RegistryInv, NEW r \in Requests,
         ClientRequest(r) \/ Handoff(r) \/ WriterTake(r) \/ WriterWrite(r)
  PROVE  RegistryInv'
<1>t. /\ pc \in [Requests -> Points] /\ active \in [Ids -> Requests \cup {NoRequest}]
      /\ RequestID \in [Requests -> Ids] /\ NoRequest \notin Requests
      /\ ctxDone \subseteq Requests /\ ConnOf[r] \in Conns
      /\ inbox \in [Conns -> Seq(Messages)]
      /\ \A d \in Conns : \A i \in 1..Len(inbox[d]) : inbox[d][i] \in Messages
  BY DispatchAssumption DEF TypeOK
<1>i. InboxInv /\ CancelledStarted /\ NoStaleEntry /\ RegistryTracksLive
  BY DEF RegistryInv
<1>m. \A d \in Conns : \A i \in 1..Len(inbox[d]) :
        inbox[d][i].action = "request" => inbox[d][i].req \in Requests
  BY <1>t, RequestMessage
<1>1. CASE ClientRequest(r)
  <2> DEFINE c == ConnOf[r]
             m == [action |-> "request", req |-> r]
  <2>1. /\ pc[r] = "new" /\ pc' = [pc EXCEPT ![r] = "inbox"]
        /\ UNCHANGED <<active, ctxDone>>
        /\ inbox' = [inbox EXCEPT ![c] = Append(inbox[c], m)]
    BY <1>1 DEF ClientRequest, Deliver
  <2>2. \A q \in Requests : (Live(q)' <=> Live(q)) /\ (q # r => pc'[q] = pc[q])
    BY <1>t, <2>1 DEF Live, Running
  <2>3. CancelledStarted' /\ NoStaleEntry' /\ RegistryTracksLive'
    BY <1>t, <1>i, <2>1, <2>2
    DEF CancelledStarted, NoStaleEntry, RegistryTracksLive, DistinctIds
  <2>4. \A d \in Conns : \A i \in 1..Len(inbox[d]) :
          inbox[d][i].action = "request" => inbox[d][i].req # r
    BY <1>i, <2>1 DEF InboxInv
  <2>5. /\ \A d \in Conns \ {c} : inbox'[d] = inbox[d]
        /\ Len(inbox[c]) \in Nat /\ Len(inbox'[c]) = Len(inbox[c]) + 1
        /\ \A i \in 1..Len(inbox[c]) : inbox'[c][i] = inbox[c][i]
        /\ inbox'[c][Len(inbox[c]) + 1] = m
    BY <1>t, <2>1
  <2>6. ASSUME NEW d \in Conns, NEW i \in 1..Len(inbox'[d]),
               inbox'[d][i].action = "request"
        PROVE  /\ ConnOf[inbox'[d][i].req] = d
               /\ pc'[inbox'[d][i].req] = "inbox"
               /\ \A j \in 1..Len(inbox'[d]) :
                    inbox'[d][j].action = "request"
                      /\ inbox'[d][j].req = inbox'[d][i].req => j = i
    <3>1. CASE d # c
      <4>1. inbox'[d] = inbox[d] /\ inbox[d][i].req \in Requests
        BY <1>m, <2>5, <2>6, <3>1
      <4> QED  BY <1>i, <2>2, <2>4, <2>6, <4>1 DEF InboxInv
    <3>2. CASE d = c /\ i = Len(inbox[c]) + 1
      <4>1. inbox'[d][i] = m /\ m.req = r
        BY <2>5, <3>2
      <4>2. \A j \in 1..Len(inbox'[d]) :
              inbox'[d][j].action = "request" /\ inbox'[d][j].req = r => j = i
        BY <2>4, <2>5, <3>2
      <4> QED  BY <1>t, <2>1, <3>2, <4>1, <4>2
    <3>3. CASE d = c /\ i # Len(inbox[c]) + 1
      <4>1. i \in 1..Len(inbox[c]) /\ inbox'[d][i] = inbox[c][i]
        BY <2>5, <3>3
      <4>2. /\ inbox[c][i].action = "request" /\ inbox[c][i].req \in Requests
            /\ inbox[c][i].req # r
        BY <1>t, <1>m, <2>4, <2>6, <4>1
      <4>3. \A j \in 1..Len(inbox'[d]) :
              inbox'[d][j].action = "request" /\ inbox'[d][j].req = inbox[c][i].req => j = i
        <5>1. \A j \in 1..Len(inbox[c]) :
                inbox[c][j].action = "request" /\ inbox[c][j].req = inbox[c][i].req => j = i
          BY <1>t, <1>i, <4>1, <4>2 DEF InboxInv
        <5>2. \A j \in 1..Len(inbox'[c]) :
                \/ j \in 1..Len(inbox[c]) /\ inbox'[c][j] = inbox[c][j]
                \/ inbox'[c][j].req = r
          BY <2>5
        <5> QED  BY <3>3, <4>2, <5>1, <5>2
      <4> QED  BY <1>i, <2>2, <2>6, <3>3, <4>1, <4>2, <4>3 DEF InboxInv
    <3> QED  BY <3>1, <3>2, <3>3
  <2>7. InboxInv'
    BY <2>6 DEF InboxInv
  <2> QED  BY <2>3, <2>7 DEF RegistryInv
<1>2. CASE Handoff(r)
  <2>1. /\ pc[r] \in {"handoff", "handoffNil"}
        /\ pc' = [pc EXCEPT ![r] = IF pc[r] = "handoff" THEN "connect" ELSE "doNil"]
        /\ UNCHANGED <<inbox, active, ctxDone>>
    BY <1>2 DEF Handoff
  <2>2. \A q \in Requests : /\ Live(q)' <=> Live(q)
                            /\ pc[q] \in {"done", "inbox"} => pc'[q] = pc[q]
    BY <1>t, <2>1 DEF Live, Running
  <2>3. InboxInv'
    BY <1>i, <1>m, <2>1, <2>2 DEF InboxInv
  <2>4. CancelledStarted' /\ NoStaleEntry' /\ RegistryTracksLive'
    BY <1>t, <1>i, <2>1, <2>2
    DEF CancelledStarted, NoStaleEntry, RegistryTracksLive, DistinctIds
  <2> QED  BY <2>3, <2>4 DEF RegistryInv
<1>3. CASE WriterTake(r) \/ WriterWrite(r)
  <2>1. UNCHANGED <<pc, inbox, active, ctxDone>>
    BY <1>3 DEF WriterTake, WriterWrite, dispatchVars
  <2> QED
    BY <1>i, <2>1 DEF RegistryInv, InboxInv, CancelledStarted, NoStaleEntry,
                      RegistryTracksLive, Live
<1> QED  BY <1>1, <1>2, <1>3

LEMMA ClientRegistry ==
  ASSUME TypeOK, RegistryInv, NEW c \in Conns, ClientControl(c) \/ ClientDrop(c)
  PROVE  RegistryInv'
<1>i. InboxInv /\ CancelledStarted /\ NoStaleEntry /\ RegistryTracksLive
  BY DEF RegistryInv
<1>0. UNCHANGED <<pc, active, ctxDone>>
  BY DEF ClientControl, ClientDrop, dispatchVars
<1>1. InboxInv'
  <2>1. CASE ClientDrop(c)
    BY <1>i, <2>1 DEF ClientDrop, InboxInv, dispatchVars
  <2>2. CASE ClientControl(c)
    <3>1. PICK m : m.action # "request" /\ Deliver(c, m)
      BY <2>2 DEF ClientControl
    <3>2. inbox[c] \in Seq(Messages) /\ inbox \in [Conns -> Seq(Messages)]
      BY DEF TypeOK
    <3>3. /\ \A d \in Conns \ {c} : inbox'[d] = inbox[d]
          /\ Len(inbox[c]) \in Nat /\ Len(inbox'[c]) = Len(inbox[c]) + 1
          /\ \A i \in 1..Len(inbox[c]) : inbox'[c][i] = inbox[c][i]
          /\ inbox'[c][Len(inbox[c]) + 1] = m
      BY <3>1, <3>2 DEF Deliver
    <3>4. \A d \in Conns : \A i \in 1..Len(inbox'[d]) :
            inbox'[d][i].action = "request" =>
              i \in 1..Len(inbox[d]) /\ inbox'[d][i] = inbox[d][i]
      BY <3>1, <3>3
    <3> SUFFICES ASSUME NEW d \in Conns, NEW i \in 1..Len(inbox'[d]),
                        inbox'[d][i].action = "request"
                 PROVE  /\ ConnOf[inbox'[d][i].req] = d
                        /\ pc'[inbox'[d][i].req] = "inbox"
                        /\ \A j \in 1..Len(inbox'[d]) :
                             inbox'[d][j].action = "request"
                               /\ inbox'[d][j].req = inbox'[d][i].req => j = i
      BY DEF InboxInv
    <3>5. i \in 1..Len(inbox[d]) /\ inbox'[d][i] = inbox[d][i]
      BY <3>4
    <3>6. /\ ConnOf[inbox[d][i].req] = d
          /\ pc[inbox[d][i].req] = "inbox"
          /\ \A j \in 1..Len(inbox[d]) :
               inbox[d][j].action = "request" /\ inbox[d][j].req = inbox[d][i].req => j = i
      BY <1>i, <3>5 DEF InboxInv
    <3> QED  BY <1>0, <3>4, <3>5, <3>6
  <2> QED  BY <2>1, <2>2
<1> QED
  BY <1>0, <1>1, <1>i
  DEF RegistryInv, CancelledStarted, NoStaleEntry, RegistryTracksLive, Live

LEMMA InitRegistry == Init => RegistryInv
<1> SUFFICES ASSUME Init PROVE RegistryInv
  OBVIOUS
<1>1. InboxInv /\ CancelledStarted
  BY DEF Init, InboxInv, CancelledStarted
<1>2. NoStaleEntry /\ RegistryTracksLive
  BY DispatchAssumption DEF Init, NoStaleEntry, RegistryTracksLive, Live, Running
<1> QED  BY <1>1, <1>2 DEF RegistryInv

LEMMA StepRegistry == TypeOK /\ RegistryInv /\ [Next]_vars => RegistryInv'
<1> SUFFICES ASSUME TypeOK, RegistryInv, [Next]_vars PROVE RegistryInv'
  OBVIOUS
<1>1. CASE Terminated \/ UNCHANGED vars
  BY <1>1 DEF Terminated, vars, RegistryInv, InboxInv, CancelledStarted,
              NoStaleEntry, RegistryTracksLive, Live
<1>2. ASSUME NEW r \in Requests,
             ClientRequest(r) \/ Handoff(r) \/ WriterTake(r) \/ WriterWrite(r)
      PROVE  RegistryInv'
  BY <1>2, PlumbingRegistry
<1>3. ASSUME NEW r \in Requests, Connect(r) \/ Dispatch(r) \/ WsReceive(r)
      PROVE  RegistryInv'
  BY <1>3, DispatchRegistry
<1>4. ASSUME NEW c \in Conns, ClientControl(c) \/ ClientDrop(c)
      PROVE  RegistryInv'
  BY <1>4, ClientRegistry
<1>5. ASSUME NEW c \in Conns, Read(c)
      PROVE  RegistryInv'
  BY <1>5, ReadRegistry
<1> QED  BY <1>1, <1>2, <1>3, <1>4, <1>5 DEF Next

\* Whatever ids the clients choose, activeRequests never holds the cancel
\* func of a finished or cancelled request.
THEOREM RegistryNeverStale == Spec => []NoStaleEntry
<1>1. RegistryInv => NoStaleEntry
  BY DEF RegistryInv
<1> QED
  BY <1>1, InitType, StepType, InitRegistry, StepRegistry, PTL DEF Spec

\* With distinct ids, a request in flight can be cancelled at every moment:
\* its entry in activeRequests is there from before its goroutine starts.
THEOREM CancelFindsRequest == Spec => []RegistryTracksLive
<1>1. RegistryInv => RegistryTracksLive
  BY DEF RegistryInv
<1> QED
  BY <1>1, InitType, StepType, InitRegistry, StepRegistry, PTL DEF Spec

-----------------------------------------------------------------------------
(* Cancellation.                                                           *)

\* A dispatcher that sends a chunk or an error, or gets to where it will, was
\* there already or has just seen that its request is not cancelled.
LEMMA DispatchCommits ==
  ASSUME TypeOK, LateInv, NEW r \in Requests, Connect(r) \/ Dispatch(r) \/ WsReceive(r)
  PROVE  /\ (Committed(r)' \/ out'[r].kind \in Late) =>
              Committed(r) \/ r \notin ctxDone \/ UNCHANGED <<pc, out>>
         /\ out'[r].kind \in Late => ~Committed(r)'
         /\ pc'[r] \in {"chunk", "last", "error"} => Protocol[r] = "http"
         /\ pc'[r] \in {"new", "inbox"} => UNCHANGED <<pc, out>>
<1>t. pc \in [Requests -> Points] /\ out \in [Requests -> Frames]
  BY DEF TypeOK
<1>l. LateOnce(r) /\ NoFrame.kind \notin Late
  BY DEF LateInv, NoFrame, Late
<1>1. CASE Connect(r)
  BY <1>1, <1>t, <1>l DEF Connect, HttpConnect, SseConnect, WsConnect, ConnectOn, At, Send,
    Goto, Committed, Late
<1>2. CASE HttpRead(r)
  BY <1>2, <1>t, <1>l DEF HttpRead, At, Move, Goto, Committed
<1>3. CASE HttpForward(r)
  BY <1>3, <1>t, <1>l DEF HttpForward, At, Send, SendData, Goto, Committed
<1>4. CASE HttpEnd(r)
  BY <1>4, <1>t, <1>l DEF HttpEnd, At, Send, Goto, Committed, Late
<1>5. CASE SseCheck(r)
  BY <1>5, <1>t, <1>l DEF SseCheck, At, Move, Goto, Committed
<1>6. CASE SseNextEvent(r)
  BY <1>6, <1>t, <1>l DEF SseNextEvent, At, SendData, Move, Goto, Committed
<1>7. CASE WsHello(r)
  BY <1>7, <1>t, <1>l DEF WsHello, At, SendData, Goto, Committed
<1>8. CASE WsCheck(r)
  BY <1>8, <1>t, <1>l DEF WsCheck, At, Move, Goto, Committed
<1>9. CASE WsReceive(r)
  BY <1>9, <1>t, <1>l DEF WsReceive, At, SendData, Move, Goto, Committed
<1>10. CASE WsRereadCancelled(r)
  BY <1>10, <1>t, <1>l DEF WsRereadCancelled, At, Move, Goto, Committed
<1>11. CASE Finish(r)
  BY <1>11, <1>t, <1>l DEF Finish, At, Move, Goto, Committed
<1>12. CASE DoNil(r) \/ SseSpin(r) \/ WsRereadPanic(r)
  BY <1>12, <1>l DEF DoNil, SseSpin, WsRereadPanic, dispatchVars, vars, LateOnce, Committed
<1> QED
  BY <1>1, <1>2, <1>3, <1>4, <1>5, <1>6, <1>7, <1>8, <1>9, <1>10, <1>11, <1>12
  DEF Dispatch

LEMMA StepLate == TypeOK /\ RegistryInv /\ LateInv /\ [Next]_vars => LateInv'
<1> SUFFICES ASSUME TypeOK, RegistryInv, LateInv, [Next]_vars PROVE LateInv'
  OBVIOUS
<1>t. /\ pc \in [Requests -> Points] /\ ctxDone \subseteq Requests
      /\ late \in [Requests -> Nat] /\ out \in [Requests -> Frames]
  BY DEF TypeOK
\* A step that leaves all of a request but its program point keeps LateOnce,
\* when the point it reaches commits it no more than the one it left.
<1>k. ASSUME NEW q \in Requests, late'[q] = late[q], out'[q] = out[q],
             q \in ctxDone => q \in ctxDone',
             Committed(q)' => Committed(q),
             pc'[q] \in {"chunk", "last", "error"} => pc[q] \in {"chunk", "last", "error"},
             pc'[q] \in {"new", "inbox"} => pc[q] \in {"new", "inbox"}
      PROVE  LateOnce(q)'
  BY <1>k DEF LateInv, LateOnce
<1>1. ASSUME NEW r \in Requests, Connect(r) \/ Dispatch(r) \/ WsReceive(r)
      PROVE  LateInv'
  <2>1. /\ UNCHANGED <<ctxDone, late>>
        /\ \A q \in Requests \ {r} : pc'[q] = pc[q] /\ out'[q] = out[q]
    BY <1>1, DispatchSummary
  <2>2. \A q \in Requests \ {r} : LateOnce(q)'
    BY <1>k, <2>1 DEF Committed
  <2>3. LateOnce(r)'
    <3>1. LateOnce(r) /\ late[r] \in Nat
      BY <1>t DEF LateInv
    <3> QED  BY <1>1, <2>1, <3>1, DispatchCommits DEF LateOnce, Committed
  <2> QED  BY <2>2, <2>3 DEF LateInv
<1>2. ASSUME NEW r \in Requests, ClientRequest(r) \/ Handoff(r)
      PROVE  LateInv'
  <2>1. UNCHANGED <<ctxDone, late, out>>
    BY <1>2 DEF ClientRequest, Handoff, writerVars
  <2>2. /\ \A q \in Requests \ {r} : pc'[q] = pc[q]
        /\ \/ pc[r] = "new" /\ pc'[r] = "inbox"
           \/ pc[r] = "handoff" /\ pc'[r] = "connect"
           \/ pc'[r] = "doNil"
    BY <1>2, <1>t DEF ClientRequest, Handoff
  <2>3. \A q \in Requests :
          /\ Committed(q)' => Committed(q)
          /\ pc'[q] \in {"chunk", "last", "error"} => pc[q] \in {"chunk", "last", "error"}
          /\ pc'[q] \in {"new", "inbox"} => pc[q] \in {"new", "inbox"}
    BY <2>2 DEF Committed
  <2> QED  BY <1>k, <2>1, <2>3 DEF LateInv
<1>3. ASSUME NEW r \in Requests, WriterTake(r)
      PROVE  LateInv'
  <2>1. /\ UNCHANGED <<ctxDone, pc>>
        /\ out' = [out EXCEPT ![r] = NoFrame]
        /\ late' = IF r \in ctxDone /\ out[r].kind \in Late
                   THEN [late EXCEPT ![r] = @ + 1] ELSE late
    BY <1>3 DEF WriterTake, Late
  <2>2. \A q \in Requests \ {r} : LateOnce(q)'
    BY <1>k, <1>t, <2>1 DEF Committed
  <2>3. LateOnce(r)'
    <3>1. LateOnce(r) /\ late[r] \in Nat /\ out'[r] = NoFrame /\ NoFrame.kind \notin Late
      BY <1>t, <2>1 DEF LateInv, NoFrame, Late
    <3>2. CASE r \in ctxDone /\ out[r].kind \in Late
      <4>1. late[r] = 0 /\ late'[r] = 1 /\ ~Committed(r)
        BY <1>t, <2>1, <3>1, <3>2 DEF LateOnce
      <4> QED  BY <2>1, <3>1, <3>2, <4>1 DEF LateOnce, Committed
    <3>3. CASE ~(r \in ctxDone /\ out[r].kind \in Late)
      <4>1. late' = late
        BY <2>1, <3>3
      <4> QED  BY <2>1, <3>1, <3>3, <4>1 DEF LateOnce, Committed
    <3> QED  BY <3>2, <3>3
  <2> QED  BY <2>2, <2>3 DEF LateInv
<1>4. ASSUME NEW c \in Conns, ReadRequest(c)
      PROVE  LateInv'
  <2>1. PICK r \in Requests : r = Head(inbox[c]).req
    BY <1>4, InboxType, RequestMessage DEF ReadRequest
  <2>2. UNCHANGED <<ctxDone, late, out>>
    BY <1>4 DEF ReadRequest, writerVars
  <2>3. pc[r] = "inbox"
    BY <1>4, <2>1, ReceiveInbox DEF ReadRequest, RegistryInv, InboxInv
  <2>4. r \notin ctxDone
    BY <2>3 DEF RegistryInv, CancelledStarted, Live, Running
  <2>5. /\ \A q \in Requests \ {r} : pc'[q] = pc[q]
        /\ pc'[r] \in {"handoff", "handoffNil"}
    BY <1>4, <1>t, <2>1 DEF ReadRequest, ProcessRequest, DispatchSSERequest,
      DispatchWebSocketRequest, Accept, Reject
  <2>6. LateOnce(r)'
    <3>1. LateOnce(r) /\ late[r] \in Nat /\ NoFrame.kind \notin Late
      BY <1>t DEF LateInv, NoFrame, Late
    <3> QED  BY <2>2, <2>3, <2>4, <2>5, <3>1 DEF LateOnce
  <2>7. \A q \in Requests \ {r} : LateOnce(q)'
    BY <1>k, <2>2, <2>5 DEF Committed
  <2> QED  BY <2>6, <2>7 DEF LateInv
<1>5. ASSUME \/ \E r \in Requests : WriterWrite(r)
             \/ \E c \in Conns : \/ ReadCancel(c) \/ ReadExit(c) \/ ReadGarbage(c)
                                 \/ ReadError(c) \/ ClientControl(c) \/ ClientDrop(c)
             \/ Terminated \/ UNCHANGED vars
      PROVE  LateInv'
  <2>1. UNCHANGED <<pc, out, late>>
    BY <1>5 DEF WriterWrite, ReadCancel, ReadExit, ReadGarbage, ReadError, ClientControl,
      ClientDrop, Terminated, vars, dispatchVars, writerVars
  <2>2. ctxDone \subseteq ctxDone'
    BY <1>5 DEF WriterWrite, ReadCancel, ReadExit, ReadGarbage, ReadError, ClientControl,
      ClientDrop, Terminated, vars
  <2> QED  BY <1>k, <2>1, <2>2 DEF LateInv, Committed
<1> QED
  BY <1>1, <1>2, <1>3, <1>4, <1>5 DEF Next, Read

LEMMA InitLate == Init => LateInv
<1> SUFFICES ASSUME Init, NEW r \in Requests PROVE LateOnce(r)
  BY DEF LateInv
<1>1. pc[r] = "new" /\ late[r] = 0 /\ out[r] = NoFrame /\ NoFrame.kind \notin Late
  BY DEF Init, NoFrame, Late
<1> QED  BY <1>1 DEF LateOnce, Committed

\* After its cancel at most one more chunk or error frame of a request gets
\* through to the writer of the control socket, whatever its protocol and
\* whoever else uses its id.
THEOREM CancelIsPrompt == Spec => []CancelStopsChunks
<1>1. LateInv => CancelStopsChunks
  BY DEF LateInv, LateOnce, CancelStopsChunks
<1> QED
  BY <1>1, InitLate, InitType, StepType, InitRegistry, StepRegistry, StepLate, PTL DEF Spec

-----------------------------------------------------------------------------
(* The order of the frames, and refinement of ResponseStream.              *)

LEMMA AppendLast ==
  ASSUME NEW S, NEW s \in Seq(S), NEW f \in S
  PROVE  /\ Append(s, f) \in Seq(S)
         /\ Append(s, f) # <<>>
         /\ Len(s) \in Nat /\ Len(Append(s, f)) = Len(s) + 1
         /\ Append(s, f)[Len(Append(s, f))] = f
         /\ s # <<>> => Len(Append(s, f)) > 1
         /\ s = <<>> <=> Len(s) = 0
<1>1. /\ Append(s, f) \in Seq(S)
      /\ Len(s) \in Nat /\ Len(Append(s, f)) = Len(s) + 1
      /\ Append(s, f)[Len(s) + 1] = f
  OBVIOUS
<1>2. s = <<>> <=> Len(s) = 0
  OBVIOUS
<1>3. Append(s, f) # <<>>
  BY <1>1
<1>4. s # <<>> => Len(Append(s, f)) > 1
  BY <1>1, <1>2
<1> QED  BY <1>1, <1>2, <1>3, <1>4

LEMMA DepartedType ==
  ASSUME TypeOK, NEW r \in Requests
  PROVE  Departed(r) \in Seq(Frames)
  BY AppendLast DEF Departed, TypeOK

\* The step in which a dispatcher produces a frame that may follow.
LEMMA Produce ==
  ASSUME TypeOK, NEW r \in Requests, FrameInv(r), out[r] = NoFrame,
         sock[ConnOf[r]] = "open", UNCHANGED <<held, stream>>,
         NEW f \in Frames, f # NoFrame, out' = [out EXCEPT ![r] = f],
         Follows(Produced(r), f)
  PROVE  /\ held'[r] # NoFrame => Follows(stream'[r], held'[r])
         /\ out'[r] # NoFrame => Follows(Departed(r)', out'[r])
         /\ Produced(r)' \in Seq(Frames) /\ Produced(r)' # <<>>
         /\ Produced(r)'[Len(Produced(r)')] = f
         /\ Produced(r) # <<>> => Len(Produced(r)') > 1
         /\ Produced(r) = <<>> => Len(Produced(r)') = 1
<1>1. out'[r] = f /\ Departed(r)' = Departed(r) /\ Produced(r) = Departed(r)
  BY DEF TypeOK, Departed, Produced
<1>2. Produced(r)' = Append(Departed(r), f)
  BY <1>1 DEF Produced
<1>3. Departed(r) \in Seq(Frames)
  BY DepartedType
<1> QED  BY <1>1, <1>2, <1>3, AppendLast DEF FrameInv

LEMMA DispatchFrames ==
  ASSUME TypeOK, FramesInv, NEW r \in Requests, Connect(r) \/ Dispatch(r) \/ WsReceive(r)
  PROVE  FramesInv'
<1>t. /\ pc \in [Requests -> Points] /\ out \in [Requests -> Frames]
      /\ chunks \in [Requests -> 0..(MaxChunks + 1)]
      /\ \A q \in Requests : chunks[q] \in Nat
  BY DispatchAssumption DEF TypeOK
<1>0. UNCHANGED <<sock, held, stream>>
  BY DispatchSummary
<1>1. \A q \in Requests \ {r} :
        pc'[q] = pc[q] /\ chunks'[q] = chunks[q] /\ out'[q] = out[q]
  BY DispatchSummary
<1>2. \A q \in Requests \ {r} : FrameInv(q)'
  BY <1>0, <1>1 DEF FramesInv, FrameInv, Departed, Produced
<1>3. FrameInv(r)'
  <2>1. CASE sock[ConnOf[r]] # "open"
    BY <1>0, <2>1 DEF FrameInv
  <2>2. CASE sock[ConnOf[r]] = "open"
    <3>i. FrameInv(r)
      BY DEF FramesInv
    <3>u. ASSUME UNCHANGED dispatchVars
          PROVE  FrameInv(r)'
      BY <3>i, <3>u, <1>0 DEF FrameInv, Departed, Produced, dispatchVars
    <3>m. ASSUME NEW point, Move(r, point), out[r] = NoFrame,
                 \/ point = "defer" /\ Protocol[r] = "websocket"
                 \/ pc[r] = "defer" /\ point = "done"
                 \/ /\ pc[r] \in {"check", "read", "drained"}
                    /\ point \in {"check", "read", "chunk", "last", "error", "drained", "end"}
          PROVE  FrameInv(r)'
      <4>1. UNCHANGED <<out, chunks>> /\ pc'[r] = point
        BY <1>t, <3>m DEF Move, Goto
      <4>2. Departed(r)' = Departed(r) /\ Produced(r)' = Produced(r)
        BY <1>0, <4>1 DEF Departed, Produced
      <4>3. pc[r] \in {"check", "read", "drained"} =>
              LET s == Produced(r)
              IN  s # <<>> /\ s[Len(s)].n = chunks[r]
                    /\ s[Len(s)].kind \in {"response", "data"}
        BY <2>2, <3>i DEF FrameInv
      <4>4. Terminal(Produced(r))' <=> Terminal(Produced(r))
        BY <4>2 DEF Terminal
      <4> QED  BY <1>0, <2>2, <3>i, <3>m, <4>1, <4>2, <4>3, <4>4 DEF FrameInv
    <3>s. ASSUME NEW kind \in {"response", "error", "end"}, NEW point, Send(r, kind, point),
                 out[r] = NoFrame,
                 \/ /\ pc[r] = "connect" /\ kind = "response"
                    /\ point \in {"hello", "check", "read"}
                 \/ pc[r] = "connect" /\ kind = "error" /\ point = "defer"
                 \/ pc[r] = "error" /\ kind = "error" /\ point = "end"
                 \/ pc[r] = "end" /\ kind = "end" /\ point = "defer"
          PROVE  FrameInv(r)'
      <4> DEFINE f == [kind |-> kind, n |-> chunks[r]]
      <4>0. out' = [out EXCEPT ![r] = f] /\ pc'[r] = point /\ chunks' = chunks
        BY <1>t, <3>s DEF Send, Goto
      <4>1. f \in Frames /\ f # NoFrame /\ f.kind = kind /\ f.n = chunks[r]
        BY <1>t DEF Frames, Kinds, NoFrame
      <4>2. pc[r] = "connect" => Produced(r) = <<>> /\ chunks[r] = 0
        BY <2>2, <3>i DEF FrameInv
      <4>3. pc[r] \in {"error", "end"} =>
              LET s == Produced(r)
              IN  /\ s # <<>>
                  /\ s[Len(s)].n = chunks[r]
                  /\ \/ s[Len(s)].kind \in {"response", "data"}
                     \/ pc[r] = "end" /\ s[Len(s)].kind = "error" /\ Len(s) > 1
        BY <2>2, <3>i DEF FrameInv
      <4>4. Follows(Produced(r), f)
        BY <3>s, <4>1, <4>2, <4>3 DEF Follows
      <4> HIDE DEF f
      <4>5. /\ held'[r] # NoFrame => Follows(stream'[r], held'[r])
            /\ out'[r] # NoFrame => Follows(Departed(r)', out'[r])
            /\ Produced(r)' # <<>>
            /\ Produced(r)'[Len(Produced(r)')] = f
            /\ Produced(r) # <<>> => Len(Produced(r)') > 1
            /\ Produced(r) = <<>> => Len(Produced(r)') = 1
        BY <1>0, <2>2, <3>i, <3>s, <4>0, <4>1, <4>4, Produce
      <4>6. point = "defer" => Terminal(Produced(r))'
        BY <3>s, <4>1, <4>2, <4>5 DEF Terminal
      <4> QED  BY <3>s, <4>0, <4>1, <4>3, <4>5, <4>6 DEF FrameInv
    <3>d. ASSUME NEW point \in {"check", "read", "end"}, SendData(r, point),
                 out[r] = NoFrame, pc[r] \in {"hello", "read", "chunk", "last"}
          PROVE  FrameInv(r)'
      <4> DEFINE f == [kind |-> "data", n |-> chunks[r] + 1]
      <4>0. out' = [out EXCEPT ![r] = f] /\ pc'[r] = point /\ chunks'[r] = chunks[r] + 1
        BY <1>t, <3>d DEF SendData, Goto
      <4>1. f \in Frames /\ f # NoFrame /\ f.kind = "data" /\ f.n = chunks[r] + 1
        <5>1. chunks[r] < Bound(r)
          BY <3>d DEF SendData
        <5> QED  BY <5>1, ChunkType DEF NoFrame
      <4>3. LET s == Produced(r)
            IN  /\ s # <<>>
                /\ s[Len(s)].n = chunks[r]
                /\ s[Len(s)].kind \in {"response", "data"}
        BY <2>2, <3>i, <3>d DEF FrameInv
      <4>4. Follows(Produced(r), f)
        BY <4>1, <4>3 DEF Follows
      <4> HIDE DEF f
      <4>5. /\ held'[r] # NoFrame => Follows(stream'[r], held'[r])
            /\ out'[r] # NoFrame => Follows(Departed(r)', out'[r])
            /\ Produced(r)' # <<>>
            /\ Produced(r)'[Len(Produced(r)')] = f
        BY <1>0, <2>2, <3>i, <3>d, <4>0, <4>1, <4>4, Produce
      <4> QED  BY <3>d, <4>0, <4>1, <4>5 DEF FrameInv
    <3>1. CASE Connect(r)
      <4>1. CASE Send(r, "error", "defer")
        BY <3>1, <3>s, <4>1 DEF Connect, HttpConnect, SseConnect, WsConnect, ConnectOn, At
      <4>2. CASE ~Send(r, "error", "defer")
        <5>1. Protocol[r] \in {"http", "sse", "websocket"}
          BY DispatchAssumption
        <5>2. PICK point \in {"hello", "check", "read"} : Send(r, "response", point)
          BY <3>1, <4>2, <5>1 DEF Connect, HttpConnect, SseConnect, WsConnect, ConnectOn
        <5> QED  BY <3>1, <3>s, <5>2 DEF Connect, HttpConnect, SseConnect, WsConnect,
          ConnectOn, At
      <4> QED  BY <4>1, <4>2
    <3>2. CASE HttpRead(r)
      BY <3>2, <3>m DEF HttpRead, At
    <3>12. CASE HttpForward(r)
      BY <3>12, <3>s, <3>d DEF HttpForward, At
    <3>3. CASE HttpEnd(r)
      BY <3>3, <3>s DEF HttpEnd, At
    <3>4. CASE SseCheck(r)
      BY <3>4, <3>m DEF SseCheck, At
    <3>5. CASE SseNextEvent(r)
      BY <3>5, <3>m, <3>d DEF SseNextEvent, At
    <3>6. CASE WsHello(r)
      BY <3>6, <3>d DEF WsHello, At
    <3>7. CASE WsCheck(r)
      BY <3>7, <3>m DEF WsCheck, At
    <3>8. CASE WsReceive(r)
      BY <3>8, <3>m, <3>d DEF WsReceive, At
    <3>9. CASE WsRereadCancelled(r)
      BY <3>9, <3>m DEF WsRereadCancelled, At
    <3>10. CASE Finish(r)
      BY <3>10, <3>m DEF Finish, At
    <3>11. CASE DoNil(r) \/ SseSpin(r) \/ WsRereadPanic(r)
      BY <3>11, <3>u DEF DoNil, SseSpin, WsRereadPanic, vars, dispatchVars
    <3> QED
      BY <3>1, <3>2, <3>3, <3>4, <3>5, <3>6, <3>7, <3>8, <3>9, <3>10, <3>11,
         <3>12 DEF Dispatch
  <2> QED  BY <2>1, <2>2
<1> QED  BY <1>2, <1>3 DEF FramesInv

\* The steps of the writer move a frame on without changing what was produced.
LEMMA WriterFrames ==
  ASSUME TypeOK, FramesInv, NEW r \in Requests, WriterTake(r) \/ WriterWrite(r)
  PROVE  FramesInv'
<1>t. /\ out \in [Requests -> Frames] /\ held \in [Requests -> Frames]
      /\ stream \in [Requests -> Seq(Frames)]
  BY DEF TypeOK
<1>0. UNCHANGED <<sock, pc, chunks>>
  BY DEF WriterTake, WriterWrite, dispatchVars
<1>1. \A q \in Requests \ {r} :
        out'[q] = out[q] /\ held'[q] = held[q] /\ stream'[q] = stream[q]
  BY <1>t DEF WriterTake, WriterWrite, dispatchVars
<1>2. \A q \in Requests \ {r} : FrameInv(q)'
  BY <1>0, <1>1 DEF FramesInv, FrameInv, Departed, Produced
<1>3. ASSUME sock[ConnOf[r]] = "open"
      PROVE  FrameInv(r)'
  <2>i. FrameInv(r)
    BY DEF FramesInv
  <2>1. CASE WriterTake(r)
    <3>1. held[r] = NoFrame /\ out[r] # NoFrame
      BY <2>1 DEF WriterTake, WriterBusy
    <3>2. held'[r] = out[r] /\ out'[r] = NoFrame /\ stream'[r] = stream[r]
      BY <1>t, <2>1 DEF WriterTake
    <3>3. Departed(r) = stream[r] /\ Produced(r)' = Produced(r)
      BY <3>1, <3>2 DEF Departed, Produced
    <3> QED  BY <1>0, <1>3, <2>i, <3>1, <3>2, <3>3 DEF FrameInv
  <2>2. CASE WriterWrite(r)
    <3>1. held[r] # NoFrame /\ held'[r] = NoFrame /\ out'[r] = out[r]
            /\ stream'[r] = Append(stream[r], held[r])
      BY <1>t, <1>3, <2>2 DEF WriterWrite, dispatchVars
    <3>2. Departed(r)' = Departed(r) /\ Produced(r)' = Produced(r)
      BY <3>1 DEF Departed, Produced
    <3> QED  BY <1>0, <1>3, <2>i, <3>1, <3>2 DEF FrameInv
  <2> QED  BY <2>1, <2>2
<1>4. FrameInv(r)'
  BY <1>0, <1>3 DEF FrameInv
<1> QED  BY <1>2, <1>4 DEF FramesInv

LEMMA InitFrames == Init => FramesInv
  BY DispatchAssumption
  DEF Init, FramesInv, FrameInv, Departed, Produced, NoFrame

LEMMA StepFrames == TypeOK /\ RegistryInv /\ FramesInv /\ [Next]_vars => FramesInv'
<1> SUFFICES ASSUME TypeOK, RegistryInv, FramesInv, [Next]_vars PROVE FramesInv'
  OBVIOUS
<1>t. /\ pc \in [Requests -> Points] /\ sock \in [Conns -> {"open", "closed"}]
      /\ ConnOf \in [Requests -> Conns]
  BY DispatchAssumption DEF TypeOK
<1>s. ASSUME UNCHANGED <<out, held, stream, chunks>>,
             \A r \in Requests : sock'[ConnOf[r]] = "open" => sock[ConnOf[r]] = "open",
             \A r \in Requests :
               \/ pc'[r] = pc[r]
               \/ /\ pc[r] \in {"new", "inbox", "handoff", "handoffNil"}
                  /\ pc'[r] \in {"inbox", "handoff", "handoffNil", "doNil", "connect"}
      PROVE  FramesInv'
  <2> SUFFICES ASSUME NEW r \in Requests, sock[ConnOf[r]] = "open" PROVE FrameInv(r)'
    BY <1>s DEF FramesInv, FrameInv
  <2>1. FrameInv(r) /\ Departed(r)' = Departed(r) /\ Produced(r)' = Produced(r)
    BY <1>s DEF FramesInv, Departed, Produced
  <2> QED  BY <1>s, <2>1 DEF FrameInv
<1>1. CASE Terminated \/ UNCHANGED vars
  BY <1>1, <1>s DEF Terminated, vars
<1>2. ASSUME NEW r \in Requests, Connect(r) \/ Dispatch(r) \/ WsReceive(r)
      PROVE  FramesInv'
  BY <1>2, DispatchFrames
<1>3. ASSUME NEW r \in Requests, WriterTake(r) \/ WriterWrite(r)
      PROVE  FramesInv'
  BY <1>3, WriterFrames
<1>4. ASSUME NEW r \in Requests, ClientRequest(r) \/ Handoff(r)
      PROVE  FramesInv'
  BY <1>4, <1>s, <1>t DEF ClientRequest, Handoff, writerVars
<1>5. ASSUME NEW c \in Conns, ClientControl(c) \/ ClientDrop(c)
      PROVE  FramesInv'
  BY <1>5, <1>s, <1>t DEF ClientControl, ClientDrop, writerVars, dispatchVars
<1>6. ASSUME NEW c \in Conns, ReadRequest(c)
      PROVE  FramesInv'
  <2>1. PICK r \in Requests : r = Head(inbox[c]).req
    BY <1>6, InboxType, RequestMessage DEF ReadRequest, ProcessRequest, DispatchSSERequest,
      DispatchWebSocketRequest, Accept, Reject
  <2>2. pc[r] = "inbox"
    BY <1>6, <2>1, ReceiveInbox DEF ReadRequest, ProcessRequest, DispatchSSERequest,
      DispatchWebSocketRequest, Accept, Reject, RegistryInv, InboxInv
  <2> QED  BY <1>6, <1>s, <1>t, <2>1, <2>2 DEF ReadRequest, ProcessRequest, DispatchSSERequest,
      DispatchWebSocketRequest, Accept, Reject, writerVars
<1>7. ASSUME NEW c \in Conns,
             ReadCancel(c) \/ ReadExit(c) \/ ReadGarbage(c) \/ ReadError(c)
      PROVE  FramesInv'
  BY <1>7, <1>s, <1>t
  DEF ReadCancel, ReadExit, ReadGarbage, ReadError, writerVars, dispatchVars
<1> QED
  BY <1>1, <1>2, <1>3, <1>4, <1>5, <1>6, <1>7 DEF Next, Read

-----------------------------------------------------------------------------

\* An HTTP request that has left the registry has been answered: its terminal
\* frame is written or in the writer's hands, unless the control socket is gone.
THEOREM HttpRequestsAnswered == Spec => []HttpAnswered
<1>1. FramesInv => HttpAnswered
  BY DEF FramesInv, FrameInv, HttpAnswered, Produced
<1> QED
  BY <1>1, InitType, StepType, InitRegistry, StepRegistry, InitFrames, StepFrames, PTL
  DEF Spec

\* A frame that may follow is one step of the abstract stream.
LEMMA WriteRefines ==
  ASSUME TypeOK, FramesInv, NEW r \in Requests, WriterWrite(r), sock[ConnOf[r]] = "open"
  PROVE  Promise!Next
<1> DEFINE s == stream[r]
           f == held[r]
           ph == [q \in Requests |-> Phase(stream[q])]
           rc == [q \in Requests |-> IF stream[q] = <<>> THEN 0
                                     ELSE stream[q][Len(stream[q])].n]
<1>1. s \in Seq(Frames) /\ f \in Frames
  BY DEF TypeOK
<1>2. Follows(s, f)
  BY DEF FramesInv, FrameInv, WriterWrite
<1>3. stream' = [stream EXCEPT ![r] = Append(s, f)]
  BY DEF WriterWrite
<1>4. stream'[r] = Append(s, f) /\ \A q \in Requests \ {r} : stream'[q] = stream[q]
  BY <1>3 DEF TypeOK
<1>5. Append(s, f) # <<>> /\ Append(s, f)[Len(Append(s, f))] = f
        /\ Len(Append(s, f)) = Len(s) + 1 /\ Len(s) \in Nat /\ (s = <<>> <=> Len(s) = 0)
  BY <1>1, AppendLast
<1>6. ph' = [ph EXCEPT ![r] = Phase(Append(s, f))]
  BY <1>4
<1>7. rc' = [rc EXCEPT ![r] = f.n]
  BY <1>4, <1>5
<1>8. ph[r] = Phase(s) /\ rc[r] = IF s = <<>> THEN 0 ELSE s[Len(s)].n
  OBVIOUS
<1>9. rc[r] = f.n => rc' = rc
  BY <1>7
<1>10. Phase(Append(s, f)) = CASE f.kind = "end" -> "ended"
                               [] f.kind = "error" -> IF s = <<>> THEN "failed" ELSE "broken"
                               [] OTHER -> "open"
  BY <1>5 DEF Phase
<1>11. s # <<>> => Phase(s) = CASE s[Len(s)].kind = "end" -> "ended"
                                [] s[Len(s)].kind = "error" ->
                                     IF Len(s) = 1 THEN "failed" ELSE "broken"
                                [] OTHER -> "open"
  BY DEF Phase
<1> HIDE DEF ph, rc
<1>12. CASE s = <<>>
  <2>1. ph[r] = "silent" /\ rc' = rc
    BY <1>2, <1>8, <1>9, <1>12 DEF Follows, Phase
  <2>2. CASE f.kind = "error"
    <3>1. ph' = [ph EXCEPT ![r] = "failed"]
      BY <1>6, <1>10, <1>12, <2>2
    <3>2. Promise!Fail(r)
      BY <2>1, <3>1 DEF Promise!Fail, Promise!Step, ph, rc
    <3> QED  BY <3>2 DEF Promise!Next
  <2>3. CASE f.kind = "response"
    <3>1. ph' = [ph EXCEPT ![r] = "open"]
      BY <1>6, <1>10, <1>12, <2>3
    <3>2. Promise!Open(r)
      BY <2>1, <3>1 DEF Promise!Open, Promise!Step, ph, rc
    <3> QED  BY <3>2 DEF Promise!Next
  <2> QED  BY <1>2, <1>12, <2>2, <2>3 DEF Follows
<1>13. CASE s # <<>> /\ s[Len(s)].kind \in {"response", "data"}
  <2>1. ph[r] = "open"
    BY <1>8, <1>11, <1>13
  <2>2. CASE f.kind = "data" /\ f.n = s[Len(s)].n + 1
    <3>1. rc' = [rc EXCEPT ![r] = rc[r] + 1]
      BY <1>7, <1>8, <1>13, <2>2
    <3>2. ph' = ph
      BY <1>6, <1>10, <2>1, <2>2 DEF ph
    <3>3. Promise!Chunk(r)
      BY <2>1, <3>1, <3>2 DEF Promise!Chunk, ph, rc
    <3> QED  BY <3>3 DEF Promise!Next
  <2>3. CASE f.kind = "error" /\ f.n = s[Len(s)].n
    <3>1. ph' = [ph EXCEPT ![r] = "broken"] /\ rc' = rc
      BY <1>6, <1>8, <1>9, <1>10, <1>13, <2>3
    <3>2. Promise!Break(r)
      BY <2>1, <3>1 DEF Promise!Break, Promise!Step, ph, rc
    <3> QED  BY <3>2 DEF Promise!Next
  <2>4. CASE f.kind = "end" /\ f.n = s[Len(s)].n
    <3>1. ph' = [ph EXCEPT ![r] = "ended"] /\ rc' = rc
      BY <1>6, <1>8, <1>9, <1>10, <1>13, <2>4
    <3>2. Promise!End(r)
      BY <2>1, <3>1 DEF Promise!End, Promise!Step, ph, rc
    <3> QED  BY <3>2 DEF Promise!Next
  <2> QED  BY <1>2, <1>13, <2>2, <2>3, <2>4 DEF Follows
<1>14. CASE s # <<>> /\ s[Len(s)].kind = "error"
  <2>1. Len(s) > 1 /\ f.kind = "end" /\ f.n = s[Len(s)].n
    BY <1>2, <1>14 DEF Follows
  <2>2. ph[r] = "broken"
    BY <1>8, <1>11, <1>14, <2>1
  <2>3. ph' = [ph EXCEPT ![r] = "ended"] /\ rc' = rc
    BY <1>6, <1>8, <1>9, <1>10, <1>14, <2>1
  <2>4. Promise!End(r)
    BY <2>2, <2>3 DEF Promise!End, Promise!Step, ph, rc
  <2> QED  BY <2>4 DEF Promise!Next
<1> QED  BY <1>2, <1>12, <1>13, <1>14 DEF Follows

\* The frames written for each request, whatever its protocol and however the
\* goroutines interleave, are a run of ResponseStream: no frame is lost,
\* repeated or reordered between a dispatcher and a live control socket, and
\* nothing follows a terminal frame.
THEOREM StreamRefinement == Spec => StreamContract
<1>1. Init => Promise!Init
  BY DEF Init, Promise!Init, Phase
<1>2. ASSUME TypeOK, FramesInv, [Next]_vars
      PROVE  [Promise!Next]_Promise!vars
  <2>1. CASE UNCHANGED stream
    BY <2>1 DEF Promise!vars
  <2>2. ASSUME NEW r \in Requests, WriterWrite(r), sock[ConnOf[r]] = "open"
        PROVE  Promise!Next
    BY <1>2, <2>2, WriteRefines
  <2>3. ASSUME NEW r \in Requests, WriterWrite(r), sock[ConnOf[r]] # "open"
        PROVE  UNCHANGED stream
    BY <2>3 DEF WriterWrite
  <2>4. ASSUME NEW r \in Requests, Connect(r) \/ Dispatch(r) \/ WsReceive(r)
        PROVE  UNCHANGED stream
    BY <1>2, <2>4, DispatchSummary
  <2>5. ASSUME NEW r \in Requests, ClientRequest(r) \/ Handoff(r) \/ WriterTake(r)
        PROVE  UNCHANGED stream
    BY <2>5 DEF ClientRequest, Handoff, WriterTake, writerVars
  <2>6. ASSUME NEW c \in Conns, ClientControl(c) \/ ClientDrop(c) \/ Read(c)
        PROVE  UNCHANGED stream
    BY <2>6 DEF ClientControl, ClientDrop, Read, ReadRequest, Accept, Reject,
      ReadCancel, ReadExit,
                ReadGarbage, ReadError, writerVars
  <2> QED
    BY <1>2, <2>1, <2>2, <2>3, <2>4, <2>5, <2>6 DEF Next, Terminated, vars
<1>3. Spec => Promise!Spec
  BY <1>1, <1>2, InitType, StepType, InitRegistry, StepRegistry, InitFrames, StepFrames,
     PTL DEF Spec, Promise!Spec
<1> QED  BY <1>3 DEF StreamContract

-----------------------------------------------------------------------------
(* What ClientRequest assumes of the server.                               *)

\* A frame that writeSocket receives is one of the steps ClientRequest allows.
LEMMA TakeServes ==
  ASSUME TypeOK, FramesInv, LateInv, NEW r \in Requests, WriterTake(r),
         sock[ConnOf[r]] = "open"
  PROVE  HttpStep(r)
<1>t. /\ out \in [Requests -> Frames] /\ held \in [Requests -> Frames]
      /\ stream \in [Requests -> Seq(Frames)]
  BY DEF TypeOK
<1>1. PICK s \in Seq(Frames), f \in Frames : s = stream[r] /\ f = out[r]
  BY <1>t
<1>2. held[r] = NoFrame /\ out[r] # NoFrame /\ held'[r] = f /\ f # NoFrame
        /\ stream'[r] = s
  BY <1>t, <1>1 DEF WriterTake, WriterBusy
<1>3. Departed(r) = s /\ Departed(r)' = Append(s, f)
  BY <1>1, <1>2 DEF Departed
<1>4. PICK u \in Seq(Frames) : u = Append(s, f)
  BY AppendLast
<1>5. u # <<>> /\ u[Len(u)] = f /\ (s # <<>> => Len(u) > 1) /\ (s = <<>> => Len(u) = 1)
  BY <1>4, AppendLast
<1>6. Follows(s, f)
  BY <1>1, <1>2, <1>3 DEF FramesInv, FrameInv
<1>7. /\ Emitted(r) = Phase(s) /\ Emitted(r)' = Phase(u)
      /\ LastEmitted(r) = IF s = <<>> THEN 0 ELSE s[Len(s)].n
      /\ LastEmitted(r)' = f.n
  BY <1>3, <1>4, <1>5 DEF Emitted, LastEmitted, Phase
<1>8. f.kind \in Late => (r \in ctxDone => late[r] = 0)
  <2>1. LateOnce(r) /\ late[r] \in Nat
    BY DEF LateInv, TypeOK
  <2> QED  BY <1>1, <2>1 DEF LateOnce
<1>9. CASE s = <<>>
  <2>1. Phase(s) = "silent" /\ f.kind \in {"response", "error"} /\ f.n = 0
    BY <1>6, <1>9 DEF Follows, Phase
  <2>2. Phase(u) \in {"failed", "open"}
    BY <1>5, <1>9, <2>1 DEF Phase
  <2> QED  BY <1>7, <2>1, <2>2 DEF HttpStep
<1>10. CASE s # <<>>
  <2>1. PICK last \in Frames : last = s[Len(s)]
    BY <1>10
  <2>l. Len(u) # 1 /\ (Len(s) > 1 => Len(s) # 1)
    <3>1. \A n \in Nat : n > 1 => n # 1
      OBVIOUS
    <3>2. Len(u) \in Nat /\ Len(s) \in Nat
      OBVIOUS
    <3>3. Len(u) > 1
      BY <1>5, <1>10
    <3> QED  BY <3>1, <3>2, <3>3, Zenon
  <2>2. CASE last.kind \in {"response", "data"} /\ f.kind = "data" /\ f.n = last.n + 1
    <3>1. Phase(s) = "open" /\ Phase(u) = "open" /\ f.kind \in Late
      BY <1>5, <1>10, <2>1, <2>2 DEF Phase, Late
    <3> QED  BY <1>7, <1>8, <1>10, <2>1, <2>2, <3>1 DEF HttpStep
  <2>3. CASE last.kind \in {"response", "data"} /\ f.kind = "error" /\ f.n = last.n
    <3>1. Phase(s) = "open" /\ Phase(u) = "broken" /\ f.kind \in Late
      BY <1>5, <1>10, <2>1, <2>l, <2>3 DEF Phase, Late
    <3> QED  BY <1>7, <1>8, <1>10, <2>1, <2>3, <3>1 DEF HttpStep
  <2>4. CASE last.kind \in {"response", "data"} /\ f.kind = "end" /\ f.n = last.n
    <3>1. Phase(s) = "open" /\ Phase(u) = "ended"
      BY <1>5, <1>10, <2>1, <2>4 DEF Phase
    <3> QED  BY <1>7, <1>10, <2>1, <2>4, <3>1 DEF HttpStep
  <2>5. CASE last.kind = "error" /\ Len(s) > 1 /\ f.kind = "end" /\ f.n = last.n
    <3>1. Phase(s) = "broken" /\ Phase(u) = "ended"
      BY <1>5, <1>10, <2>1, <2>l, <2>5 DEF Phase
    <3> QED  BY <1>7, <1>10, <2>1, <2>5, <3>1 DEF HttpStep
  <2> QED  BY <1>6, <1>10, <2>1, <2>2, <2>3, <2>4, <2>5 DEF Follows
<1> QED  BY <1>9, <1>10

\* Towards the control socket an HTTP dispatcher takes only the steps that
\* ClientRequest allows its server, whoever else shares the socket or the id:
\* what is proved there is proved of clients and this server together.
THEOREM ServerKeepsAssumption == Spec => ServesAsAssumed
<1>1. ASSUME TypeOK, FramesInv, LateInv, [Next]_vars, NEW r \in Requests,
             sock'[ConnOf[r]] = "open"
      PROVE  HttpStep(r) \/ UNCHANGED <<Emitted(r), LastEmitted(r)>>
  <2>t. /\ out \in [Requests -> Frames] /\ held \in [Requests -> Frames]
        /\ stream \in [Requests -> Seq(Frames)] /\ sock \in [Conns -> {"open", "closed"}]
        /\ ConnOf \in [Requests -> Conns]
    BY <1>1, DispatchAssumption DEF TypeOK
  <2>u. ASSUME Departed(r)' = Departed(r)
        PROVE  UNCHANGED <<Emitted(r), LastEmitted(r)>>
    BY <2>u DEF Emitted, LastEmitted, Phase
  <2>k. ASSUME UNCHANGED <<held, stream>>
        PROVE  UNCHANGED <<Emitted(r), LastEmitted(r)>>
    BY <2>k, <2>u DEF Departed
  <2>1. ASSUME NEW q \in Requests, Connect(q) \/ Dispatch(q) \/ WsReceive(q)
        PROVE  UNCHANGED <<Emitted(r), LastEmitted(r)>>
    BY <1>1, <2>1, <2>k, DispatchSummary
  <2>2. ASSUME NEW q \in Requests, WriterTake(q) \/ WriterWrite(q)
        PROVE  HttpStep(r) \/ UNCHANGED <<Emitted(r), LastEmitted(r)>>
    <3>1. sock' = sock
      BY <2>2 DEF WriterTake, WriterWrite
    <3>2. CASE q # r
      <4>1. held'[r] = held[r] /\ stream'[r] = stream[r]
        BY <2>t, <2>2, <3>2 DEF WriterTake, WriterWrite
      <4> QED  BY <2>u, <4>1 DEF Departed
    <3>3. CASE q = r /\ WriterTake(r)
      BY <1>1, <3>1, <3>3, TakeServes
    <3>4. CASE q = r /\ WriterWrite(r)
      <4>1. held[r] # NoFrame /\ held'[r] = NoFrame
            /\ stream'[r] = Append(stream[r], held[r])
        BY <1>1, <2>t, <3>1, <3>4 DEF WriterWrite
      <4> QED  BY <2>u, <4>1 DEF Departed
    <3> QED  BY <2>2, <3>2, <3>3, <3>4
  <2>3. ASSUME NEW q \in Requests, ClientRequest(q) \/ Handoff(q)
        PROVE  UNCHANGED <<Emitted(r), LastEmitted(r)>>
    BY <2>k, <2>3 DEF ClientRequest, Handoff, writerVars
  <2>4. ASSUME NEW c \in Conns, ClientControl(c) \/ ClientDrop(c) \/ Read(c)
        PROVE  UNCHANGED <<Emitted(r), LastEmitted(r)>>
    BY <2>k, <2>4 DEF ClientControl, ClientDrop, Read, ReadRequest, ReadCancel, ReadExit,
      ReadGarbage, ReadError, writerVars
  <2>5. CASE Terminated \/ UNCHANGED vars
    BY <2>k, <2>5 DEF Terminated, vars
  <2> QED  BY <1>1, <2>1, <2>2, <2>3, <2>4, <2>5 DEF Next
<1>2. ASSUME TypeOK, FramesInv, LateInv, [Next]_vars
      PROVE  [\A r \in Requests :
                Protocol[r] = "http" /\ sock'[ConnOf[r]] = "open"
                  => HttpStep(r) \/ UNCHANGED <<Emitted(r), LastEmitted(r)>>]_vars
  BY <1>1, <1>2
<1> QED
  BY <1>2, InitType, StepType, InitRegistry, StepRegistry, InitFrames, StepFrames, InitLate,
     StepLate, PTL
  DEF Spec, ServesAsAssumed

=============================================================================
