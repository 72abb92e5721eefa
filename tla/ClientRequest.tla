---------------------------- MODULE ClientRequest ----------------------------
(***************************************************************************)
(* HTTP requests of TypeScript clients over one control WebSocket          *)
(* (src/index.ts: request, sendRequest, the message handler of             *)
(* createClient), against a server that keeps to ResponseStream, which is  *)
(* what RequestDispatch is shown to do.                                    *)
(*                                                                         *)
(* A frame starts with the id of its request.  The handler finds the       *)
(* client by the id, and the client emits the frame to every listener on   *)
(* that id.  A frame carries, as a ghost, the request the server wrote it  *)
(* for and the number of that request's chunks so far.                     *)
(***************************************************************************)
EXTENDS Naturals, Sequences

CONSTANTS Requests, Ids, Clients, None,
          RequestId,   \* the id of each request, which nobody checks to be new
          ClientOf,    \* the client each request is made on
          Streamed,    \* requests with responseType "stream"
          Endless,     \* streamed requests whose upstream may never end
          MaxChunks    \* bound: chunks of the upstream of each request

ASSUME RequestAssumption ==
  /\ RequestId \in [Requests -> Ids]
  /\ ClientOf \in [Requests -> Clients]
  /\ \A q, r \in Requests : RequestId[q] = RequestId[r] => ClientOf[q] = ClientOf[r]
  /\ Streamed \subseteq Requests /\ Endless \subseteq Streamed
  /\ MaxChunks \in [Requests -> Nat]
  /\ None \notin Requests

VARIABLES
  phase, sent, \* the server's side of each request, see ResponseStream
  cut,         \* requests whose context a cancel has ended
  late,        \* those of them for which a chunk or an error was sent since
  whole,       \* ghost: requests whose body the server has sent to its end
  cancels,     \* ids of cancel messages the server has not read
  wire,        \* frames written and not yet handled
  link,        \* this.server: "up", "dead" (the server is), "closed" (null)
  left,        \* clients that called exit
  promise,     \* of request: "new", "pending", "ok", "error", "rejected"
  listener,    \* on the id: "none", "message" or "data"
  meta,        \* responseMetadata, by the request it belongs to
  readable,    \* the stream of the body: "none", "open", "ended", "destroyed"
  body,        \* what was pushed to it
  failed       \* requests with a bodyReadError

serverVars == <<phase, sent, cut, late, whole>>
responseVars == <<promise, listener, meta, readable, body, failed>>
vars == <<serverVars, cancels, wire, link, left, responseVars>>

Frames == [req : Requests, kind : {"response", "data", "error", "end"}, n : Nat]

TypeOK ==
  /\ phase \in [Requests -> {"silent", "failed", "open", "broken", "ended"}]
  /\ sent \in [Requests -> Nat]
  /\ \A r \in Requests : sent[r] <= MaxChunks[r]
  /\ cut \subseteq Requests /\ late \subseteq cut /\ whole \subseteq Requests
  /\ cancels \subseteq Ids
  /\ wire \in Seq(Frames)
  /\ link \in {"up", "dead", "closed"}
  /\ left \subseteq Clients
  /\ promise \in [Requests -> {"new", "pending", "ok", "error", "rejected"}]
  /\ listener \in [Requests -> {"none", "message", "data"}]
  /\ meta \in [Requests -> Requests \cup {None}]
  /\ readable \in [Requests -> {"none", "open", "ended", "destroyed"}]
  /\ body \in [Requests -> Seq(Frames)]
  /\ failed \subseteq Requests
  /\ \A r \in Requests : listener[r] = "data" => readable[r] # "none" /\ meta[r] # None

Init ==
  /\ phase = [r \in Requests |-> "silent"]
  /\ sent = [r \in Requests |-> 0]
  /\ cut = {} /\ late = {} /\ whole = {} /\ cancels = {}
  /\ wire = <<>>
  /\ link = "up"
  /\ left = {}
  /\ promise = [r \in Requests |-> "new"]
  /\ listener = [r \in Requests |-> "none"]
  /\ meta = [r \in Requests |-> None]
  /\ readable = [r \in Requests |-> "none"]
  /\ body = [r \in Requests |-> <<>>]
  /\ failed = {}

-----------------------------------------------------------------------------
(* The server, as ResponseStream has it.                                   *)

Server == INSTANCE ResponseStream WITH received <- sent

Write(r, kind) ==
  wire' = Append(wire, [req |-> r, kind |-> kind, n |-> sent'[r]])

\* Once its context has ended an HTTP dispatcher sends at most the chunk or
\* error it already holds, and ends the response: ServesAsAssumed of
\* RequestDispatch.
ServerStep(r) ==
  /\ link = "up" /\ promise[r] # "new"
  /\ \/ Server!Fail(r) /\ Write(r, "error") /\ UNCHANGED <<late, whole>>
     \/ Server!Open(r) /\ Write(r, "response") /\ UNCHANGED <<late, whole>>
     \/ /\ r \notin late /\ late' = late \cup ({r} \cap cut)
        /\ \/ sent[r] < MaxChunks[r] /\ Server!Chunk(r) /\ Write(r, "data")
           \/ Server!Break(r) /\ Write(r, "error")
        /\ UNCHANGED whole
     \/ /\ Server!End(r) /\ Write(r, "end")
        /\ whole' = IF phase[r] = "open" /\ r \notin cut THEN whole \cup {r} ELSE whole
        /\ UNCHANGED late
  /\ UNCHANGED <<cut, cancels, link, left, responseVars>>

\* A cancel ends the request that the server's registry has under the id: of
\* requests that share it the registry knows one, or none any more.
ServerCancel(id) ==
  /\ link = "up" /\ id \in cancels
  /\ cancels' = cancels \ {id}
  /\ LET named == {r \in Requests : RequestId[r] = id}
         live == {r \in named : promise[r] # "new" /\ phase[r] \notin {"failed", "ended"}}
     IN  \/ \E r \in live : cut' = cut \cup {r}
         \/ (live = {} \/ \E q, r \in named : q # r) /\ UNCHANGED cut
  /\ UNCHANGED <<phase, sent, late, whole, wire, link, left, responseVars>>

\* The server dies and nobody reconnects.  For the client, frames lost with it
\* are frames not written.
ServerDies ==
  /\ link = "up"
  /\ link' = "dead"
  /\ UNCHANGED <<serverVars, cancels, wire, left, responseVars>>

-----------------------------------------------------------------------------
(* request and sendRequest.                                                *)

\* sendRequest throws when there is no WebSocket.  A message to a dead server
\* is dropped without an error.
SendRequestThrows == link = "closed"

\* The listener is in place before any frame can be handled.
Issue(r) ==
  /\ promise[r] = "new"
  /\ IF SendRequestThrows
     THEN promise' = [promise EXCEPT ![r] = "rejected"] /\ UNCHANGED listener
     ELSE /\ promise' = [promise EXCEPT ![r] = "pending"]
          /\ listener' = [listener EXCEPT ![r] = "message"]
  /\ UNCHANGED <<serverVars, cancels, wire, link, left, meta, readable, body, failed>>

Hearers(f, kind) ==
  {r \in Requests : /\ RequestId[r] = RequestId[f.req] /\ ClientOf[r] \notin left
                    /\ listener[r] = kind}

Put(fun, S, v) == [r \in Requests |-> IF r \in S THEN v ELSE fun[r]]

\* Mutants: the frame that installs handleData is lost; the end of the body
\* does not end the stream.
OnBodyLosesFirst(f, S) ==
  LET into == {r \in S : readable[r] = "open"}
  IN  /\ readable' = IF f.kind = "data" THEN readable ELSE Put(readable, into, "ended")
      /\ body' = [r \in Requests |-> IF r \in into /\ f.kind = "data"
                                      THEN Append(body[r], f) ELSE body[r]]
      /\ listener' = Put(listener, S, IF f.kind = "data" THEN "data" ELSE "none")
OnBodyNoEnd(f, S) ==
  LET into == {r \in S : readable[r] \in {"none", "open"}}
  IN  /\ readable' = Put(readable, into, "open")
      /\ body' = [r \in Requests |-> IF r \in into /\ f.kind = "data"
                                      THEN Append(body[r], f) ELSE body[r]]
      /\ listener' = Put(listener, S, IF f.kind = "data" THEN "data" ELSE "none")

\* Mutant: a destroyed stream is pushed to.
OnBodyRevives(f, S) ==
  /\ readable' = Put(readable, S, IF f.kind = "data" THEN "open" ELSE "ended")
  /\ body' = [r \in Requests |-> IF r \in S /\ f.kind = "data"
                                  THEN Append(body[r], f) ELSE body[r]]
  /\ listener' = Put(listener, S, IF f.kind = "data" THEN "data" ELSE "none")

\* handleData, for the requests in S: the frame that installs it is handled
\* by it as well.  Nothing is pushed to a stream that was destroyed.
OnBody(f, S) ==
  LET into == {r \in S : readable[r] \in {"none", "open"}}
  IN  /\ readable' = Put(readable, into, IF f.kind = "data" THEN "open" ELSE "ended")
      /\ body' = [r \in Requests |-> IF r \in into /\ f.kind = "data"
                                      THEN Append(body[r], f) ELSE body[r]]
      /\ listener' = Put(listener, S, IF f.kind = "data" THEN "data" ELSE "none")

OpenIn(S) == {r \in S : readable[r] = "open"}

\* Mutants: bodyReadError is not recorded; the listener stays.
OnErrorUnrecorded(waiting, reading) ==
  /\ promise' = Put(promise, waiting, "error")
  /\ readable' = Put(readable, OpenIn(reading), "ended")
  /\ listener' = Put(listener, waiting \cup reading, "none")
  /\ UNCHANGED failed
OnErrorKeepsListener(waiting, reading) ==
  /\ promise' = Put(promise, waiting, "error")
  /\ readable' = Put(readable, OpenIn(reading), "ended")
  /\ failed' = failed \cup reading
  /\ UNCHANGED listener

\* An error before the body settles the request, one inside the body ends the
\* stream and is remembered.
OnError(waiting, reading) ==
  /\ promise' = Put(promise, waiting, "error")
  /\ readable' = Put(readable, OpenIn(reading), "ended")
  /\ listener' = Put(listener, waiting \cup reading, "none")
  /\ failed' = failed \cup reading

\* The next frame is handled.
Handle ==
  /\ wire # <<>>
  /\ wire' = Tail(wire)
  /\ LET f == Head(wire)
         waiting == Hearers(f, "message")
         first == {r \in waiting : meta[r] # None}
         reading == Hearers(f, "data")
     IN  \/ /\ f.kind = "response"
            /\ meta' = Put(meta, waiting, f.req)
            /\ UNCHANGED <<promise, listener, readable, body, failed>>
         \/ /\ f.kind = "error"
            /\ OnError(waiting, reading)
            /\ UNCHANGED <<meta, body>>
         \/ /\ f.kind \in {"data", "end"}
            /\ OnBody(f, first \cup reading)
            /\ promise' = Put(promise, first \cap Streamed, "ok")
            /\ UNCHANGED <<meta, failed>>
  /\ UNCHANGED <<serverVars, cancels, link, left>>

\* streamToBuffer has seen the end of the body of a buffered response.
Collect(r) ==
  /\ promise[r] = "pending" /\ readable[r] = "ended"
  /\ promise' = [promise EXCEPT ![r] = IF r \in failed THEN "error" ELSE "ok"]
  /\ UNCHANGED <<serverVars, cancels, wire, link, left, listener, meta, readable, body,
                 failed>>

\* Mutant: nobody listens to the close of the stream.
DestroySilent(r) ==
  /\ r \in Streamed /\ readable[r] = "open"
  /\ readable' = [readable EXCEPT ![r] = "destroyed"]
  /\ UNCHANGED <<serverVars, cancels, wire, link, left, promise, listener, meta, body,
                 failed>>

\* The program destroys a live stream: handleClose cancels the request.
Destroy(r) ==
  /\ r \in Streamed /\ readable[r] = "open"
  /\ readable' = [readable EXCEPT ![r] = "destroyed"]
  /\ cancels' = IF link = "up" THEN cancels \cup {RequestId[r]} ELSE cancels
  /\ UNCHANGED <<serverVars, wire, link, left, promise, listener, meta, body, failed>>

\* exit: the client is forgotten with all its listeners.  The last one closes
\* the WebSocket.
Exit(c) ==
  /\ c \notin left
  /\ left' = left \cup {c}
  /\ listener' = Put(listener, {r \in Requests : ClientOf[r] = c}, "none")
  /\ IF left' = Clients THEN link' = "closed" /\ wire' = <<>> ELSE UNCHANGED <<link, wire>>
  /\ UNCHANGED <<serverVars, cancels, promise, meta, readable, body, failed>>

-----------------------------------------------------------------------------
Next ==
  \/ ServerDies \/ Handle
  \/ \E r \in Requests : ServerStep(r) \/ Issue(r) \/ Collect(r) \/ Destroy(r)
  \/ \E id \in Ids : ServerCancel(id)
  \/ \E c \in Clients : Exit(c)

Spec == Init /\ [][Next]_vars

\* A server that has begun to answer goes on (HttpTerminates of RequestDispatch).
\* It need not begin: nothing limits its handshake with the upstream.  An
\* endless upstream owes its end only after a cancel.
Answering(r) == phase[r] # "silent" /\ (r \notin Endless \/ phase[r] # "open" \/ r \in cut)

Fairness ==
  /\ WF_vars(Handle) /\ WF_vars(\E r \in Requests : Collect(r))
  /\ WF_vars(\E id \in Ids : ServerCancel(id))
  /\ \A r \in Requests : WF_vars(Answering(r) /\ ServerStep(r))

FairSpec == Spec /\ Fairness

-----------------------------------------------------------------------------
(* Properties.                                                             *)

Distinct == \A q, r \in Requests : RequestId[q] = RequestId[r] => q = r
Reachable(r) == link = "up" /\ ClientOf[r] \notin left

\* With distinct ids a successful response carries the headers and the chunks
\* of its own request, in order and from the first; and a body that was
\* buffered, or a stream that ended without an error, has all of them.
OwnBody ==
  Distinct => \A r \in Requests :
    promise[r] = "ok" =>
      /\ meta[r] = r
      /\ \A i \in DOMAIN body[r] : body[r][i] = [req |-> r, kind |-> "data", n |-> i]
      /\ readable[r] = "ended" /\ r \notin failed => r \in whole /\ Len(body[r]) = sent[r]
      /\ r \notin Streamed => readable[r] = "ended" /\ r \notin failed

\* A listener stays only while the frame that removes it is still to come.
NoListenerLeak ==
  Distinct => \A r \in Requests :
    listener[r] # "none" /\ Reachable(r) =>
      \/ phase[r] \notin {"failed", "ended"}
      \/ \E i \in DOMAIN wire : wire[i].req = r /\ wire[i].kind \in {"error", "end"}

\* What the closures of request do with each frame implements the abstract
\* ResponseDelivery, also when requests share an id and hear each other's
\* frames: a promise settles once, a body begins only for a request still
\* waiting and is never pushed to after its end or its destruction.
Delivery == INSTANCE ResponseDelivery
              WITH stream <- readable, pushed <- [r \in Requests |-> Len(body[r])]
DeliveryContract == Delivery!Spec

\* Every request the server has begun to answer settles, and its stream ends,
\* unless the server dies or the client leaves.
Settles ==
  \A r \in Requests \ Endless :
    phase[r] # "silent" /\ (promise[r] = "pending" \/ readable[r] = "open") ~>
      ~Reachable(r) \/ (promise[r] # "pending" /\ readable[r] # "open")

\* With distinct ids (those of the run): a program that gives up on a download
\* stops it at the server.
CancelReachesServer ==
  \A r \in Requests :
    readable[r] = "destroyed" ~> (phase[r] \in {"failed", "ended"} \/ link # "up")

-----------------------------------------------------------------------------
(* Inductive strengthening, for the proofs.                                *)

\* What listener, promise and stream of a request say of each other, whoever
\* else hears its frames.
Consistent(r) ==
  /\ promise[r] = "new" => listener[r] = "none" /\ readable[r] = "none"
  /\ readable[r] = "none" => body[r] = <<>>
  /\ listener[r] = "message" => promise[r] = "pending" /\ readable[r] = "none"
  /\ listener[r] = "data" => readable[r] \in {"open", "destroyed"}
  /\ readable[r] # "none" /\ r \in Streamed => promise[r] = "ok"

DeliveryInv == \A r \in Requests : Consistent(r)

\* Places of the frames of r on the wire.
Of(r) == {i \in DOMAIN wire : wire[i].req = r}

Hears(r) == listener[r] # "none" /\ ClientOf[r] \notin left

\* The last frame the client has handled for r, as its listener remembers it.
Seen(r) ==
  [req |-> r, n |-> Len(body[r]),
   kind |-> IF listener[r] = "data" THEN "data"
            ELSE IF meta[r] = None THEN "none" ELSE "response"]

\* Frame f may come right after frame g.  After a terminal frame nobody
\* listens.
Follows(g, f) ==
  \/ g.kind \in {"error", "end"}
  \/ g.kind = "none" /\ f.kind \in {"response", "error"} /\ f.n = 0
  \/ /\ g.kind \in {"response", "data"}
     /\ \/ f.kind = "data" /\ f.n = g.n + 1
        \/ f.kind = "error"
        \/ f.kind = "end" /\ f.n = g.n /\ f.req \in whole \cup cut

\* The next frame the listener of r may be given.  The body of a destroyed
\* stream is not counted any more.
Fits(r, f) == IF readable[r] = "destroyed" THEN f.kind \in {"data", "error", "end"}
              ELSE Follows(Seen(r), f)

\* Every frame of r follows the one before it, and the first what the client
\* has seen.
Ordered(r) ==
  /\ \A i, j \in Of(r) : i < j /\ (\A k \in Of(r) : k <= i \/ j <= k)
                          => Follows(wire[i], wire[j])
  /\ \A j \in Of(r) : (\A k \in Of(r) : j <= k) /\ Hears(r) => Fits(r, wire[j])

\* g is the last frame the server wrote for r.
Agrees(r, g) ==
  /\ g.kind = "none" => phase[r] = "silent" /\ sent[r] = 0
  /\ g.kind \in {"response", "data"} => phase[r] = "open" /\ sent[r] = g.n

\* The last frame on the wire, or seen when there is none, is the server's.
UpToDate(r) ==
  \/ \E i \in Of(r) : (\A k \in Of(r) : k <= i) /\ Agrees(r, wire[i])
  \/ /\ Of(r) = {}
     /\ Hears(r) => IF readable[r] = "destroyed" THEN phase[r] = "open"
                    ELSE Agrees(r, Seen(r))

\* The server is done with a request whose end frame it wrote.
Final(r) ==
  \A j \in Of(r) : wire[j].kind = "end" => phase[r] = "ended" /\ wire[j].n = sent[r]

\* Nothing is cancelled but what its own program destroyed.
CutByOwner(r) == r \in cut \/ RequestId[r] \in cancels => readable[r] = "destroyed"

\* What the closures of request have gathered.
Gathered(r) ==
  /\ promise[r] = "new" => /\ phase[r] = "silent" /\ sent[r] = 0 /\ Of(r) = {}
                           /\ listener[r] = "none" /\ meta[r] = None
                           /\ readable[r] = "none" /\ body[r] = <<>>
  /\ meta[r] \in {None, r}
  /\ readable[r] # "none" => meta[r] = r
  /\ listener[r] = "message" => readable[r] = "none" /\ body[r] = <<>>
  /\ readable[r] = "ended" => listener[r] = "none"
  /\ \A i \in DOMAIN body[r] : body[r][i] = [req |-> r, kind |-> "data", n |-> i]
  /\ readable[r] = "ended" /\ r \notin failed =>
       phase[r] = "ended" /\ r \in whole /\ Len(body[r]) = sent[r]
  /\ promise[r] = "ok" => /\ meta[r] = r
                          /\ r \notin Streamed => readable[r] = "ended" /\ r \notin failed

Sound(r) == Ordered(r) /\ UpToDate(r) /\ Final(r) /\ CutByOwner(r) /\ Gathered(r)

ResponseInv == Distinct => \A r \in Requests : Sound(r)

=============================================================================
