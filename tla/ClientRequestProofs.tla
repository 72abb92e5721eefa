------------------------ MODULE ClientRequestProofs ------------------------
(* Theorems about ClientRequest. *)
EXTENDS ClientRequest, TLAPS

LEMMA NextCases ==
  ASSUME NEW P,
         ASSUME NEW r \in Requests, ServerStep(r) PROVE P,
         ASSUME NEW id \in Ids, ServerCancel(id) PROVE P,
         ASSUME ServerDies PROVE P,
         ASSUME NEW r \in Requests, Issue(r) PROVE P,
         ASSUME Handle PROVE P,
         ASSUME NEW r \in Requests, Collect(r) PROVE P,
         ASSUME NEW r \in Requests, Destroy(r) PROVE P,
         ASSUME NEW c \in Clients, Exit(c) PROVE P,
         ASSUME UNCHANGED vars PROVE P,
         [Next]_vars
  PROVE  P
  BY DEF Next

-----------------------------------------------------------------------------
(* Types.                                                                  *)

\* What a step of the server writes and how far it gets.
LEMMA ServerStepEffect ==
  ASSUME TypeOK, NEW r \in Requests, ServerStep(r)
  PROVE  /\ link = "up" /\ promise[r] # "new"
         /\ UNCHANGED <<cut, cancels, link, left, responseVars>>
         /\ whole' \in {whole, whole \cup {r}} /\ late' \subseteq late \cup cut
         /\ \A q \in Requests \ {r} : phase'[q] = phase[q] /\ sent'[q] = sent[q]
         /\ \E kind \in {"response", "data", "error", "end"} :
              /\ wire' = Append(wire, [req |-> r, kind |-> kind, n |-> sent'[r]])
              /\ \/ /\ kind = "error" /\ phase[r] = "silent" /\ phase'[r] = "failed"
                    /\ sent'[r] = sent[r]
                 \/ /\ kind = "response" /\ phase[r] = "silent" /\ phase'[r] = "open"
                    /\ sent'[r] = sent[r]
                 \/ /\ kind = "data" /\ phase[r] = "open" /\ phase'[r] = "open"
                    /\ sent[r] < MaxChunks[r] /\ sent'[r] = sent[r] + 1
                 \/ /\ kind = "error" /\ phase[r] = "open" /\ phase'[r] = "broken"
                    /\ sent'[r] = sent[r]
                 \/ /\ kind = "end" /\ phase[r] \in {"open", "broken"} /\ phase'[r] = "ended"
                    /\ sent'[r] = sent[r]
                    /\ phase[r] = "open" => r \in whole' \cup cut
         /\ phase' \in [Requests -> {"silent", "failed", "open", "broken", "ended"}]
         /\ sent' \in [Requests -> Nat] /\ sent'[r] <= MaxChunks[r]
<1>0. MaxChunks[r] \in Nat /\ sent[r] \in Nat /\ sent[r] <= MaxChunks[r]
  BY RequestAssumption DEF TypeOK
<1> USE DEF TypeOK, ServerStep, Write, Server!Step
<1>1. CASE Server!Fail(r) /\ Write(r, "error") /\ UNCHANGED <<late, whole>>
  BY <1>0, <1>1 DEF Server!Fail
<1>2. CASE Server!Open(r) /\ Write(r, "response") /\ UNCHANGED <<late, whole>>
  BY <1>0, <1>2 DEF Server!Open
<1>3. CASE /\ sent[r] < MaxChunks[r] /\ Server!Chunk(r) /\ Write(r, "data")
           /\ late' = late \cup ({r} \cap cut) /\ UNCHANGED whole
  BY <1>0, <1>3 DEF Server!Chunk
<1>4. CASE /\ Server!Break(r) /\ Write(r, "error")
           /\ late' = late \cup ({r} \cap cut) /\ UNCHANGED whole
  BY <1>0, <1>4 DEF Server!Break
<1>5. CASE /\ Server!End(r) /\ Write(r, "end")
           /\ whole' = IF phase[r] = "open" /\ r \notin cut THEN whole \cup {r} ELSE whole
           /\ UNCHANGED late
  BY <1>0, <1>5 DEF Server!End
<1> QED  BY <1>1, <1>2, <1>3, <1>4, <1>5

LEMMA AppendPoints ==
  ASSUME NEW S, NEW s \in Seq(S), NEW e \in S
  PROVE  /\ Append(s, e) \in Seq(S)
         /\ DOMAIN Append(s, e) = DOMAIN s \cup {Len(s) + 1}
         /\ Len(s) \in Nat /\ DOMAIN s = 1..Len(s)
         /\ Append(s, e)[Len(s) + 1] = e
         /\ \A i \in DOMAIN s : Append(s, e)[i] = s[i]
  OBVIOUS

LEMMA TailPoints ==
  ASSUME NEW S, NEW s \in Seq(S), s # <<>>
  PROVE  /\ Tail(s) \in Seq(S)
         /\ Head(s) \in S /\ Head(s) = s[1]
         /\ Len(s) \in Nat /\ DOMAIN s = 1..Len(s) /\ 1 \in DOMAIN s
         /\ DOMAIN Tail(s) = 1..(Len(s) - 1)
         /\ \A i \in DOMAIN Tail(s) : i + 1 \in DOMAIN s /\ Tail(s)[i] = s[i + 1]
  OBVIOUS

\* What Put writes, and that it keeps the range.
LEMMA PutPoints ==
  ASSUME NEW T, NEW fun \in [Requests -> T], NEW S, NEW v \in T
  PROVE  /\ Put(fun, S, v) \in [Requests -> T]
         /\ \A r \in Requests : Put(fun, S, v)[r] = IF r \in S THEN v ELSE fun[r]
  BY DEF Put

\* The handler's assignments, request by request.
LEMMA HandleTypes ==
  ASSUME TypeOK, Handle
  PROVE  TypeOK'
<1> DEFINE f == Head(wire)
           waiting == Hearers(f, "message")
           first == {r \in waiting : meta[r] # None}
           reading == Hearers(f, "data")
<1>1. f \in Frames /\ Tail(wire) \in Seq(Frames) /\ wire' = Tail(wire)
      /\ UNCHANGED <<serverVars, cancels, link, left>>
  BY TailPoints DEF TypeOK, Handle
<1>2. f.req \in Requests
  BY <1>1 DEF Frames
<1>3. CASE f.kind = "response"
  <2>1. UNCHANGED <<promise, listener, readable, body, failed>>
        /\ meta' = Put(meta, waiting, f.req)
    BY <1>3, Zenon DEF Handle
  <2>2. meta' \in [Requests -> Requests \cup {None}]
        /\ \A r \in Requests : meta'[r] \in {meta[r], f.req}
    BY <2>1, <1>2, PutPoints DEF TypeOK, Put
  <2> QED  BY <1>1, <1>2, <2>1, <2>2, RequestAssumption DEF TypeOK, serverVars
<1>4. CASE f.kind = "error"
  <2>1. UNCHANGED <<meta, body>> /\ OnError(waiting, reading)
    BY <1>4, Zenon DEF Handle
  <2>2. /\ promise' \in [Requests -> {"new", "pending", "ok", "error", "rejected"}]
        /\ readable' \in [Requests -> {"none", "open", "ended", "destroyed"}]
        /\ listener' \in [Requests -> {"none", "message", "data"}]
        /\ \A r \in Requests : listener'[r] \in {listener[r], "none"}
                               /\ readable'[r] \in {readable[r], "ended"}
        /\ failed' \subseteq Requests
    BY <2>1 DEF TypeOK, OnError, Put, Hearers
  <2> QED  BY <1>1, <2>1, <2>2 DEF TypeOK, serverVars
<1>5. CASE f.kind \in {"data", "end"}
  <2> DEFINE S == first \cup reading
  <2>1. /\ OnBody(f, S) /\ UNCHANGED <<meta, failed>>
        /\ promise' = Put(promise, first \cap Streamed, "ok")
    BY <1>5, Zenon DEF Handle
  <2>2. promise' \in [Requests -> {"new", "pending", "ok", "error", "rejected"}]
    BY <2>1 DEF TypeOK, Put
  <2>3. \A r \in S : meta[r] # None
    BY DEF TypeOK, Hearers
  <2>4. body' \in [Requests -> Seq(Frames)]
    BY <1>1, <2>1 DEF TypeOK, OnBody
  <2>5. /\ readable' \in [Requests -> {"none", "open", "ended", "destroyed"}]
        /\ listener' \in [Requests -> {"none", "message", "data"}]
        /\ \A r \in S : readable'[r] # "none"
        /\ \A r \in Requests \ S : listener'[r] = listener[r] /\ readable'[r] = readable[r]
    <3>1. \A r \in Requests :
            /\ readable'[r] = IF r \in S /\ readable[r] \in {"none", "open"}
                              THEN IF f.kind = "data" THEN "open" ELSE "ended"
                              ELSE readable[r]
            /\ listener'[r] = IF r \in S THEN IF f.kind = "data" THEN "data" ELSE "none"
                              ELSE listener[r]
      BY <2>1, Zenon DEF OnBody, Put, Hearers
    <3>2. readable' = [r \in Requests |-> readable'[r]]
          /\ listener' = [r \in Requests |-> listener'[r]]
      BY <2>1, Zenon DEF OnBody, Put
    <3>3. S \subseteq Requests
      BY DEF Hearers
    <3>4. \A r \in Requests : readable[r] \in {"none", "open", "ended", "destroyed"}
                              /\ listener[r] \in {"none", "message", "data"}
      BY DEF TypeOK
    <3> HIDE DEF S
    <3> QED  BY <3>1, <3>2, <3>3, <3>4
  <2> HIDE DEF S
  <2>6. \A r \in Requests : listener'[r] = "data" => readable'[r] # "none" /\ meta'[r] # None
    BY <2>1, <2>3, <2>5 DEF TypeOK
  <2> QED  BY <1>1, <2>1, <2>2, <2>4, <2>5, <2>6 DEF TypeOK, serverVars
<1> QED  BY <1>1, <1>3, <1>4, <1>5 DEF Frames

\* The variables keep their types: a server sends at most MaxChunks chunks of a
\* request, and who waits for data has the headers and a stream.
THEOREM TypeCorrect == Spec => []TypeOK
<1>1. Init => TypeOK
  BY RequestAssumption DEF Init, TypeOK
<1>2. TypeOK /\ [Next]_vars => TypeOK'
  <2> SUFFICES ASSUME TypeOK, [Next]_vars PROVE TypeOK'
    OBVIOUS
  <2>1. ASSUME NEW r \in Requests, ServerStep(r) PROVE TypeOK'
    <3>1. /\ UNCHANGED <<cut, cancels, link, left, responseVars>>
          /\ whole' \in {whole, whole \cup {r}} /\ late' \subseteq late \cup cut
          /\ \A q \in Requests \ {r} : sent'[q] = sent[q]
          /\ phase' \in [Requests -> {"silent", "failed", "open", "broken", "ended"}]
          /\ sent' \in [Requests -> Nat] /\ sent'[r] <= MaxChunks[r]
      BY <2>1, ServerStepEffect
    <3>2. PICK kind \in {"response", "data", "error", "end"} :
            wire' = Append(wire, [req |-> r, kind |-> kind, n |-> sent'[r]])
      BY <2>1, ServerStepEffect
    <3>3. wire' \in Seq(Frames)
      BY <3>1, <3>2 DEF TypeOK, Frames
    <3>4. \A q \in Requests : sent'[q] <= MaxChunks[q]
      BY <3>1 DEF TypeOK
    <3> QED  BY <3>1, <3>3, <3>4 DEF TypeOK, responseVars
  <2>2. ASSUME NEW id \in Ids, ServerCancel(id) PROVE TypeOK'
    BY <2>2 DEF TypeOK, ServerCancel, responseVars
  <2>3. ASSUME ServerDies PROVE TypeOK'
    BY <2>3 DEF TypeOK, ServerDies, serverVars, responseVars
  <2>4. ASSUME NEW r \in Requests, Issue(r) PROVE TypeOK'
    BY <2>4 DEF TypeOK, Issue, serverVars
  <2>5. ASSUME Handle PROVE TypeOK'
    BY <2>5, HandleTypes
  <2>6. ASSUME NEW r \in Requests, Collect(r) PROVE TypeOK'
    BY <2>6 DEF TypeOK, Collect, serverVars
  <2>7. ASSUME NEW r \in Requests, Destroy(r) PROVE TypeOK'
    <3>1. /\ UNCHANGED <<serverVars, wire, link, left, promise, listener, meta, body, failed>>
          /\ readable' = [readable EXCEPT ![r] = "destroyed"]
          /\ cancels' = cancels \/ cancels' = cancels \cup {RequestId[r]}
      BY <2>7 DEF Destroy
    <3>2. RequestId[r] \in Ids /\ cancels \subseteq Ids
      BY RequestAssumption DEF TypeOK
    <3>3. readable' \in [Requests -> {"none", "open", "ended", "destroyed"}]
      BY <3>1 DEF TypeOK
    <3>4. \A q \in Requests : readable[q] # "none" => readable'[q] # "none"
      BY <3>1 DEF TypeOK
    <3> QED  BY <3>1, <3>2, <3>3, <3>4 DEF TypeOK, serverVars
  <2>8. ASSUME NEW c \in Clients, Exit(c) PROVE TypeOK'
    <3>1. /\ UNCHANGED <<serverVars, cancels, promise, meta, readable, body, failed>>
          /\ left' = left \cup {c}
          /\ wire' = wire \/ wire' = <<>>
          /\ link' = link \/ link' = "closed"
      BY <2>8 DEF Exit
    <3>2. /\ listener' \in [Requests -> {"none", "message", "data"}]
          /\ \A q \in Requests : listener'[q] \in {listener[q], "none"}
      BY <2>8 DEF TypeOK, Exit, Put
    <3>3. left' \subseteq Clients
      BY <3>1 DEF TypeOK
    <3>5. link' \in {"up", "dead", "closed"}
      BY <3>1 DEF TypeOK
    <3>6. wire' \in Seq(Frames)
      <4>1. wire \in Seq(Frames) /\ <<>> \in Seq(Frames)
        BY DEF TypeOK
      <4> QED  BY <3>1, <4>1
    <3>4. \A q \in Requests : listener'[q] = "data" => readable'[q] # "none" /\ meta'[q] # None
      BY <3>1, <3>2 DEF TypeOK
    <3> QED  BY <3>1, <3>2, <3>3, <3>4, <3>5, <3>6 DEF TypeOK, serverVars
  <2>9. ASSUME UNCHANGED vars PROVE TypeOK'
    BY <2>9 DEF TypeOK, vars, serverVars, responseVars
  <2> QED  BY <2>1, <2>2, <2>3, <2>4, <2>5, <2>6, <2>7, <2>8, <2>9, NextCases
<1> QED  BY <1>1, <1>2, PTL DEF Spec

-----------------------------------------------------------------------------
(* Where the frames of a request are on the wire.                          *)

LEMMA OfAppend ==
  ASSUME TypeOK, NEW q \in Requests, NEW f \in Frames, wire' = Append(wire, f)
  PROVE  /\ Of(q)' = IF f.req = q THEN Of(q) \cup {Len(wire) + 1} ELSE Of(q)
         /\ \A i \in Of(q) : i \in Nat /\ i < Len(wire) + 1 /\ wire'[i] = wire[i]
         /\ Len(wire) + 1 \in Nat /\ wire'[Len(wire) + 1] = f
<1>1. wire \in Seq(Frames)
  BY DEF TypeOK
<1>2. /\ DOMAIN wire' = DOMAIN wire \cup {Len(wire) + 1}
      /\ Len(wire) \in Nat /\ DOMAIN wire = 1..Len(wire)
      /\ wire'[Len(wire) + 1] = f
      /\ \A i \in DOMAIN wire : wire'[i] = wire[i]
  BY <1>1, AppendPoints
<1> QED  BY <1>2 DEF Of

LEMMA OfTail ==
  ASSUME TypeOK, NEW q \in Requests, wire # <<>>, wire' = Tail(wire)
  PROVE  /\ \A i \in Of(q)' : i \in Nat /\ i >= 1 /\ i + 1 \in Of(q) /\ wire'[i] = wire[i + 1]
         /\ \A i \in Of(q) : /\ i \in Nat /\ i >= 1
                             /\ i > 1 => i - 1 \in Of(q)' /\ wire'[i - 1] = wire[i]
         /\ 1 \in Of(q) <=> Head(wire).req = q
         /\ wire[1] = Head(wire) /\ Head(wire) \in Frames
<1>1. wire \in Seq(Frames)
  BY DEF TypeOK
<1>2. /\ Head(wire) \in Frames /\ Head(wire) = wire[1]
      /\ Len(wire) \in Nat /\ DOMAIN wire = 1..Len(wire) /\ 1 \in DOMAIN wire
      /\ DOMAIN wire' = 1..(Len(wire) - 1)
      /\ \A i \in DOMAIN wire' : i + 1 \in DOMAIN wire /\ wire'[i] = wire[i + 1]
  BY <1>1, TailPoints
<1>3. \A i \in Of(q)' : i \in Nat /\ i >= 1 /\ i + 1 \in Of(q) /\ wire'[i] = wire[i + 1]
  BY <1>2 DEF Of
<1>4. ASSUME NEW i \in Of(q)
      PROVE  /\ i \in Nat /\ i >= 1
             /\ i > 1 => i - 1 \in Of(q)' /\ wire'[i - 1] = wire[i]
  <2>1. i \in 1..Len(wire) /\ wire[i].req = q
    BY <1>2 DEF Of
  <2>2. CASE i > 1
    <3>1. i - 1 \in DOMAIN wire' /\ (i - 1) + 1 = i
      BY <1>2, <2>1, <2>2
    <3>2. wire'[i - 1] = wire[i]
      BY <1>2, <3>1
    <3> QED  BY <2>1, <3>1, <3>2 DEF Of
  <2> QED  BY <2>1, <2>2
<1>5. 1 \in Of(q) <=> Head(wire).req = q
  BY <1>2 DEF Of
<1> QED  BY <1>2, <1>3, <1>4, <1>5

\* Frames on the wire are frames.
LEMMA OfFrames ==
  ASSUME TypeOK, NEW q \in Requests, NEW i \in Of(q)
  PROVE  wire[i] \in Frames /\ wire[i].req = q /\ i \in Nat
<1>1. wire \in Seq(Frames) /\ i \in DOMAIN wire /\ wire[i].req = q
  BY DEF TypeOK, Of
<1> QED  BY <1>1

\* A step that leaves a request and its frames alone keeps what is known of
\* it, whatever bodies it completes and whatever it cancels.
LEMMA SoundKept ==
  ASSUME NEW q \in Requests, Sound(q), CutByOwner(q)', TypeOK,
         UNCHANGED <<phase[q], sent[q], promise[q], listener[q], meta[q], readable[q],
                     body[q]>>,
         Hears(q)' => Hears(q),
         q \in whole => q \in whole', q \in cut => q \in cut', q \in failed' <=> q \in failed,
         Of(q)' = Of(q), \A i \in Of(q) : wire'[i] = wire[i]
  PROVE  Sound(q)'
<1>1. Ordered(q)'
  <2>1. ASSUME NEW i \in Of(q), NEW j \in Of(q), i < j,
               \A k \in Of(q) : k <= i \/ j <= k
        PROVE  Follows(wire[i], wire[j])'
    <3>1. Follows(wire[i], wire[j]) /\ wire[j].req = q
      BY <2>1, OfFrames DEF Sound, Ordered
    <3> QED  BY <3>1 DEF Follows
  <2>2. ASSUME NEW j \in Of(q), \A k \in Of(q) : j <= k, Hears(q)'
        PROVE  Fits(q, wire[j])'
    <3>1. Fits(q, wire[j]) /\ wire[j].req = q
      BY <2>2, OfFrames DEF Sound, Ordered
    <3> QED  BY <3>1 DEF Fits, Follows, Seen
  <2> QED  BY <2>1, <2>2 DEF Ordered
<1>2. UpToDate(q)'
  BY DEF Sound, UpToDate, Agrees, Seen
<1>3. Final(q)'
  BY DEF Sound, Final
<1>4. Gathered(q)'
  BY DEF Sound, Gathered
<1> QED  BY <1>1, <1>2, <1>3, <1>4 DEF Sound

\* The frame a server writes follows the last one.
LEMMA ServerStepSound ==
  ASSUME TypeOK, TypeOK', NEW r \in Requests, ServerStep(r), NEW q \in Requests, Sound(q)
  PROVE  Sound(q)'
<1>1. /\ promise[r] # "new"
      /\ UNCHANGED <<cut, cancels, link, left, promise, listener, meta, readable, body, failed>>
      /\ whole' \in {whole, whole \cup {r}}
      /\ \A p \in Requests \ {r} : phase'[p] = phase[p] /\ sent'[p] = sent[p]
  BY ServerStepEffect DEF responseVars
<1>2. PICK f \in Frames :
        /\ wire' = Append(wire, f) /\ f.req = r /\ f.n = sent'[r]
        /\ \/ /\ f.kind = "error" /\ phase[r] = "silent" /\ phase'[r] = "failed"
              /\ sent'[r] = sent[r]
           \/ /\ f.kind = "response" /\ phase[r] = "silent" /\ phase'[r] = "open"
              /\ sent'[r] = sent[r]
           \/ /\ f.kind = "data" /\ phase[r] = "open" /\ phase'[r] = "open"
              /\ sent'[r] = sent[r] + 1
           \/ /\ f.kind = "error" /\ phase[r] = "open" /\ phase'[r] = "broken"
              /\ sent'[r] = sent[r]
           \/ /\ f.kind = "end" /\ phase[r] \in {"open", "broken"} /\ phase'[r] = "ended"
              /\ sent'[r] = sent[r]
              /\ phase[r] = "open" => r \in whole' \cup cut
  <2>1. \A kind \in {"response", "data", "error", "end"} :
          [req |-> r, kind |-> kind, n |-> sent'[r]] \in Frames
    BY DEF TypeOK, Frames
  <2> QED  BY <2>1, ServerStepEffect
<1>3. PICK last \in Nat : last = Len(wire) + 1
  BY <1>2, OfAppend
<1>4. CutByOwner(q)'
  BY <1>1 DEF Sound, CutByOwner
<1>5. /\ Of(q)' = IF r = q THEN Of(q) \cup {last} ELSE Of(q)
      /\ \A i \in Of(q) : i \in Nat /\ i < last /\ wire'[i] = wire[i]
      /\ last \in Nat /\ wire'[last] = f
  BY <1>2, <1>3, OfAppend
<1>6. CASE q # r
  BY <1>1, <1>4, <1>5, <1>6, SoundKept DEF Hears
<1>7. CASE q = r
  <2>1. Ordered(r)'
    <3>1. ASSUME NEW i \in Of(r)', NEW j \in Of(r)', i < j,
                 \A k \in Of(r)' : k <= i \/ j <= k
          PROVE  Follows(wire[i], wire[j])'
      <4>1. i \in Of(r)
        BY <1>5, <1>7, <3>1
      <4>2. CASE j \in Of(r)
        <5>1. Follows(wire[i], wire[j]) /\ wire[j].req = r
          BY <1>5, <1>7, <3>1, <4>1, <4>2, OfFrames DEF Sound, Ordered
        <5> QED  BY <1>1, <1>5, <1>7, <4>1, <4>2, <5>1 DEF Follows
      <4>3. CASE j = last
        <5>1. \A k \in Of(r) : k <= i
          BY <1>5, <1>7, <3>1, <4>3
        <5>2. Agrees(r, wire[i])
          BY <1>5, <1>7, <4>1, <5>1 DEF Sound, UpToDate
        <5>3. wire[i].kind \in {"response", "data", "error", "end"}
          BY <4>1, OfFrames DEF Frames
        <5>4. Follows(wire[i], f)'
          BY <1>1, <1>2, <1>5, <1>7, <4>1, <5>2, <5>3 DEF Follows, Agrees
        <5> QED  BY <1>5, <1>7, <4>1, <4>3, <5>4 DEF Follows
      <4> QED  BY <1>5, <1>7, <4>2, <4>3
    <3>2. ASSUME NEW j \in Of(r)', \A k \in Of(r)' : j <= k, Hears(r)'
          PROVE  Fits(r, wire[j])'
      <4>1. Hears(r)
        BY <1>1, <3>2 DEF Hears
      <4>2. CASE j \in Of(r)
        <5>1. Fits(r, wire[j]) /\ wire[j].req = r
          BY <1>5, <1>7, <3>2, <4>1, <4>2, OfFrames DEF Sound, Ordered
        <5> QED  BY <1>1, <1>5, <1>7, <4>2, <5>1 DEF Fits, Follows, Seen
      <4>3. CASE j = last
        <5>1. Of(r) = {}
          BY <1>5, <1>7, <3>2, <4>3
        <5>2. IF readable[r] = "destroyed" THEN phase[r] = "open" ELSE Agrees(r, Seen(r))
          BY <1>7, <4>1, <5>1 DEF Sound, UpToDate
        <5>3. CASE readable[r] = "destroyed"
          BY <1>1, <1>2, <1>3, <1>5, <4>3, <5>2, <5>3 DEF Fits
        <5>4. CASE readable[r] # "destroyed"
          <6>1. Follows(Seen(r), f)'
            BY <1>1, <1>2, <1>3, <5>2, <5>4 DEF Follows, Agrees, Seen
          <6> QED  BY <1>1, <1>5, <4>3, <5>4, <6>1 DEF Fits, Follows
        <5> QED  BY <5>3, <5>4
      <4> QED  BY <1>5, <1>7, <4>2, <4>3
    <3> QED  BY <3>1, <3>2 DEF Ordered
  <2>2. UpToDate(r)'
    <3>1. last \in Of(r)' /\ (\A k \in Of(r)' : k <= last)
      BY <1>5, <1>7
    <3>2. Agrees(r, wire[last])'
      BY <1>2, <1>3, <1>5 DEF Agrees
    <3> QED  BY <3>1, <3>2 DEF UpToDate
  <2>3. Final(r)'
    <3>1. \A j \in Of(r) : wire[j].kind # "end"
      BY <1>2, <1>7 DEF Sound, Final
    <3> QED  BY <1>2, <1>3, <1>5, <1>7, <3>1 DEF Final
  <2>4. Gathered(r)'
    BY <1>1, <1>2, <1>7 DEF Sound, Gathered
  <2> QED  BY <1>4, <1>7, <2>1, <2>2, <2>3, <2>4 DEF Sound
<1> QED  BY <1>6, <1>7

\* The frames of a request after the first one is taken off the wire: each
\* still follows the one before it, the new first one the frame taken off.
LEMMA OrderAfterHandle ==
  ASSUME TypeOK, NEW q \in Requests, Ordered(q), wire # <<>>, wire' = Tail(wire),
         UNCHANGED <<whole, cut>>
  PROVE  /\ \A i, j \in Of(q)' : i < j /\ (\A k \in Of(q)' : k <= i \/ j <= k)
                                   => Follows(wire[i], wire[j])'
         /\ \A j \in Of(q)' : /\ wire'[j] \in Frames /\ wire'[j].req = q
                              /\ (\A k \in Of(q)' : j <= k) =>
                                   IF Head(wire).req = q THEN Follows(Head(wire), wire'[j])
                                   ELSE Hears(q) => Fits(q, wire'[j])
<1>1. /\ \A i \in Of(q)' : i \in Nat /\ i >= 1 /\ i + 1 \in Of(q) /\ wire'[i] = wire[i + 1]
      /\ \A i \in Of(q) : /\ i \in Nat /\ i >= 1
                          /\ i > 1 => i - 1 \in Of(q)' /\ wire'[i - 1] = wire[i]
      /\ 1 \in Of(q) <=> Head(wire).req = q
      /\ wire[1] = Head(wire)
  BY OfTail
<1>2. ASSUME NEW i \in Of(q)', NEW j \in Of(q)', i < j,
             \A k \in Of(q)' : k <= i \/ j <= k
      PROVE  Follows(wire[i], wire[j])'
  <2>1. i + 1 < j + 1 /\ i + 1 \in Of(q) /\ j + 1 \in Of(q)
    BY <1>1, <1>2
  <2>2. ASSUME NEW k \in Of(q) PROVE k <= i + 1 \/ j + 1 <= k
    <3>1. CASE k = 1
      BY <1>1, <3>1
    <3>2. CASE k > 1
      <4>1. k - 1 \in Of(q)' /\ k \in Nat
        BY <1>1, <3>2
      <4>2. k - 1 <= i \/ j <= k - 1
        BY <1>2, <4>1
      <4> QED  BY <1>1, <4>1, <4>2
    <3> QED  BY <1>1, <3>1, <3>2
  <2>3. Follows(wire[i + 1], wire[j + 1])
    BY <2>1, <2>2 DEF Ordered
  <2>4. Follows(wire'[i], wire'[j])
    BY <1>1, <2>3
  <2> QED  BY <2>4 DEF Follows
<1>3. ASSUME NEW j \in Of(q)'
      PROVE  /\ wire'[j] \in Frames /\ wire'[j].req = q
             /\ (\A k \in Of(q)' : j <= k) =>
                  IF Head(wire).req = q THEN Follows(Head(wire), wire'[j])
                  ELSE Hears(q) => Fits(q, wire'[j])
  <2>1. j + 1 \in Of(q) /\ wire'[j] = wire[j + 1] /\ j \in Nat /\ j >= 1
    BY <1>1
  <2>2. wire'[j] \in Frames /\ wire'[j].req = q
    BY <2>1, OfFrames
  <2>3. ASSUME \A k \in Of(q)' : j <= k, NEW k \in Of(q)
        PROVE  k = 1 \/ j + 1 <= k
    <3>1. CASE k > 1
      <4>1. k - 1 \in Of(q)' /\ k \in Nat
        BY <1>1, <3>1
      <4>2. j <= k - 1
        BY <2>3, <4>1
      <4> QED  BY <2>1, <4>1, <4>2
    <3> QED  BY <1>1, <3>1
  <2>4. ASSUME \A k \in Of(q)' : j <= k, Head(wire).req = q
        PROVE  Follows(Head(wire), wire'[j])
    <3>1. 1 \in Of(q) /\ 1 < j + 1
      BY <1>1, <2>1, <2>4
    <3>2. \A k \in Of(q) : k <= 1 \/ j + 1 <= k
      BY <2>3, <2>4
    <3> QED  BY <1>1, <2>1, <3>1, <3>2 DEF Ordered
  <2>5. ASSUME \A k \in Of(q)' : j <= k, Head(wire).req # q, Hears(q)
        PROVE  Fits(q, wire'[j])
    <3>1. \A k \in Of(q) : j + 1 <= k
      BY <1>1, <2>3, <2>5
    <3> QED  BY <2>1, <2>5, <3>1 DEF Ordered
  <2> QED  BY <2>2, <2>4, <2>5
<1> QED  BY <1>2, <1>3

\* The last frame stays the last, unless it was the one taken off.
LEMMA LastAfterHandle ==
  ASSUME TypeOK, NEW q \in Requests, UpToDate(q), wire # <<>>, wire' = Tail(wire),
         UNCHANGED <<phase[q], sent[q]>>
  PROVE  \/ \E i \in Of(q)' : (\A k \in Of(q)' : k <= i) /\ Agrees(q, wire[i])'
         \/ Of(q)' = {} /\ Head(wire).req = q /\ Agrees(q, Head(wire))
         \/ Of(q)' = {} /\ Of(q) = {} /\ Head(wire).req # q
<1>1. /\ \A i \in Of(q)' : i \in Nat /\ i >= 1 /\ i + 1 \in Of(q) /\ wire'[i] = wire[i + 1]
      /\ \A i \in Of(q) : /\ i \in Nat /\ i >= 1
                          /\ i > 1 => i - 1 \in Of(q)' /\ wire'[i - 1] = wire[i]
      /\ 1 \in Of(q) <=> Head(wire).req = q
      /\ wire[1] = Head(wire)
  BY OfTail
<1>2. CASE Of(q) = {}
  BY <1>1, <1>2
<1>3. ASSUME NEW i \in Of(q), \A k \in Of(q) : k <= i, Agrees(q, wire[i])
      PROVE  \/ \E j \in Of(q)' : (\A k \in Of(q)' : k <= j) /\ Agrees(q, wire[j])'
             \/ Of(q)' = {} /\ Head(wire).req = q /\ Agrees(q, Head(wire))
  <2>1. CASE i = 1
    <3>1. Of(q)' = {}
      <4>1. ASSUME NEW k \in Of(q)' PROVE FALSE
        <5>1. k \in Nat /\ k >= 1 /\ k + 1 <= 1
          BY <1>1, <1>3, <2>1
        <5> QED  BY <5>1
      <4> QED  BY <4>1
    <3> QED  BY <1>1, <1>3, <2>1, <3>1
  <2>2. CASE i > 1
    <3>1. i - 1 \in Of(q)' /\ wire'[i - 1] = wire[i]
      BY <1>1, <2>2
    <3>2. ASSUME NEW k \in Of(q)' PROVE k <= i - 1
      <4>1. k + 1 <= i /\ k \in Nat /\ i \in Nat
        BY <1>1, <1>3
      <4> QED  BY <4>1
    <3>3. Agrees(q, wire[i - 1])'
      <4>1. Agrees(q, wire'[i - 1])
        BY <1>3, <3>1
      <4> QED  BY <4>1 DEF Agrees
    <3> QED  BY <3>1, <3>2, <3>3
  <2>3. i = 1 \/ i > 1
    BY <1>1, <1>3
  <2> QED  BY <2>1, <2>2, <2>3
<1> QED  BY <1>2, <1>3 DEF UpToDate

\* Handling a frame nobody hears, or another request's, tells a request nothing.
LEMMA SoundShifted ==
  ASSUME TypeOK, NEW q \in Requests, Sound(q), wire # <<>>, wire' = Tail(wire),
         UNCHANGED <<phase, sent, cut, late, whole, cancels, left>>,
         UNCHANGED <<promise[q], listener[q], meta[q], readable[q], body[q]>>,
         q \in failed' <=> q \in failed,
         Head(wire).req # q \/ ~Hears(q)
  PROVE  Sound(q)'
<1>1. Hears(q)' <=> Hears(q)
  BY DEF Hears
<1>2. Ordered(q)'
  <2>1. ASSUME NEW j \in Of(q)', \A k \in Of(q)' : j <= k, Hears(q)'
        PROVE  Fits(q, wire[j])'
    <3>1. Fits(q, wire'[j])
      BY <1>1, <2>1, OrderAfterHandle DEF Sound
    <3> QED  BY <3>1 DEF Fits, Follows, Seen
  <2> QED  BY <2>1, OrderAfterHandle DEF Sound, Ordered
<1>3. UpToDate(q)'
  <2>1. CASE \E i \in Of(q)' : (\A k \in Of(q)' : k <= i) /\ Agrees(q, wire[i])'
    BY <2>1 DEF UpToDate
  <2>2. CASE Of(q)' = {} /\ Head(wire).req = q
    BY <1>1, <2>2 DEF UpToDate
  <2>3. CASE Of(q)' = {} /\ Of(q) = {} /\ Head(wire).req # q
    BY <1>1, <2>3 DEF Sound, UpToDate, Agrees, Seen
  <2> QED  BY <2>1, <2>2, <2>3, LastAfterHandle DEF Sound
<1>4. Final(q)'
  <2>1. ASSUME NEW j \in Of(q)', wire'[j].kind = "end"
        PROVE  phase[q] = "ended" /\ wire'[j].n = sent[q]
    <3>1. j + 1 \in Of(q) /\ wire'[j] = wire[j + 1]
      BY <2>1, OfTail
    <3>2. \A k \in Of(q) : wire[k].kind = "end" => phase[q] = "ended" /\ wire[k].n = sent[q]
      BY DEF Sound, Final
    <3> QED  BY <2>1, <3>1, <3>2
  <2> QED  BY <2>1 DEF Final
<1>5. CutByOwner(q)'
  BY DEF Sound, CutByOwner
<1>6. Gathered(q)'
  <2>1. Of(q) = {} => Of(q)' = {}
    BY OfTail
  <2> QED  BY <2>1 DEF Sound, Gathered
<1> QED  BY <1>2, <1>3, <1>4, <1>5, <1>6 DEF Sound

\* A frame reaches the requests that listen on its id, and no other.
LEMMA HandleTold ==
  ASSUME TypeOK, Handle, NEW f, f = Head(wire), NEW q \in Requests
  PROVE  /\ wire # <<>> /\ wire' = Tail(wire) /\ f \in Frames
         /\ UNCHANGED <<phase, sent, cut, late, whole, cancels, link, left>>
         /\ RequestId[q] # RequestId[f.req] \/ ~Hears(q) =>
              /\ UNCHANGED <<promise[q], listener[q], meta[q], readable[q], body[q]>>
              /\ q \in failed' <=> q \in failed
         /\ RequestId[q] = RequestId[f.req] /\ Hears(q) /\ f.kind = "response" =>
              /\ UNCHANGED <<promise[q], listener[q], readable[q], body[q]>>
              /\ q \in failed' <=> q \in failed
              /\ meta'[q] = IF listener[q] = "message" THEN f.req ELSE meta[q]
         /\ RequestId[q] = RequestId[f.req] /\ Hears(q) /\ f.kind = "error" =>
              /\ UNCHANGED <<meta[q], body[q]>>
              /\ listener'[q] = "none"
              /\ promise'[q] = IF listener[q] = "message" THEN "error" ELSE promise[q]
              /\ readable'[q] = IF listener[q] = "data" /\ readable[q] = "open"
                                THEN "ended" ELSE readable[q]
              /\ q \in failed' <=> q \in failed \/ listener[q] = "data"
         /\ RequestId[q] = RequestId[f.req] /\ Hears(q) /\ f.kind \in {"data", "end"}
              /\ (listener[q] = "data" \/ meta[q] # None) =>
              /\ q \in failed' <=> q \in failed
              /\ UNCHANGED meta[q]
              /\ listener'[q] = IF f.kind = "data" THEN "data" ELSE "none"
              /\ promise'[q] = IF listener[q] = "message" /\ q \in Streamed
                               THEN "ok" ELSE promise[q]
              /\ readable'[q] = IF readable[q] \in {"none", "open"}
                                THEN IF f.kind = "data" THEN "open" ELSE "ended"
                                ELSE readable[q]
              /\ body'[q] = IF readable[q] \in {"none", "open"} /\ f.kind = "data"
                            THEN Append(body[q], f) ELSE body[q]
         /\ RequestId[q] = RequestId[f.req] /\ Hears(q) /\ f.kind \in {"data", "end"}
              /\ listener[q] = "message" /\ meta[q] = None =>
              /\ UNCHANGED <<promise[q], listener[q], meta[q], readable[q], body[q]>>
              /\ q \in failed' <=> q \in failed
<1> DEFINE waiting == Hearers(f, "message")
           first == {r \in waiting : meta[r] # None}
           reading == Hearers(f, "data")
<1>1. /\ wire # <<>> /\ wire' = Tail(wire) /\ f \in Frames
      /\ UNCHANGED <<phase, sent, cut, late, whole, cancels, link, left>>
  BY TailPoints DEF TypeOK, Handle, serverVars
<1>2. f.req \in Requests
  BY <1>1 DEF Frames
<1>3. /\ q \in waiting <=> RequestId[q] = RequestId[f.req] /\ Hears(q) /\ listener[q] = "message"
      /\ q \in reading <=> RequestId[q] = RequestId[f.req] /\ Hears(q) /\ listener[q] = "data"
      /\ q \in first <=> q \in waiting /\ meta[q] # None
      /\ Hears(q) => listener[q] \in {"message", "data"}
  BY <1>2 DEF Hearers, Hears, TypeOK
<1>4. CASE f.kind = "response"
  <2>1. UNCHANGED <<promise, listener, readable, body, failed>>
        /\ meta' = Put(meta, waiting, f.req)
    BY <1>4, Zenon DEF Handle
  <2>2. meta'[q] = IF q \in waiting THEN f.req ELSE meta[q]
    BY <2>1 DEF Put
  <2> HIDE DEF waiting
  <2> QED  BY <1>1, <1>3, <1>4, <2>1, <2>2
<1>5. CASE f.kind = "error"
  <2>1. UNCHANGED <<meta, body>> /\ OnError(waiting, reading)
    BY <1>5, Zenon DEF Handle
  <2>2. /\ promise'[q] = IF q \in waiting THEN "error" ELSE promise[q]
        /\ readable'[q] = IF q \in reading /\ readable[q] = "open" THEN "ended" ELSE readable[q]
        /\ listener'[q] = IF q \in waiting \cup reading THEN "none" ELSE listener[q]
        /\ q \in failed' <=> q \in failed \/ q \in reading
    BY <2>1 DEF OnError, Put, OpenIn
  <2> HIDE DEF waiting, reading
  <2> QED  BY <1>1, <1>3, <1>5, <2>1, <2>2
<1>6. CASE f.kind \in {"data", "end"}
  <2>1. /\ OnBody(f, first \cup reading) /\ UNCHANGED <<meta, failed>>
        /\ promise' = Put(promise, first \cap Streamed, "ok")
    BY <1>6, Zenon DEF Handle
  <2> HIDE DEF waiting, first, reading
  <2>2. /\ promise'[q] = IF q \in first /\ q \in Streamed THEN "ok" ELSE promise[q]
        /\ listener'[q] = IF q \in first \cup reading
                          THEN IF f.kind = "data" THEN "data" ELSE "none" ELSE listener[q]
    BY <2>1 DEF OnBody, Put
  <2>3. readable'[q] = IF q \in first \cup reading /\ readable[q] \in {"none", "open"}
                       THEN IF f.kind = "data" THEN "open" ELSE "ended" ELSE readable[q]
    BY <2>1 DEF OnBody, Put
  <2>4. body'[q] = IF q \in first \cup reading /\ readable[q] \in {"none", "open"}
                      /\ f.kind = "data"
                   THEN Append(body[q], f) ELSE body[q]
    BY <2>1 DEF OnBody
  <2> QED  BY <1>1, <1>3, <1>6, <2>1, <2>2, <2>3, <2>4
<1> QED  BY <1>1, <1>4, <1>5, <1>6 DEF Frames

\* With ids of their own, a frame reaches the request it was written for and no
\* other, and that one only while it listens.
LEMMA HandleEffect ==
  ASSUME TypeOK, Distinct, Handle, NEW f, f = Head(wire), NEW q \in Requests
  PROVE  /\ wire # <<>> /\ wire' = Tail(wire) /\ f \in Frames
         /\ UNCHANGED <<phase, sent, cut, late, whole, cancels, link, left>>
         /\ f.req # q \/ ~Hears(q) =>
              /\ UNCHANGED <<promise[q], listener[q], meta[q], readable[q], body[q]>>
              /\ q \in failed' <=> q \in failed
         /\ f.req = q /\ Hears(q) /\ f.kind = "response" =>
              /\ UNCHANGED <<promise[q], listener[q], readable[q], body[q]>>
              /\ q \in failed' <=> q \in failed
              /\ meta'[q] = IF listener[q] = "message" THEN q ELSE meta[q]
         /\ f.req = q /\ Hears(q) /\ f.kind = "error" =>
              /\ UNCHANGED <<meta[q], body[q]>>
              /\ listener'[q] = "none"
              /\ promise'[q] = IF listener[q] = "message" THEN "error" ELSE promise[q]
              /\ readable'[q] = IF listener[q] = "data" /\ readable[q] = "open"
                                THEN "ended" ELSE readable[q]
              /\ q \in failed' <=> q \in failed \/ listener[q] = "data"
         /\ f.req = q /\ Hears(q) /\ f.kind \in {"data", "end"}
              /\ (listener[q] = "data" \/ meta[q] # None) =>
              /\ q \in failed' <=> q \in failed
              /\ UNCHANGED meta[q]
              /\ listener'[q] = IF f.kind = "data" THEN "data" ELSE "none"
              /\ promise'[q] = IF listener[q] = "message" /\ q \in Streamed
                               THEN "ok" ELSE promise[q]
              /\ readable'[q] = IF readable[q] \in {"none", "open"}
                                THEN IF f.kind = "data" THEN "open" ELSE "ended"
                                ELSE readable[q]
              /\ body'[q] = IF readable[q] \in {"none", "open"} /\ f.kind = "data"
                            THEN Append(body[q], f) ELSE body[q]
<1>1. f.req \in Requests
  BY HandleTold DEF Frames
<1>2. RequestId[q] = RequestId[f.req] <=> f.req = q
  BY <1>1 DEF Distinct
<1> QED  BY <1>1, <1>2, HandleTold

\* What the listener may be given next, now that it has been given f, is what
\* may follow f; and what f says of the server is what it has seen.
LEMMA HeardRemembered ==
  ASSUME TypeOK, Distinct, Handle, NEW r \in Requests, Sound(r), Hears(r),
         NEW f, f = Head(wire), f.req = r
  PROVE  /\ Fits(r, f)
         /\ Hears(r)' => \A g \in Frames : g.req = r /\ Follows(f, g) => Fits(r, g)'
         /\ Hears(r)' /\ Agrees(r, f) => IF readable'[r] = "destroyed" THEN phase'[r] = "open"
                                         ELSE Agrees(r, Seen(r))'
         /\ CutByOwner(r)'
         /\ Gathered(r)'
<1>1. Fits(r, f) /\ (f.kind = "end" => phase[r] = "ended" /\ f.n = sent[r])
  <2>1. 1 \in Of(r) /\ wire[1] = f /\ \A k \in Of(r) : 1 <= k
    BY OfTail, HandleEffect
  <2> QED  BY <2>1 DEF Sound, Ordered, Final
<1>2. /\ f \in Frames /\ f.n \in Nat
      /\ UNCHANGED <<phase, sent, cut, late, whole, cancels, link, left>>
  BY HandleEffect DEF Frames
<1>3. /\ listener[r] \in {"message", "data"}
      /\ readable[r] \in {"none", "open", "ended", "destroyed"}
      /\ body[r] \in Seq(Frames) /\ Len(body[r]) \in Nat
      /\ listener[r] = "data" => readable[r] # "none" /\ meta[r] # None
      /\ None # r
  BY RequestAssumption DEF TypeOK, Hears
<1>4. /\ promise[r] # "new" /\ meta[r] \in {None, r} /\ readable[r] # "ended"
      /\ listener[r] = "message" => readable[r] = "none" /\ body[r] = <<>>
      /\ \A i \in DOMAIN body[r] : body[r][i] = [req |-> r, kind |-> "data", n |-> i]
      /\ promise[r] = "ok" => meta[r] = r /\ r \in Streamed
      /\ r \in cut \/ RequestId[r] \in cancels => readable[r] = "destroyed"
      /\ readable[r] # "none" => meta[r] = r
  BY <1>3 DEF Sound, Gathered, CutByOwner
<1>5. CASE f.kind = "response"
  <2>1. listener[r] = "message" /\ meta[r] = None /\ f.n = 0
    BY <1>1, <1>3, <1>4, <1>5 DEF Fits, Follows, Seen
  <2>2. /\ UNCHANGED <<promise[r], listener[r], readable[r], body[r]>>
        /\ r \in failed' <=> r \in failed
        /\ meta'[r] = r
    BY <1>5, <2>1, HandleEffect
  <2>3. Len(body'[r]) = 0 /\ readable'[r] = "none" /\ body'[r] = <<>>
    BY <1>4, <2>1, <2>2
  <2>4. ASSUME NEW g \in Frames, g.req = r, Follows(f, g) PROVE Fits(r, g)'
    BY <1>2, <1>3, <1>5, <2>1, <2>2, <2>3, <2>4 DEF Fits, Follows, Seen
  <2>5. Agrees(r, f) => Agrees(r, Seen(r))'
    BY <1>2, <1>3, <1>5, <2>1, <2>2, <2>3 DEF Agrees, Seen
  <2>6. CutByOwner(r)'
    BY <1>2, <1>4, <2>2 DEF CutByOwner
  <2>7. Gathered(r)'
    BY <1>2, <1>4, <2>1, <2>2, <2>3 DEF Gathered
  <2> QED  BY <1>1, <2>3, <2>4, <2>5, <2>6, <2>7
<1>6. CASE f.kind = "error"
  <2>1. /\ UNCHANGED <<meta[r], body[r]>>
        /\ listener'[r] = "none"
        /\ promise'[r] = IF listener[r] = "message" THEN "error" ELSE promise[r]
        /\ readable'[r] = IF listener[r] = "data" /\ readable[r] = "open"
                          THEN "ended" ELSE readable[r]
        /\ r \in failed' <=> r \in failed \/ listener[r] = "data"
    BY <1>6, HandleEffect
  <2>2. ~Hears(r)'
    BY <2>1 DEF Hears
  <2>3. CutByOwner(r)'
    BY <1>2, <1>4, <2>1 DEF CutByOwner
  <2>4. Gathered(r)'
    BY <1>2, <1>3, <1>4, <2>1 DEF Gathered
  <2> QED  BY <1>1, <2>2, <2>3, <2>4
<1>7. CASE f.kind \in {"data", "end"}
  <2>1. listener[r] = "data" \/ meta[r] # None
    BY <1>1, <1>3, <1>4, <1>7 DEF Fits, Follows, Seen
  <2>2. /\ r \in failed' <=> r \in failed
        /\ UNCHANGED meta[r]
        /\ listener'[r] = IF f.kind = "data" THEN "data" ELSE "none"
        /\ promise'[r] = IF listener[r] = "message" /\ r \in Streamed THEN "ok" ELSE promise[r]
        /\ readable'[r] = IF readable[r] \in {"none", "open"}
                          THEN IF f.kind = "data" THEN "open" ELSE "ended"
                          ELSE readable[r]
        /\ body'[r] = IF readable[r] \in {"none", "open"} /\ f.kind = "data"
                      THEN Append(body[r], f) ELSE body[r]
    BY <1>7, <2>1, HandleEffect
  <2>3. meta[r] = r
    BY <1>3, <1>4, <2>1
  <2>4. CutByOwner(r)'
    BY <1>2, <1>4, <2>2 DEF CutByOwner
  <2>5. CASE readable[r] = "destroyed"
    <3>1. \A g \in Frames : Follows(f, g) /\ Hears(r)' => g.kind \in {"data", "error", "end"}
      BY <1>7, <2>2 DEF Follows, Hears
    <3>2. Hears(r)' /\ Agrees(r, f) => phase'[r] = "open"
      BY <1>2, <1>7, <2>2 DEF Agrees, Hears
    <3>3. Gathered(r)'
      BY <1>2, <1>4, <2>2, <2>3, <2>5 DEF Gathered
    <3> QED  BY <1>1, <2>2, <2>4, <2>5, <3>1, <3>2, <3>3 DEF Fits
  <2>6. CASE readable[r] # "destroyed" /\ f.kind = "data"
    <3>1. f.n = Len(body[r]) + 1
      BY <1>1, <1>7, <2>6 DEF Fits, Follows, Seen
    <3>2. /\ body'[r] = Append(body[r], f) /\ Len(body'[r]) = f.n
          /\ readable'[r] = "open" /\ listener'[r] = "data"
      BY <1>2, <1>3, <1>4, <2>2, <2>6, <3>1
    <3>3. \A i \in DOMAIN body'[r] : body'[r][i] = [req |-> r, kind |-> "data", n |-> i]
      <4>1. f = [req |-> r, kind |-> "data", n |-> Len(body[r]) + 1]
        BY <1>2, <2>6, <3>1 DEF Frames
      <4>2. /\ DOMAIN body'[r] = DOMAIN body[r] \cup {Len(body[r]) + 1}
            /\ body'[r][Len(body[r]) + 1] = f
            /\ \A i \in DOMAIN body[r] : body'[r][i] = body[r][i]
        BY <1>2, <1>3, <3>2, AppendPoints
      <4> QED  BY <1>4, <4>1, <4>2
    <3>4. ASSUME NEW g \in Frames, g.req = r, Follows(f, g) PROVE Fits(r, g)'
      BY <1>2, <2>6, <3>2, <3>4 DEF Fits, Follows, Seen
    <3>5. Agrees(r, f) => Agrees(r, Seen(r))'
      BY <1>2, <2>6, <3>2 DEF Agrees, Seen
    <3>6. Gathered(r)'
      BY <1>4, <2>2, <2>3, <3>2, <3>3 DEF Gathered
    <3> QED  BY <1>1, <2>4, <3>2, <3>4, <3>5, <3>6
  <2>7. CASE readable[r] # "destroyed" /\ f.kind = "end"
    <3>1. f.n = Len(body[r]) /\ r \in whole
      BY <1>1, <1>3, <1>4, <2>7 DEF Fits, Follows, Seen
    <3>2. /\ body'[r] = body[r] /\ readable'[r] = "ended" /\ listener'[r] = "none"
      BY <1>3, <1>4, <2>2, <2>7
    <3>3. ~Hears(r)'
      BY <3>2 DEF Hears
    <3>4. Gathered(r)'
      BY <1>1, <1>2, <1>4, <2>2, <2>3, <2>7, <3>1, <3>2 DEF Gathered
    <3> QED  BY <1>1, <2>4, <3>3, <3>4
  <2> QED  BY <1>7, <2>5, <2>6, <2>7
<1> QED  BY <1>2, <1>5, <1>6, <1>7 DEF Frames

\* Handling a frame keeps every request sound.
LEMMA HandleSound ==
  ASSUME TypeOK, Distinct, Handle, NEW q \in Requests, Sound(q)
  PROVE  Sound(q)'
<1>1. PICK f : f = Head(wire)
  OBVIOUS
<1>2. /\ wire # <<>> /\ wire' = Tail(wire)
      /\ UNCHANGED <<phase, sent, cut, late, whole, cancels, link, left>>
  BY <1>1, HandleEffect
<1>3. CASE f.req # q \/ ~Hears(q)
  <2>1. /\ UNCHANGED <<promise[q], listener[q], meta[q], readable[q], body[q]>>
        /\ q \in failed' <=> q \in failed
    BY <1>1, <1>3, HandleEffect
  <2> QED  BY <1>1, <1>2, <1>3, <2>1, SoundShifted
<1>4. CASE f.req = q /\ Hears(q)
  <2>1. /\ Hears(q)' => \A g \in Frames : g.req = q /\ Follows(f, g) => Fits(q, g)'
        /\ Hears(q)' /\ Agrees(q, f) => IF readable'[q] = "destroyed" THEN phase'[q] = "open"
                                        ELSE Agrees(q, Seen(q))'
        /\ CutByOwner(q)'
        /\ Gathered(q)'
    BY <1>1, <1>4, HeardRemembered
  <2>2. Ordered(q)'
    <3>1. ASSUME NEW j \in Of(q)', \A k \in Of(q)' : j <= k, Hears(q)'
          PROVE  Fits(q, wire[j])'
      <4>1. wire'[j] \in Frames /\ wire'[j].req = q /\ Follows(f, wire'[j])
        BY <1>1, <1>2, <1>4, <3>1, OrderAfterHandle DEF Sound
      <4>2. PICK g \in Frames : g = wire'[j]
        BY <4>1
      <4>3. Fits(q, g)'
        BY <2>1, <3>1, <4>1, <4>2
      <4> QED  BY <4>2, <4>3 DEF Fits, Follows, Seen
    <3> QED  BY <1>2, <3>1, OrderAfterHandle DEF Sound, Ordered
  <2>3. UpToDate(q)'
    <3>1. CASE \E i \in Of(q)' : (\A k \in Of(q)' : k <= i) /\ Agrees(q, wire[i])'
      BY <3>1 DEF UpToDate
    <3>2. CASE Of(q)' = {} /\ Agrees(q, f)
      BY <2>1, <3>2 DEF UpToDate
    <3> QED  BY <1>1, <1>2, <1>4, <3>1, <3>2, LastAfterHandle DEF Sound
  <2>4. Final(q)'
    <3>1. ASSUME NEW j \in Of(q)', wire'[j].kind = "end"
          PROVE  phase[q] = "ended" /\ wire'[j].n = sent[q]
      <4>1. j + 1 \in Of(q) /\ wire'[j] = wire[j + 1]
        BY <1>2, <3>1, OfTail
      <4>2. \A k \in Of(q) : wire[k].kind = "end" => phase[q] = "ended" /\ wire[k].n = sent[q]
        BY DEF Sound, Final
      <4> QED  BY <3>1, <4>1, <4>2
    <3> QED  BY <1>2, <3>1 DEF Final
  <2> QED  BY <2>1, <2>2, <2>3, <2>4 DEF Sound
<1> QED  BY <1>3, <1>4

\* The other steps, for any request q.
LEMMA IssueSound ==
  ASSUME TypeOK, NEW r \in Requests, Issue(r), NEW q \in Requests, Sound(q)
  PROVE  Sound(q)'
<1>1. /\ promise[r] = "new"
      /\ UNCHANGED <<phase, sent, cut, late, whole, cancels, wire, link, left, meta, readable, body,
                     failed>>
  BY DEF Issue, serverVars
<1>2. /\ q # r => promise'[q] = promise[q] /\ listener'[q] = listener[q]
      /\ q = r => /\ promise'[q] \in {"rejected", "pending"}
                  /\ listener'[q] \in {listener[q], "message"}
  BY DEF Issue, TypeOK
<1>3. CutByOwner(q)' /\ Of(q)' = Of(q)
  BY <1>1 DEF Sound, CutByOwner, Of
<1>4. CASE q # r
  BY <1>1, <1>2, <1>3, <1>4, SoundKept DEF Hears
<1>5. CASE q = r
  <2>1. /\ phase[r] = "silent" /\ sent[r] = 0 /\ Of(r) = {} /\ meta[r] = None
        /\ readable[r] = "none" /\ body[r] = <<>> /\ listener[r] = "none"
    BY <1>1, <1>5 DEF Sound, Gathered
  <2>2. Ordered(r)' /\ Final(r)'
    BY <1>3, <1>5, <2>1 DEF Ordered, Final
  <2>3. UpToDate(r)'
    <3>1. listener'[r] \in {"none", "message"} /\ Len(body'[r]) = 0
      BY <1>1, <1>2, <1>5, <2>1
    <3>2. Agrees(r, Seen(r))'
      BY <1>1, <2>1, <3>1 DEF Agrees, Seen
    <3> QED  BY <1>1, <1>3, <1>5, <2>1, <3>2 DEF UpToDate
  <2>4. Gathered(r)'
    BY <1>1, <1>2, <1>5, <2>1 DEF Gathered, Sound
  <2> QED  BY <1>3, <1>5, <2>2, <2>3, <2>4 DEF Sound
<1> QED  BY <1>4, <1>5

LEMMA DestroySound ==
  ASSUME TypeOK, Distinct, NEW r \in Requests, Destroy(r), NEW q \in Requests, Sound(q)
  PROVE  Sound(q)'
<1>1. /\ readable[r] = "open"
      /\ UNCHANGED <<phase, sent, cut, late, whole, wire, link, left, promise, listener, meta, body,
                     failed>>
      /\ cancels' = cancels \/ cancels' = cancels \cup {RequestId[r]}
      /\ readable'[r] = "destroyed"
      /\ q # r => readable'[q] = readable[q]
  BY DEF Destroy, serverVars, TypeOK
<1>2. CutByOwner(q)' /\ Of(q)' = Of(q) /\ (Hears(q)' <=> Hears(q))
  BY <1>1 DEF Sound, CutByOwner, Distinct, Of, Hears
<1>3. CASE q # r
  BY <1>1, <1>2, <1>3, SoundKept
<1>4. CASE q = r
  <2>1. listener[r] \in {"none", "data"}
    BY <1>1, <1>4 DEF Sound, Gathered, TypeOK
  <2>2. Hears(r) => Seen(r).kind = "data"
    BY <2>1 DEF Hears, Seen
  <2>3. Ordered(r)'
    <3>1. ASSUME NEW i \in Of(r), NEW j \in Of(r), i < j,
                 \A k \in Of(r) : k <= i \/ j <= k
          PROVE  Follows(wire[i], wire[j])'
      <4>1. Follows(wire[i], wire[j])
        BY <1>4, <3>1 DEF Sound, Ordered
      <4> QED  BY <1>1, <4>1 DEF Follows
    <3>2. ASSUME NEW j \in Of(r), \A k \in Of(r) : j <= k, Hears(r)
          PROVE  Fits(r, wire[j])'
      <4>1. Follows(Seen(r), wire[j])
        BY <1>1, <1>4, <3>2 DEF Sound, Ordered, Fits
      <4>2. wire[j].kind \in {"data", "error", "end"}
        BY <2>2, <3>2, <4>1 DEF Follows
      <4> QED  BY <1>1, <4>2 DEF Fits
    <3> QED  BY <1>2, <1>4, <3>1, <3>2 DEF Ordered
  <2>4. UpToDate(r)'
    <3>1. CASE \E i \in Of(r) : (\A k \in Of(r) : k <= i) /\ Agrees(r, wire[i])
      <4>1. PICK i \in Of(r) : (\A k \in Of(r) : k <= i) /\ Agrees(r, wire[i])
        BY <3>1
      <4>2. Agrees(r, wire[i])'
        BY <1>1, <4>1 DEF Agrees
      <4> QED  BY <1>2, <1>4, <4>1, <4>2 DEF UpToDate
    <3>2. CASE Of(r) = {} /\ (Hears(r) => Agrees(r, Seen(r)))
      <4>1. Hears(r) => phase[r] = "open"
        BY <2>2, <3>2 DEF Agrees
      <4> QED  BY <1>1, <1>2, <1>4, <3>2, <4>1 DEF UpToDate
    <3> QED  BY <1>1, <1>4, <3>1, <3>2 DEF Sound, UpToDate
  <2>5. Final(r)'
    BY <1>1, <1>2, <1>4 DEF Sound, Final
  <2>6. Gathered(r)'
    BY <1>1, <1>2, <1>4, <2>1 DEF Sound, Gathered
  <2> QED  BY <1>2, <1>4, <2>3, <2>4, <2>5, <2>6 DEF Sound
<1> QED  BY <1>3, <1>4

LEMMA CollectSound ==
  ASSUME TypeOK, NEW r \in Requests, Collect(r), NEW q \in Requests, Sound(q)
  PROVE  Sound(q)'
<1>1. /\ promise[r] = "pending" /\ readable[r] = "ended"
      /\ UNCHANGED <<phase, sent, cut, late, whole, cancels, wire, link, left, listener, meta,
                     readable, body, failed>>
      /\ promise'[r] = IF r \in failed THEN "error" ELSE "ok"
      /\ q # r => promise'[q] = promise[q]
  BY DEF Collect, serverVars, TypeOK
<1>2. CutByOwner(q)' /\ Of(q)' = Of(q) /\ (Hears(q)' <=> Hears(q))
  BY <1>1 DEF Sound, CutByOwner, Of, Hears
<1>3. CASE q # r
  BY <1>1, <1>2, <1>3, SoundKept
<1>4. CASE q = r
  <2>1. Ordered(r)'
    BY <1>1, <1>2, <1>4 DEF Sound, Ordered, Follows, Fits, Seen
  <2>2. UpToDate(r)' /\ Final(r)'
    BY <1>1, <1>2, <1>4 DEF Sound, UpToDate, Agrees, Seen, Final
  <2>3. Gathered(r)'
    BY <1>1, <1>2, <1>4 DEF Sound, Gathered
  <2> QED  BY <1>2, <1>4, <2>1, <2>2, <2>3 DEF Sound
<1> QED  BY <1>3, <1>4

\* A client that leaves hears nothing; the last one takes the wire with it.
LEMMA ExitSound ==
  ASSUME TypeOK, NEW c \in Clients, Exit(c), NEW q \in Requests, Sound(q)
  PROVE  Sound(q)'
<1>1. /\ UNCHANGED <<phase, sent, cut, late, whole, cancels, promise, meta, readable, body, failed>>
      /\ left' = left \cup {c}
      /\ listener'[q] = IF ClientOf[q] = c THEN "none" ELSE listener[q]
      /\ \/ wire' = wire
         \/ wire' = <<>> /\ left' = Clients
  BY DEF Exit, Put, serverVars
<1>2. CutByOwner(q)' /\ (Hears(q)' => Hears(q) /\ listener'[q] = listener[q])
  BY <1>1 DEF Sound, CutByOwner, Hears
<1>3. CASE wire' = <<>> /\ left' = Clients
  <2>1. Of(q)' = {} /\ ~Hears(q)'
    BY <1>3, RequestAssumption DEF Of, Hears
  <2>2. Ordered(q)' /\ UpToDate(q)' /\ Final(q)'
    BY <2>1 DEF Ordered, UpToDate, Final
  <2>3. Gathered(q)'
    BY <1>1, <2>1 DEF Sound, Gathered
  <2> QED  BY <1>2, <2>2, <2>3 DEF Sound
<1>4. CASE wire' = wire
  <2>1. Of(q)' = Of(q)
    BY <1>4 DEF Of
  <2>2. Ordered(q)'
    <3>1. ASSUME NEW i \in Of(q), NEW j \in Of(q), i < j,
                 \A k \in Of(q) : k <= i \/ j <= k
          PROVE  Follows(wire[i], wire[j])'
      <4>1. Follows(wire[i], wire[j])
        BY <3>1 DEF Sound, Ordered
      <4> QED  BY <1>1, <1>4, <4>1 DEF Follows
    <3>2. ASSUME NEW j \in Of(q), \A k \in Of(q) : j <= k, Hears(q)'
          PROVE  Fits(q, wire[j])'
      <4>1. Fits(q, wire[j]) /\ listener'[q] = listener[q]
        BY <1>2, <3>2 DEF Sound, Ordered
      <4> QED  BY <1>1, <1>4, <4>1 DEF Fits, Follows, Seen
    <3> QED  BY <2>1, <3>1, <3>2 DEF Ordered
  <2>3. UpToDate(q)'
    BY <1>1, <1>2, <1>4, <2>1 DEF Sound, UpToDate, Agrees, Seen
  <2>4. Final(q)' /\ Gathered(q)'
    BY <1>1, <1>4, <2>1 DEF Sound, Final, Gathered
  <2> QED  BY <1>2, <2>2, <2>3, <2>4 DEF Sound
<1> QED  BY <1>1, <1>3, <1>4

LEMMA CancelSound ==
  ASSUME TypeOK, Distinct, NEW id \in Ids, ServerCancel(id), NEW q \in Requests, Sound(q)
  PROVE  Sound(q)'
<1>1. /\ id \in cancels /\ cancels' = cancels \ {id}
      /\ UNCHANGED <<phase, sent, late, whole, wire, link, left, responseVars>>
      /\ cut \subseteq cut'
      /\ q \in cut' => q \in cut \/ RequestId[q] = id
  <2>1. \/ UNCHANGED cut
        \/ \E r \in Requests : RequestId[r] = id /\ cut' = cut \cup {r}
    BY DEF ServerCancel
  <2> QED  BY <2>1 DEF ServerCancel, Distinct
<1>2. CutByOwner(q)'
  BY <1>1 DEF Sound, CutByOwner, responseVars
<1>3. Of(q)' = Of(q) /\ (Hears(q)' <=> Hears(q))
  BY <1>1 DEF Of, Hears, responseVars
<1> QED  BY <1>1, <1>2, <1>3, SoundKept DEF responseVars

-----------------------------------------------------------------------------
(* The invariant.                                                          *)

\* With an id for each request, what a client has gathered and what is on the
\* wire for it always continue each other.
THEOREM ResponsesSound == Spec => []ResponseInv
<1>1. Init => ResponseInv
  <2> SUFFICES ASSUME Init, Distinct, NEW q \in Requests PROVE Sound(q)
    BY DEF ResponseInv
  <2>1. Of(q) = {} /\ ~Hears(q)
    BY DEF Init, Of, Hears
  <2>2. Ordered(q) /\ UpToDate(q) /\ Final(q) /\ CutByOwner(q)
    BY <2>1 DEF Init, Ordered, UpToDate, Final, CutByOwner
  <2>3. Gathered(q)
    BY <2>1 DEF Init, Gathered
  <2> QED  BY <2>2, <2>3 DEF Sound
<1>2. TypeOK /\ TypeOK' /\ ResponseInv /\ [Next]_vars => ResponseInv'
  <2> SUFFICES ASSUME TypeOK, TypeOK', ResponseInv, [Next]_vars, Distinct, NEW q \in Requests
               PROVE  Sound(q)'
    BY DEF ResponseInv, Distinct
  <2>0. Sound(q)
    BY DEF ResponseInv
  <2>1. ASSUME NEW r \in Requests, ServerStep(r) PROVE Sound(q)'
    BY <2>0, <2>1, ServerStepSound
  <2>2. ASSUME NEW id \in Ids, ServerCancel(id) PROVE Sound(q)'
    BY <2>0, <2>2, CancelSound
  <2>3. ASSUME UNCHANGED <<serverVars, cancels, wire, left, responseVars>> PROVE Sound(q)'
    <3>1. Of(q)' = Of(q) /\ (Hears(q)' <=> Hears(q)) /\ CutByOwner(q)'
      BY <2>0, <2>3 DEF Of, Hears, Sound, CutByOwner, serverVars, responseVars
    <3> QED  BY <2>0, <2>3, <3>1, SoundKept DEF serverVars, responseVars
  <2>4. ASSUME NEW r \in Requests, Issue(r) PROVE Sound(q)'
    BY <2>0, <2>4, IssueSound
  <2>5. ASSUME Handle PROVE Sound(q)'
    BY <2>0, <2>5, HandleSound
  <2>6. ASSUME NEW r \in Requests, Collect(r) PROVE Sound(q)'
    BY <2>0, <2>6, CollectSound
  <2>7. ASSUME NEW r \in Requests, Destroy(r) PROVE Sound(q)'
    BY <2>0, <2>7, DestroySound
  <2>8. ASSUME NEW c \in Clients, Exit(c) PROVE Sound(q)'
    BY <2>0, <2>8, ExitSound
  <2>9. ASSUME ServerDies PROVE Sound(q)'
    BY <2>3, <2>9 DEF ServerDies
  <2>10. ASSUME UNCHANGED vars PROVE Sound(q)'
    BY <2>3, <2>10 DEF vars
  <2> QED  BY <2>1, <2>2, <2>4, <2>5, <2>6, <2>7, <2>8, <2>9, <2>10, NextCases
<1> QED  BY <1>1, <1>2, TypeCorrect, PTL DEF Spec

\* A successful response carries the headers and the chunks of its own request,
\* in order and from the first, and all of them unless its stream was cut.
THEOREM ResponseIsOwn == Spec => []OwnBody
<1>1. ResponseInv => OwnBody
  BY DEF ResponseInv, OwnBody, Sound, Gathered
<1> QED  BY <1>1, ResponsesSound, PTL

\* When the server is done with a request, its listener is gone or a frame that
\* removes it is on the wire.
THEOREM ListenersRemoved == Spec => []NoListenerLeak
<1>1. TypeOK /\ ResponseInv => NoListenerLeak
  <2> SUFFICES ASSUME TypeOK, ResponseInv, Distinct, NEW r \in Requests,
                      listener[r] # "none", Reachable(r), phase[r] \in {"failed", "ended"}
               PROVE  \E i \in DOMAIN wire : wire[i].req = r /\ wire[i].kind \in {"error", "end"}
    BY DEF NoListenerLeak
  <2>1. UpToDate(r) /\ Hears(r)
    BY DEF ResponseInv, Sound, Hears, Reachable
  <2>2. Seen(r).kind \in {"none", "response", "data"}
    BY DEF Seen
  <2>3. PICK i \in Of(r) : Agrees(r, wire[i])
    BY <2>1, <2>2 DEF UpToDate, Agrees
  <2>4. wire[i].kind \notin {"response", "data"}
    BY <2>3 DEF Agrees
  <2>5. wire[i] \in Frames
    BY <2>3, OfFrames
  <2>6. wire[i].kind \in {"error", "end"}
    BY <2>4, <2>5 DEF Frames
  <2> QED  BY <2>3, <2>6 DEF Of
<1> QED  BY <1>1, TypeCorrect, ResponsesSound, PTL

-----------------------------------------------------------------------------
(* The contract with the program.  Nothing here depends on the ids: a frame  *)
(* may be told to any number of requests.                                    *)

\* A step of the abstract specification for request q, or none.
Delivers(q) == Delivery!Step(q) \/ (Delivery!PromiseKept(q) /\ Delivery!BodyKept(q))

\* Nothing changes for q, as far as its program can see.
Waits(q) == UNCHANGED <<promise[q], readable[q], body[q]>>

LEMMA PushedIsLength ==
  ASSUME NEW q \in Requests
  PROVE  /\ [r \in Requests |-> Len(body[r])][q] = Len(body[q])
         /\ [r \in Requests |-> Len(body[r])]'[q] = Len(body'[q])
  OBVIOUS

LEMMA WaitsDelivers ==
  ASSUME NEW q \in Requests, Waits(q)
  PROVE  Delivers(q)
BY PushedIsLength DEF Delivers, Waits, Delivery!PromiseKept, Delivery!BodyKept

\* Every listener that is told a frame makes its own step with it.
LEMMA HandleDelivers ==
  ASSUME TypeOK, DeliveryInv, Handle, NEW q \in Requests
  PROVE  Consistent(q)' /\ Delivers(q)
<1>1. PICK f : f = Head(wire)
  OBVIOUS
<1>2. f \in Frames /\ Consistent(q)
  BY <1>1, HandleTold DEF DeliveryInv
<1>3. body[q] \in Seq(Frames) /\ Len(body[q]) \in Nat
      /\ Len(Append(body[q], f)) = Len(body[q]) + 1 /\ Len(<<>>) = 0
      /\ Append(body[q], f) # <<>>
  <2>1. body[q] \in Seq(Frames)
    BY DEF TypeOK
  <2>2. \A s \in Seq(Frames) : /\ Len(s) \in Nat /\ Len(Append(s, f)) = Len(s) + 1
                                /\ Append(s, f) # <<>>
    BY <1>2
  <2> QED  BY <2>1, <2>2
<1>4. CASE RequestId[q] # RequestId[f.req] \/ ~Hears(q)
  <2>1. UNCHANGED <<promise[q], listener[q], readable[q], body[q]>>
    BY <1>1, <1>4, HandleTold
  <2> QED  BY <1>2, <2>1, WaitsDelivers DEF Waits, Consistent
<1>5. CASE RequestId[q] = RequestId[f.req] /\ Hears(q) /\ f.kind = "response"
  <2>1. UNCHANGED <<promise[q], listener[q], readable[q], body[q]>>
    BY <1>1, <1>5, HandleTold
  <2> QED  BY <1>2, <2>1, WaitsDelivers DEF Waits, Consistent
<1>6. CASE RequestId[q] = RequestId[f.req] /\ Hears(q) /\ f.kind = "error"
  <2>1. /\ UNCHANGED body[q]
        /\ listener'[q] = "none"
        /\ promise'[q] = IF listener[q] = "message" THEN "error" ELSE promise[q]
        /\ readable'[q] = IF listener[q] = "data" /\ readable[q] = "open"
                          THEN "ended" ELSE readable[q]
    BY <1>1, <1>6, HandleTold
  <2>2. listener[q] \in {"message", "data"}
    BY <1>6 DEF Hears, TypeOK
  <2>3. Consistent(q)'
    BY <1>2, <2>1, <2>2 DEF Consistent
  <2>4. CASE listener[q] = "message"
    <3>1. Delivery!Fail(q)
      BY <1>2, <2>1, <2>4, PushedIsLength
         DEF Consistent, Delivery!Fail, Delivery!BodyKept, Delivery!Promise
    <3> QED  BY <2>3, <3>1 DEF Delivers, Delivery!Step
  <2>5. CASE listener[q] = "data" /\ readable[q] = "open"
    <3>1. Delivery!Close(q)
      BY <2>1, <2>5, PushedIsLength DEF Delivery!Close, Delivery!Stream, Delivery!PromiseKept
    <3> QED  BY <2>3, <3>1 DEF Delivers, Delivery!Step
  <2>6. CASE listener[q] = "data" /\ readable[q] # "open"
    BY <2>1, <2>3, <2>6, WaitsDelivers DEF Waits
  <2> QED  BY <2>2, <2>4, <2>5, <2>6
<1>7. CASE /\ RequestId[q] = RequestId[f.req] /\ Hears(q) /\ f.kind \in {"data", "end"}
           /\ listener[q] = "message" /\ meta[q] = None
  <2>1. UNCHANGED <<promise[q], listener[q], readable[q], body[q]>>
    BY <1>1, <1>7, HandleTold
  <2> QED  BY <1>2, <2>1, WaitsDelivers DEF Waits, Consistent
<1>8. CASE /\ RequestId[q] = RequestId[f.req] /\ Hears(q) /\ f.kind \in {"data", "end"}
           /\ listener[q] = "data" \/ meta[q] # None
  <2>1. /\ listener'[q] = IF f.kind = "data" THEN "data" ELSE "none"
        /\ promise'[q] = IF listener[q] = "message" /\ q \in Streamed
                         THEN "ok" ELSE promise[q]
        /\ readable'[q] = IF readable[q] \in {"none", "open"}
                          THEN IF f.kind = "data" THEN "open" ELSE "ended"
                          ELSE readable[q]
        /\ body'[q] = IF readable[q] \in {"none", "open"} /\ f.kind = "data"
                      THEN Append(body[q], f) ELSE body[q]
    BY <1>1, <1>8, HandleTold
  <2>2. listener[q] \in {"message", "data"}
    BY <1>8 DEF Hears, TypeOK
  <2>3. Consistent(q)'
    BY <1>2, <1>3, <1>8, <2>1, <2>2 DEF Consistent
  <2>4. CASE listener[q] = "message"
    <3>1. /\ promise[q] = "pending" /\ readable[q] = "none" /\ body[q] = <<>>
          /\ promise'[q] = IF q \in Streamed THEN "ok" ELSE "pending"
      BY <1>2, <2>1, <2>4 DEF Consistent
    <3>2. \/ readable'[q] = "open" /\ Len(body'[q]) = 1
          \/ readable'[q] = "ended" /\ Len(body'[q]) = 0
      BY <1>3, <1>8, <2>1, <3>1
    <3>3. Delivery!Begin(q)
      BY <3>1, <3>2, PushedIsLength DEF Delivery!Begin, Delivery!Promise, Delivery!Stream
    <3> QED  BY <2>3, <3>3 DEF Delivers, Delivery!Step
  <2>5. CASE listener[q] = "data" /\ readable[q] = "open" /\ f.kind = "data"
    <3>1. Delivery!Push(q)
      BY <1>3, <2>1, <2>5, PushedIsLength
         DEF Delivery!Push, Delivery!Stream, Delivery!PromiseKept
    <3> QED  BY <2>3, <3>1 DEF Delivers, Delivery!Step
  <2>6. CASE listener[q] = "data" /\ readable[q] = "open" /\ f.kind = "end"
    <3>1. Delivery!Close(q)
      BY <2>1, <2>6, PushedIsLength DEF Delivery!Close, Delivery!Stream, Delivery!PromiseKept
    <3> QED  BY <2>3, <3>1 DEF Delivers, Delivery!Step
  <2>7. CASE listener[q] = "data" /\ readable[q] = "destroyed"
    BY <2>1, <2>3, <2>7, WaitsDelivers DEF Waits
  <2> QED  BY <1>2, <1>8, <2>2, <2>4, <2>5, <2>6, <2>7 DEF Consistent
<1> QED  BY <1>2, <1>4, <1>5, <1>6, <1>7, <1>8, <1>1, HandleTold DEF Frames, Hears, TypeOK

\* The other steps of the client.
LEMMA IssueDelivers ==
  ASSUME TypeOK, DeliveryInv, NEW r \in Requests, Issue(r), NEW q \in Requests
  PROVE  Consistent(q)' /\ Delivers(q)
<1>1. Consistent(q) /\ UNCHANGED <<readable[q], body[q]>>
  BY DEF DeliveryInv, Issue
<1>2. CASE q = r
  <2>1. /\ promise[q] = "new" /\ promise'[q] \in {"pending", "rejected"}
        /\ \/ listener'[q] = "message" /\ promise'[q] = "pending"
           \/ listener'[q] = listener[q]
    BY <1>2 DEF Issue, TypeOK
  <2>2. Delivery!Call(q)
    BY <1>1, <2>1, PushedIsLength DEF Delivery!Call, Delivery!BodyKept, Delivery!Promise
  <2>3. Consistent(q)'
    BY <1>1, <2>1 DEF Consistent
  <2> QED  BY <2>2, <2>3 DEF Delivers, Delivery!Step
<1>3. CASE q # r
  <2>1. UNCHANGED <<promise[q], listener[q]>>
    BY <1>3 DEF Issue, TypeOK
  <2> QED  BY <1>1, <2>1, WaitsDelivers DEF Waits, Consistent
<1> QED  BY <1>2, <1>3

\* A stream is not collected: its promise has settled with its beginning.
LEMMA CollectDelivers ==
  ASSUME TypeOK, DeliveryInv, NEW r \in Requests, Collect(r), NEW q \in Requests
  PROVE  Consistent(q)' /\ Delivers(q)
<1>1. Consistent(q) /\ UNCHANGED <<listener[q], readable[q], body[q]>>
  BY DEF DeliveryInv, Collect
<1>2. CASE q = r
  <2>1. /\ promise[q] = "pending" /\ promise'[q] \in {"ok", "error"}
        /\ readable[q] = "ended" /\ q \notin Streamed
    BY <1>1, <1>2 DEF Collect, Consistent, TypeOK
  <2>2. Delivery!Settle(q)
    BY <1>1, <2>1, PushedIsLength DEF Delivery!Settle, Delivery!BodyKept, Delivery!Promise
  <2>3. Consistent(q)'
    BY <1>1, <2>1 DEF Consistent
  <2> QED  BY <2>2, <2>3 DEF Delivers, Delivery!Step
<1>3. CASE q # r
  <2>1. UNCHANGED promise[q]
    BY <1>3 DEF Collect, TypeOK
  <2> QED  BY <1>1, <2>1, WaitsDelivers DEF Waits, Consistent
<1> QED  BY <1>2, <1>3

LEMMA DestroyDelivers ==
  ASSUME TypeOK, DeliveryInv, NEW r \in Requests, Destroy(r), NEW q \in Requests
  PROVE  Consistent(q)' /\ Delivers(q)
<1>1. Consistent(q) /\ UNCHANGED <<promise[q], listener[q], body[q]>>
  BY DEF DeliveryInv, Destroy
<1>2. CASE q = r
  <2>1. /\ promise[q] = "ok" /\ q \in Streamed
        /\ readable[q] = "open" /\ readable'[q] = "destroyed"
    BY <1>1, <1>2 DEF Destroy, Consistent, TypeOK
  <2>2. Delivery!Destroy(q)
    BY <1>1, <2>1, PushedIsLength
       DEF Delivery!Destroy, Delivery!Stream, Delivery!PromiseKept
  <2>3. Consistent(q)'
    BY <1>1, <2>1 DEF Consistent
  <2> QED  BY <2>2, <2>3 DEF Delivers, Delivery!Step
<1>3. CASE q # r
  <2>1. UNCHANGED readable[q]
    BY <1>3 DEF Destroy, TypeOK
  <2> QED  BY <1>1, <2>1, WaitsDelivers DEF Waits, Consistent
<1> QED  BY <1>2, <1>3

\* Steps that only remove listeners.
LEMMA OthersDeliver ==
  ASSUME DeliveryInv, UNCHANGED <<promise, readable, body>>, NEW q \in Requests,
         listener'[q] \in {listener[q], "none"}
  PROVE  Consistent(q)' /\ Delivers(q)
BY WaitsDelivers DEF DeliveryInv, Consistent, Waits

LEMMA DeliveryKept ==
  ASSUME TypeOK, DeliveryInv, [Next]_vars
  PROVE  DeliveryInv' /\ [Delivery!Next]_(Delivery!vars)
<1>1. SUFFICES ASSUME NEW q \in Requests PROVE Consistent(q)' /\ Delivers(q)
  BY DEF DeliveryInv, Delivers, Delivery!Next
<1>2. ASSUME NEW r \in Requests, ServerStep(r) PROVE Consistent(q)' /\ Delivers(q)
  BY <1>2, OthersDeliver DEF ServerStep, responseVars
<1>3. ASSUME NEW id \in Ids, ServerCancel(id) PROVE Consistent(q)' /\ Delivers(q)
  BY <1>3, OthersDeliver DEF ServerCancel, responseVars
<1>4. ASSUME ServerDies PROVE Consistent(q)' /\ Delivers(q)
  BY <1>4, OthersDeliver DEF ServerDies, responseVars
<1>5. ASSUME NEW r \in Requests, Issue(r) PROVE Consistent(q)' /\ Delivers(q)
  BY <1>5, IssueDelivers
<1>6. ASSUME Handle PROVE Consistent(q)' /\ Delivers(q)
  BY <1>6, HandleDelivers
<1>7. ASSUME NEW r \in Requests, Collect(r) PROVE Consistent(q)' /\ Delivers(q)
  BY <1>7, CollectDelivers
<1>8. ASSUME NEW r \in Requests, Destroy(r) PROVE Consistent(q)' /\ Delivers(q)
  BY <1>8, DestroyDelivers
<1>9. ASSUME NEW c \in Clients, Exit(c) PROVE Consistent(q)' /\ Delivers(q)
  <2>1. UNCHANGED <<promise, readable, body>> /\ listener'[q] \in {listener[q], "none"}
    BY <1>9 DEF Exit, Put
  <2> QED  BY <2>1, OthersDeliver
<1>10. ASSUME UNCHANGED vars PROVE Consistent(q)' /\ Delivers(q)
  BY <1>10, OthersDeliver DEF vars, responseVars
<1> QED  BY <1>2, <1>3, <1>4, <1>5, <1>6, <1>7, <1>8, <1>9, <1>10, NextCases

\* What the closures of request do with the frames is a run of ResponseDelivery,
\* whatever the ids: a promise settles once, a body begins only while the
\* request waits for one, and an ended or destroyed body is never pushed to.
THEOREM DeliveryRefinement == Spec => DeliveryContract
<1>1. Init => DeliveryInv /\ Delivery!Init
  BY DEF Init, DeliveryInv, Consistent, Delivery!Init
<1>2. TypeOK /\ DeliveryInv /\ [Next]_vars => DeliveryInv' /\ [Delivery!Next]_(Delivery!vars)
  BY DeliveryKept
<1> QED  BY <1>1, <1>2, TypeCorrect, PTL DEF Spec, DeliveryContract, Delivery!Spec

=============================================================================
