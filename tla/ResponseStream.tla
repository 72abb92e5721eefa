--------------------------- MODULE ResponseStream ---------------------------
(***************************************************************************)
(* What the server promises the reader of the control WebSocket about the  *)
(* frames of one request, whatever the protocol behind it and however the  *)
(* goroutines that produce them interleave: either a single error frame,   *)
(* or a response frame, the upstream's chunks in order with none lost or   *)
(* repeated, possibly an error frame, and at most one end frame, last.     *)
(***************************************************************************)
EXTENDS Naturals

CONSTANT Requests

VARIABLES phase,     \* "silent", "failed", "open", "broken" or "ended"
          received   \* how many chunks of the upstream have arrived

vars == <<phase, received>>

Init == /\ phase = [r \in Requests |-> "silent"]
        /\ received = [r \in Requests |-> 0]

Step(r, from, to) == /\ phase[r] \in from
                     /\ phase' = [phase EXCEPT ![r] = to]

\* The only frame is an error frame.
Fail(r) == Step(r, {"silent"}, "failed") /\ UNCHANGED received

\* Status line and headers.
Open(r) == Step(r, {"silent"}, "open") /\ UNCHANGED received

\* The next chunk, and never another one.
Chunk(r) == /\ phase[r] = "open"
            /\ received' = [received EXCEPT ![r] = @ + 1]
            /\ UNCHANGED phase

\* The upstream failed while its body was being read.
Break(r) == Step(r, {"open"}, "broken") /\ UNCHANGED received

End(r) == Step(r, {"open", "broken"}, "ended") /\ UNCHANGED received

Next == \E r \in Requests : Fail(r) \/ Open(r) \/ Chunk(r) \/ Break(r) \/ End(r)

Spec == Init /\ [][Next]_vars

=============================================================================
