-------------------------- MODULE ResponseDelivery --------------------------
(***************************************************************************)
(* What a program may rely on about the requests it makes with the         *)
(* TypeScript client (src/index.ts, request), whatever the server sends and*)
(* even when requests share an id: a promise settles once; a body is       *)
(* delivered only to a request that was still waiting for one; it grows by *)
(* one chunk at a time and not at all once it has ended or was destroyed; a*)
(* buffered response settles after the end of its body, a streamed one with*)
(* the beginning.                                                          *)
(*                                                                         *)
(* A frame may tell something to every request with its id, hence the      *)
(* conjunction in Next.                                                    *)
(***************************************************************************)
EXTENDS Naturals

CONSTANTS Requests, Streamed

VARIABLES promise,  \* "new", "pending", "ok", "error" or "rejected"
          stream,   \* the body: "none", "open", "ended" or "destroyed"
          pushed    \* its chunks so far

vars == <<promise, stream, pushed>>

Init == /\ promise = [r \in Requests |-> "new"]
        /\ stream = [r \in Requests |-> "none"]
        /\ pushed = [r \in Requests |-> 0]

Promise(r, from, to) == promise[r] = from /\ promise'[r] = to
Stream(r, from, to) == stream[r] = from /\ stream'[r] = to
PromiseKept(r) == promise'[r] = promise[r]
BodyKept(r) == stream'[r] = stream[r] /\ pushed'[r] = pushed[r]

Call(r) == BodyKept(r) /\ \E p \in {"pending", "rejected"} : Promise(r, "new", p)

\* There is no body, and none will follow.
Fail(r) == stream[r] = "none" /\ BodyKept(r) /\ Promise(r, "pending", "error")

\* The first chunk, or the end of an empty body.
Begin(r) ==
  /\ Promise(r, "pending", IF r \in Streamed THEN "ok" ELSE "pending")
  /\ \/ Stream(r, "none", "open") /\ pushed'[r] = 1
     \/ Stream(r, "none", "ended") /\ pushed'[r] = 0

Push(r) == Stream(r, "open", "open") /\ pushed'[r] = pushed[r] + 1 /\ PromiseKept(r)

\* The end of the body, or an error inside it.
Close(r) == Stream(r, "open", "ended") /\ pushed'[r] = pushed[r] /\ PromiseKept(r)

\* The buffered body is handed over, or the error inside it.
Settle(r) ==
  /\ r \notin Streamed /\ stream[r] = "ended" /\ BodyKept(r)
  /\ \E p \in {"ok", "error"} : Promise(r, "pending", p)

\* The program gives up on a stream it was given.
Destroy(r) ==
  /\ promise[r] = "ok" /\ r \in Streamed
  /\ Stream(r, "open", "destroyed") /\ pushed'[r] = pushed[r] /\ PromiseKept(r)

Step(r) == \/ Call(r) \/ Fail(r) \/ Begin(r) \/ Push(r) \/ Close(r)
           \/ Settle(r) \/ Destroy(r)

Next == \A r \in Requests : Step(r) \/ (PromiseKept(r) /\ BodyKept(r))

Spec == Init /\ [][Next]_vars

=============================================================================
