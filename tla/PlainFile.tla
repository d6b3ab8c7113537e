----------------------------- MODULE PlainFile -----------------------------
(***************************************************************************)
(* What AsyncRead, AsyncWrite and AsyncSeek promise of a file: each call   *)
(* takes effect on the bytes and on one position, at once, or fails and    *)
(* changes neither.                                                        *)
(***************************************************************************)
EXTENDS Readers

VARIABLES
  data, pos,   \* the bytes and the position
  call,        \* the call that is served
  ret          \* what the last call that is over has returned

vars == <<data, pos, call, ret>>

Target == CASE call.whence = "start" -> call.n
            [] call.whence = "current" -> pos + call.n
            [] call.whence = "end" -> Len(data) + call.n

DoRead ==
  /\ call.op \in {"read", "fill"}
  /\ \E n \in 0..call.n :
       /\ pos + n <= Len(data) \/ n = 0
       /\ n = 0 => pos >= Len(data) \/ call.n = 0
       /\ pos' = pos + n
       /\ ret' = <<"bytes", SubSeq(data, pos + 1, pos + n)>>
  /\ UNCHANGED data

DoWrite ==
  /\ call.op = "write"
  /\ \E n \in 0..Len(call.bytes) :
       /\ data' = Put(data, pos, SubSeq(call.bytes, 1, n))
       /\ pos' = pos + n
       /\ ret' = <<"wrote", n>>

DoSeek ==
  /\ call.op = "seek"
  /\ Target >= 0
  /\ pos' = Target
  /\ ret' = <<"at", Target>>
  /\ UNCHANGED data

DoFlush == call.op = "flush" /\ ret' = <<"flushed">> /\ UNCHANGED <<data, pos>>

\* The next call, or an error.
Other == UNCHANGED <<data, pos>> /\ (ret' = <<"error">> \/ UNCHANGED ret)

Next == DoRead \/ DoWrite \/ DoSeek \/ DoFlush \/ Other

Spec == ret = <<"none">> /\ pos = 0 /\ [][Next]_vars
=============================================================================
