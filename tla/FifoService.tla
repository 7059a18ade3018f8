---------------------------- MODULE FifoService ----------------------------
(***************************************************************************)
(* What the backpressure server does to its requests, without handlers,    *)
(* channel or worker: admitted requests are finished one at a time, in the *)
(* order in which they were admitted, and at most limit are unfinished.    *)
(***************************************************************************)
EXTENDS Naturals, Sequences
CONSTANT Client
VARIABLES backlog,    \* the admitted, unfinished requests, oldest first
          finished,   \* how many were finished
          limit       \* of those unfinished, set once

AbsInit == backlog = <<>> /\ finished = 0 /\ limit \in Nat

Admit == \E c \in Client :
  /\ Len(backlog) < limit
  /\ \A i \in 1 .. Len(backlog) : backlog[i] # c
  /\ backlog' = Append(backlog, c)
  /\ UNCHANGED <<finished, limit>>

Finish ==
  /\ backlog # <<>>
  /\ backlog' = Tail(backlog)
  /\ finished' = finished + 1
  /\ UNCHANGED limit

Spec == AbsInit /\ [][Admit \/ Finish]_<<backlog, finished, limit>>
=============================================================================
