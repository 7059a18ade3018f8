------------------------- MODULE AtMostOnceService -------------------------
(***************************************************************************)
(* What a client of the UDP protocol may rely on, without the network, the *)
(* cache or the retries: an execution of the server gives a key (source    *)
(* address and request id) at most one result, and a client is answered at *)
(* most once, with the result of its own id.                               *)
(***************************************************************************)
EXTENDS Naturals
CONSTANTS Client, Execution, ClientId, None

VARIABLES results,   \* the results given, one per incarnation and key
          accepted   \* the result each client took, None before

AbsInit == results = {} /\ accepted = [c \in Client |-> None]

\* A result is chosen once for an incarnation and a key.
Give == \E e \in results' :
  /\ e \in Execution
  /\ \A f \in results : ~(f.inc = e.inc /\ f.key = e.key)
  /\ results' = results \cup {e}
  /\ UNCHANGED accepted

\* A client takes a result that was given to its id, and keeps it.
Take(c) == \E e \in results :
  /\ accepted[c] = None
  /\ e.key.id = ClientId /\ e.resp.id = ClientId
  /\ accepted' = [accepted EXCEPT ![c] = e]
  /\ UNCHANGED results

AbsNext == Give \/ \E c \in Client : Take(c)

Spec == AbsInit /\ [][AbsNext]_<<results, accepted>>
=============================================================================
