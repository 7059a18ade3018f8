----------------------------- MODULE WorkQueue -----------------------------
(***************************************************************************)
(* The backpressure server (load/backpressure/queue/server): a handler     *)
(* goroutine per connection, one worker goroutine, the bounded channel of  *)
(* jobs between them and the atomic counters.                              *)
(*                                                                         *)
(* Every atomic access to shared state is a step of its own.  A handler    *)
(* has at most one job at a time, so a job is named by its connection.     *)
(* The channel has Go's semantics: a send to a full buffer parks the       *)
(* sender in a FIFO, and a receive moves the first parked sender's value   *)
(* into the buffer.                                                        *)
(*                                                                         *)
(* The peers speak as the load client does, a request and then its reply,  *)
(* and may send another line or leave at any time.                         *)
(***************************************************************************)
EXTENDS Naturals, Sequences, FiniteSets

CONSTANTS Conn,         \* connections
          Capacity,     \* cap(jobs): 4 in the code
          None,         \* no job
          MaxAccepted   \* bound on the requests the peers send

ASSUME WorkQueueAssumption ==
  /\ IsFiniteSet(Conn) /\ None \notin Conn
  /\ Capacity \in Nat \ {0}
  /\ MaxAccepted \in Nat

VARIABLES policy,     \* the flag of the program: "block" or "reject"
          pc,         \* where each handler is
          inbox,      \* the line on its way to each handler
          outbox,     \* the reply on its way back
          peer,       \* the other end of each connection
          jobs,       \* the channel's buffer
          parked,     \* the channel's blocked senders
          working,    \* the worker's job
          counted,    \* the worker has counted it as completed
          done,       \* jobs whose Done channel is closed and not yet seen
          accepted, queued, completed, waiting, rejected   \* Counters

handlerVars == <<pc, inbox, outbox>>
channelVars == <<jobs, parked>>
workerVars  == <<working, counted>>
counterVars == <<accepted, queued, completed, waiting, rejected>>
vars == <<policy, handlerVars, peer, channelVars, workerVars, done, counterVars>>

Goto(c, at) == pc' = [pc EXCEPT ![c] = at]

Init ==
  /\ policy \in {"block", "reject"}
  /\ pc = [c \in Conn |-> "none"]
  /\ inbox = [c \in Conn |-> "none"]
  /\ outbox = [c \in Conn |-> "none"]
  /\ peer = [c \in Conn |-> "none"]
  /\ jobs = <<>> /\ parked = <<>>
  /\ working = None /\ counted = FALSE
  /\ done = {}
  /\ accepted = 0 /\ queued = 0 /\ completed = 0
  /\ waiting = 0 /\ rejected = 0

-----------------------------------------------------------------------------
(* The channel.                                                            *)

\* Mutant: the buffer has one slot too many.
FullLate == Len(jobs) > Capacity

\* No room in the buffer.
Full == Len(jobs) >= Capacity

\* A receive takes the head of the buffer; the first parked sender's value
\* takes the free slot and its goroutine becomes runnable.
ReceiveJob ==
  /\ jobs # <<>>
  /\ \/ /\ parked = <<>>
        /\ jobs' = Tail(jobs)
        /\ UNCHANGED <<parked, pc>>
     \/ /\ parked # <<>>
        /\ jobs' = Append(Tail(jobs), Head(parked))
        /\ parked' = Tail(parked)
        /\ Goto(Head(parked), "sent")

-----------------------------------------------------------------------------
(* handleConnection.                                                       *)

\* ReadString returns a request, which is counted.
ReadWork(c) ==
  /\ pc[c] = "read" /\ inbox[c] = "WORK"
  /\ inbox' = [inbox EXCEPT ![c] = "none"]
  /\ accepted' = accepted + 1
  /\ Goto(c, "accepted")
  /\ UNCHANGED <<outbox, peer, channelVars, workerVars, done, queued,
                 completed, waiting, rejected>>

\* ReadString returns another line, or fails once the peer has left.
ReadOther(c) ==
  /\ pc[c] = "read"
  /\ inbox[c] = "other" \/ peer[c] = "gone"
  /\ inbox' = [inbox EXCEPT ![c] = "none"]
  /\ Goto(c, "closed")
  /\ UNCHANGED <<outbox, peer, channelVars, workerVars, done, counterVars>>

\* Policy reject: the non-blocking send succeeds or the default is taken.
Offer(c) ==
  /\ pc[c] = "accepted" /\ policy = "reject"
  /\ \/ ~Full /\ jobs' = Append(jobs, c) /\ Goto(c, "submitted")
     \/ Full /\ UNCHANGED jobs /\ Goto(c, "refused")
  /\ UNCHANGED <<inbox, outbox, peer, parked, workerVars, done, counterVars>>

\* counters.Rejected.Add(1).
CountRejected(c) ==
  /\ pc[c] = "refused"
  /\ rejected' = rejected + 1
  /\ Goto(c, "busy")
  /\ UNCHANGED <<inbox, outbox, peer, channelVars, workerVars, done, accepted,
                 queued, completed, waiting>>

\* Policy block: counters.Waiting.Add(1).
StartWaiting(c) ==
  /\ pc[c] = "accepted" /\ policy = "block"
  /\ waiting' = waiting + 1
  /\ Goto(c, "send")
  /\ UNCHANGED <<inbox, outbox, peer, channelVars, workerVars, done, accepted,
                 queued, completed, rejected>>

\* jobs <- job: into the buffer, or parked while it is full.
Send(c) ==
  /\ pc[c] = "send"
  /\ \/ /\ ~Full /\ jobs' = Append(jobs, c)
        /\ UNCHANGED parked /\ Goto(c, "sent")
     \/ /\ Full /\ parked' = Append(parked, c)
        /\ UNCHANGED jobs /\ Goto(c, "parked")
  /\ UNCHANGED <<inbox, outbox, peer, workerVars, done, counterVars>>

\* Mutant: the gauge is not taken down again.
KeepWaiting(c) ==
  /\ pc[c] = "sent"
  /\ Goto(c, "submitted")
  /\ UNCHANGED <<inbox, outbox, peer, channelVars, workerVars, done,
                 counterVars>>

\* counters.Waiting.Add(-1).
StopWaiting(c) ==
  /\ pc[c] = "sent"
  /\ waiting' = waiting - 1
  /\ Goto(c, "submitted")
  /\ UNCHANGED <<inbox, outbox, peer, channelVars, workerVars, done, accepted,
                 queued, completed, rejected>>

\* counters.Queued.Add(1), after the submission.
CountQueued(c) ==
  /\ pc[c] = "submitted"
  /\ queued' = queued + 1
  /\ Goto(c, "await")
  /\ UNCHANGED <<inbox, outbox, peer, channelVars, workerVars, done, accepted,
                 completed, waiting, rejected>>

\* A write succeeds, or fails and ends the handler once the peer has left.
Reply(c, line) ==
  \/ outbox' = [outbox EXCEPT ![c] = line] /\ Goto(c, "read")
  \/ peer[c] = "gone" /\ Goto(c, "closed") /\ UNCHANGED outbox

WriteBusy(c) ==
  /\ pc[c] = "busy"
  /\ Reply(c, "BUSY")
  /\ UNCHANGED <<inbox, peer, channelVars, workerVars, done, counterVars>>

\* Mutant: the reply does not wait for the worker.
DoneEarly(c) ==
  /\ pc[c] = "await"
  /\ done' = done \ {c}
  /\ Reply(c, "DONE")
  /\ UNCHANGED <<inbox, peer, channelVars, workerVars, counterVars>>

\* <-job.Done returns once the worker has closed it; then the reply.
WriteDone(c) ==
  /\ pc[c] = "await" /\ c \in done
  /\ done' = done \ {c}
  /\ Reply(c, "DONE")
  /\ UNCHANGED <<inbox, peer, channelVars, workerVars, counterVars>>

-----------------------------------------------------------------------------
(* The worker.                                                             *)

\* range jobs: the next job; processing it takes the worker's time only.
Take ==
  /\ working = None
  /\ ReceiveJob
  /\ working' = Head(jobs)
  /\ UNCHANGED <<inbox, outbox, peer, counted, done, counterVars>>

\* counters.Completed.Add(1).
CountCompleted ==
  /\ working # None /\ ~counted
  /\ completed' = completed + 1 /\ counted' = TRUE
  /\ UNCHANGED <<handlerVars, peer, channelVars, working, done, accepted,
                 queued, waiting, rejected>>

\* Mutant: the worker takes up the next job without closing job.Done.
CloseForgotten ==
  /\ working # None /\ counted
  /\ working' = None /\ counted' = FALSE
  /\ UNCHANGED <<handlerVars, peer, channelVars, done, counterVars>>

\* close(job.Done).
CloseDone ==
  /\ working # None /\ counted
  /\ done' = done \cup {working}
  /\ working' = None /\ counted' = FALSE
  /\ UNCHANGED <<handlerVars, peer, channelVars, counterVars>>

-----------------------------------------------------------------------------
(* Peers.                                                                  *)

\* Accept: a handler starts.
Connect(c) ==
  /\ peer[c] = "none" /\ pc[c] = "none"
  /\ peer' = [peer EXCEPT ![c] = "idle"]
  /\ Goto(c, "read")
  /\ UNCHANGED <<inbox, outbox, channelVars, workerVars, done, counterVars>>

Ask(c) == \E line \in {"WORK", "other"} :
  /\ peer[c] = "idle" /\ accepted < MaxAccepted
  /\ peer' = [peer EXCEPT ![c] = "asking"]
  /\ inbox' = [inbox EXCEPT ![c] = line]
  /\ UNCHANGED <<pc, outbox, channelVars, workerVars, done, counterVars>>

TakeReply(c) ==
  /\ peer[c] = "asking" /\ outbox[c] # "none"
  /\ peer' = [peer EXCEPT ![c] = "idle"]
  /\ outbox' = [outbox EXCEPT ![c] = "none"]
  /\ UNCHANGED <<pc, inbox, channelVars, workerVars, done, counterVars>>

\* The peer closes, with or without a request under way.
Leave(c) ==
  /\ peer[c] \in {"idle", "asking"}
  /\ peer' = [peer EXCEPT ![c] = "gone"]
  /\ UNCHANGED <<handlerVars, channelVars, workerVars, done, counterVars>>

-----------------------------------------------------------------------------
Handler(c) ==
  /\ \/ ReadWork(c) \/ ReadOther(c)
     \/ Offer(c) \/ CountRejected(c) \/ WriteBusy(c)
     \/ StartWaiting(c) \/ Send(c) \/ StopWaiting(c)
     \/ CountQueued(c) \/ WriteDone(c)
  /\ UNCHANGED policy

Worker  == (Take \/ CountCompleted \/ CloseDone) /\ UNCHANGED policy
Peer(c) ==
  /\ Connect(c) \/ Ask(c) \/ TakeReply(c) \/ Leave(c)
  /\ UNCHANGED policy

Next == (\E c \in Conn : Handler(c) \/ Peer(c)) \/ Worker

Spec == Init /\ [][Next]_vars

\* The Go scheduler runs every runnable goroutine.
FairSpec == Spec /\ WF_vars(Worker) /\ \A c \in Conn : WF_vars(Handler(c))

-----------------------------------------------------------------------------
(* Correctness.                                                            *)

\* Type invariant: every variable holds a value of its kind, and the gauge of
\* waiting handlers never goes below zero.
TypeOK ==
  /\ policy \in {"block", "reject"}
  /\ pc \in [Conn -> {"none", "read", "accepted", "refused", "busy", "send",
                      "parked", "sent", "submitted", "await", "closed"}]
  /\ inbox \in [Conn -> {"none", "WORK", "other"}]
  /\ outbox \in [Conn -> {"none", "BUSY", "DONE"}]
  /\ peer \in [Conn -> {"none", "idle", "asking", "gone"}]
  /\ jobs \in Seq(Conn) /\ parked \in Seq(Conn)
  /\ working \in Conn \cup {None} /\ counted \in BOOLEAN
  /\ counted => working # None
  /\ done \subseteq Conn
  /\ accepted \in Nat /\ queued \in Nat /\ completed \in Nat
  /\ waiting \in Nat /\ rejected \in Nat

At(phases) == {c \in Conn : pc[c] \in phases}
Contents(s) == {s[i] : i \in 1 .. Len(s)}

\* Each submitted job is in exactly one place - parked, buffered, with the
\* worker or done - until its handler has seen it done, and no other job is
\* anywhere, also when the peer left meanwhile.
NoJobLost ==
  /\ Contents(jobs) \cup Contents(parked) \cup done \cup ({working} \ {None})
       = At({"parked", "sent", "submitted", "await"})
  /\ Len(jobs) + Len(parked) + Cardinality(done)
       + (IF working = None THEN 0 ELSE 1)
       = Cardinality(At({"parked", "sent", "submitted", "await"}))

\* Every request counted as accepted is accounted for by queued, by rejected or
\* by a handler on the way to one of the two counters.
AcceptedBalance ==
  accepted = queued + rejected
    + Cardinality(At({"accepted", "refused", "send", "parked", "sent",
                      "submitted"}))

\* The submitting gauge counts the handlers inside the blocking submission,
\* those included whose job is already in the buffer or even finished.
WaitingGauge == waiting = Cardinality(At({"send", "parked", "sent"}))

\* Completed runs ahead of queued by handlers that have not yet counted their
\* submission, and behind it by the jobs not yet processed.
CompletedBalance ==
  completed + Len(jobs) + Len(parked)
      + (IF working # None /\ ~counted THEN 1 ELSE 0)
    = queued + Cardinality(At({"parked", "sent", "submitted"}))

\* The three balances together: no order of the separate updates lets a counter
\* drift away from what the handlers, the channel and the worker have done.
CountersBalance == AcceptedBalance /\ WaitingGauge /\ CompletedBalance

\* A submitter is parked only while the buffer is full, and the reject policy
\* leaves at most Capacity jobs behind the one being processed.
ParkedOnlyWhenFull ==
  /\ Len(jobs) <= Capacity
  /\ parked # <<>> => Len(jobs) = Capacity

\* A peer that asks and stays gets a reply or sees the connection close.
AskIsAnswered == \A c \in Conn :
  peer[c] = "asking" ~>
    peer[c] = "gone" \/ outbox[c] # "none" \/ pc[c] = "closed"

\* The admitted, unfinished requests: the worker's, the buffered, the parked.
Backlog == (IF working # None /\ ~counted THEN <<working>> ELSE <<>>)
             \o jobs \o parked

Service == INSTANCE FifoService WITH
  Client <- Conn, backlog <- Backlog, finished <- completed,
  limit <- IF policy = "reject" THEN Capacity + 1 ELSE Cardinality(Conn)

\* The server is a first-come first-served service with a bounded backlog: no
\* handler overtakes another between submission and completion.
ImplementsFifo == Service!Spec
=============================================================================
