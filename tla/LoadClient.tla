----------------------------- MODULE LoadClient -----------------------------
(***************************************************************************)
(* The load generators load/backpressure/queue/client and                  *)
(* load/concurrency/client: a goroutine per client dials and waits at the  *)
(* start, main publishes one deadline and releases them together, each     *)
(* sends requests until that deadline, hands its counts to main through    *)
(* the results channel and leaves its group; main adds the counts up.      *)
(*                                                                         *)
(* The server answers a request, late or never, or fails.  now is the      *)
(* clock against the shared deadline.  A result in the channel is named by *)
(* its client.  Latencies are summed up in bags, main's by LatencyStats.   *)
(* attempts, served and faulty are history.                                *)
(***************************************************************************)
EXTENDS LatencyStats

CONSTANTS Client,      \* the clients that main starts
          MaxAttempts  \* bound on the requests of one client

ASSUME LoadAssumption ==
  IsFiniteSet(Client) /\ Client # {} /\ MaxAttempts \in Nat

VARIABLES program,   \* "queue" or "concurrency": which of the clients runs
          retryDelay, \* -retry-delay is positive
          main,      \* where main is
          readyGroup, doneGroup,  \* the two WaitGroups
          published, \* deadline has its value
          start,     \* the start channel has been closed
          results,   \* the channel of results
          total, received,  \* what main has added up, of how many clients
          now,       \* the clock: before or after the deadline
          client,    \* where each client is
          result,    \* its counts
          latencies, \* result.Latencies: how often each was measured
          response,  \* what its last exchange returned
          wire,      \* its connection: idle, a request or a reply under way, closed
          attempts,  \* requests each client has begun
          served,    \* the DONE replies it was sent before the deadline
          faulty     \* the server or the network failed

mainVars == <<main, published, start, total, measured, received>>
clientVars == <<client, result, latencies, response, wire>>
sharedVars == <<readyGroup, doneGroup, results>>
histVars == <<attempts, served, faulty>>
run == <<program, retryDelay, now>>
loadVars == <<mainVars, sharedVars, run, clientVars, histVars>>

NoCounts == [completed |-> 0, errors |-> 0, unfinished |-> 0, rejected |-> 0]
Add(r, q) == [f \in DOMAIN NoCounts |-> r[f] + q[f]]
AddAll(m, n) == [v \in Latency |-> m[v] + n[v]]
Attempted(r) == r.completed + r.errors + r.unfinished + r.rejected

LoadInit ==
  /\ program \in {"queue", "concurrency"}
  /\ retryDelay \in (IF program = "queue" THEN BOOLEAN ELSE {FALSE})
  /\ main = "ready" /\ readyGroup = Cardinality(Client) /\ doneGroup = Cardinality(Client)
  /\ published = FALSE /\ start = FALSE /\ results = {} /\ total = NoCounts /\ received = 0
  /\ now = "early" /\ measured = Unmeasured
  /\ latencies = [c \in Client |-> Unmeasured]
  /\ client = [c \in Client |-> "dial"] /\ result = [c \in Client |-> NoCounts]
  /\ response = [c \in Client |-> "none"] /\ wire = [c \in Client |-> "idle"]
  /\ attempts = [c \in Client |-> 0] /\ served = [c \in Client |-> 0]
  /\ faulty = FALSE

-----------------------------------------------------------------------------
(* One client.                                                             *)

Move(c, at) == client' = [client EXCEPT ![c] = at]
Tally(c, f) == result' = [result EXCEPT ![c][f] = @ + 1]

\* DialTimeout, and ready.Done() either way.
Dial(c) ==
  /\ client[c] = "dial"
  /\ readyGroup' = readyGroup - 1
  /\ \/ Move(c, "start") /\ UNCHANGED <<result, faulty>>
     \/ Move(c, "report") /\ Tally(c, "errors") /\ faulty' = TRUE
  /\ UNCHANGED <<mainVars, doneGroup, results, run, latencies, response, wire, attempts, served>>

\* <-start; SetDeadline, which may fail.
Begin(c) ==
  /\ client[c] = "start" /\ start
  /\ \/ Move(c, "loop") /\ UNCHANGED <<result, faulty>>
     \/ Move(c, "report") /\ Tally(c, "errors") /\ faulty' = TRUE
  /\ UNCHANGED <<mainVars, sharedVars, run, latencies, response, wire, attempts, served>>

\* for time.Now().Before(deadline).
NextRequest(c) ==
  /\ client[c] = "loop"
  /\ \/ /\ now = "early" /\ attempts[c] < MaxAttempts
        /\ attempts' = [attempts EXCEPT ![c] = @ + 1] /\ Move(c, "write")
     \/ now = "late" /\ Move(c, "report") /\ UNCHANGED attempts
  /\ UNCHANGED <<mainVars, sharedVars, run, latencies, result, response, wire, served, faulty>>

Write(c) ==
  /\ client[c] = "write" /\ wire[c] = "idle"
  /\ wire' = [wire EXCEPT ![c] = "WORK"] /\ Move(c, "read")
  /\ UNCHANGED <<mainVars, sharedVars, run, latencies, result, response, histVars>>

\* ReadString returns a line, perhaps although the deadline has passed.
Read(c) ==
  /\ client[c] = "read" /\ wire[c] \in {"DONE", "BUSY", "other"}
  /\ response' = [response EXCEPT ![c] = wire[c]]
  /\ wire' = [wire EXCEPT ![c] = "idle"] /\ Move(c, "answered")
  /\ UNCHANGED <<mainVars, sharedVars, run, latencies, result, histVars>>

\* Mutant: SetDeadline is missing.
WithoutDeadline(c) ==
  /\ client[c] \in {"write", "read"} /\ wire[c] = "closed"
  /\ response' = [response EXCEPT ![c] = "error"]
  /\ Move(c, "answered")
  /\ UNCHANGED <<mainVars, sharedVars, run, latencies, result, wire, histVars>>

\* The write or the read times out at the deadline, or the server has gone.
IOFails(c) == \E err \in {"timeout", "error"} :
  /\ client[c] \in {"write", "read"}
  /\ err = "timeout" => now = "late"
  /\ err = "error" => wire[c] = "closed"
  /\ response' = [response EXCEPT ![c] = err]
  /\ Move(c, "answered")
  /\ UNCHANGED <<mainVars, sharedVars, run, latencies, result, wire, histVars>>

\* Mutant: responseTime is not compared with the deadline.
NeverLate == FALSE

\* !time.Now().Before(deadline).
Late == now = "late"

\* Mutant: a timeout is an error whenever it comes.
CutoffFails(c) == response[c] \in {"timeout", "error", "other"}

\* What counts as a failure.  Only queue/client looks at the clock before it
\* looks at what the reply says.
Failed(c) ==
  \/ response[c] = "error"
  \/ response[c] = "timeout" /\ ~Late
  \/ response[c] = "other" /\ (program = "concurrency" \/ ~Late)

\* append(result.Latencies, ...): the clock may show any of the latencies.
MeasureLatency(c) == \E v \in Latency :
  latencies' = [latencies EXCEPT ![c][v] = @ + 1]

\* The outcome of one request, with the clock read after the exchange.
Judge(c) ==
  /\ client[c] = "answered"
  /\ \/ Failed(c) /\ Tally(c, "errors") /\ Move(c, "report") /\ UNCHANGED latencies
     \/ /\ ~Failed(c) /\ Late
        /\ Tally(c, "unfinished") /\ Move(c, "report") /\ UNCHANGED latencies
     \/ /\ ~Failed(c) /\ ~Late /\ response[c] = "DONE"
        /\ Tally(c, "completed") /\ Move(c, "loop") /\ MeasureLatency(c)
     \/ /\ ~Failed(c) /\ ~Late /\ response[c] = "BUSY" /\ UNCHANGED latencies
        /\ Tally(c, "rejected") /\ Move(c, IF retryDelay THEN "pause" ELSE "loop")
  /\ UNCHANGED <<mainVars, sharedVars, run, response, wire, histVars>>

\* The delay after BUSY, which never outlasts the deadline.
Pause(c) ==
  /\ client[c] = "pause"
  /\ Move(c, IF Late THEN "report" ELSE "loop")
  /\ UNCHANGED <<mainVars, sharedVars, run, latencies, result, response, wire, histVars>>

\* make(chan ClientResult, n).
Room == Cardinality(results) < Cardinality(Client)

\* Deferred, once the connection is closed: results <- result.
Report(c) ==
  /\ client[c] = "report" /\ Room
  /\ results' = results \cup {c} /\ Move(c, "leave")
  /\ UNCHANGED <<mainVars, readyGroup, doneGroup, run, latencies, result, response, wire, histVars>>

\* Deferred, last: done.Done().
LeaveGroup(c) ==
  /\ client[c] = "leave"
  /\ doneGroup' = doneGroup - 1 /\ Move(c, "done")
  /\ UNCHANGED <<mainVars, readyGroup, results, run, latencies, result, response, wire, histVars>>

-----------------------------------------------------------------------------
(* main.                                                                   *)

\* ready.Wait, and the deadline of the whole run.
Publish ==
  /\ main = "ready" /\ readyGroup = 0
  /\ published' = TRUE /\ main' = "start"
  /\ UNCHANGED <<start, total, measured, received, sharedVars, run, clientVars, histVars>>

\* close(start).
Start ==
  /\ main = "start"
  /\ start' = TRUE /\ main' = "wait"
  /\ UNCHANGED <<published, total, measured, received, sharedVars, run, clientVars, histVars>>

\* done.Wait.
Wait ==
  /\ main = "wait" /\ doneGroup = 0
  /\ main' = "gather"
  /\ UNCHANGED <<published, start, total, measured, received, sharedVars, run, clientVars, histVars>>

\* One of the n receives.
Gather == \E c \in results :
  /\ main = "gather" /\ received < Cardinality(Client)
  /\ received' = received + 1
  /\ results' = results \ {c} /\ total' = Add(total, result[c])
  /\ measured' = AddAll(measured, latencies[c])
  /\ UNCHANGED <<main, published, start, readyGroup, doneGroup, run, clientVars, histVars>>

\* All n results have been received.
PrintTotals ==
  /\ main = "gather" /\ received = Cardinality(Client)
  /\ main' = "printed"
  /\ UNCHANGED <<published, start, total, measured, received, sharedVars, run, clientVars, histVars>>

-----------------------------------------------------------------------------
(* The server and the clock.                                               *)

\* The server has done the work, or has no room for it.
Serve(c) == \E line \in {"DONE"} \cup (IF program = "queue" THEN {"BUSY"} ELSE {}) :
  /\ wire[c] = "WORK"
  /\ wire' = [wire EXCEPT ![c] = line]
  /\ served' = IF line = "DONE" /\ now = "early" THEN [served EXCEPT ![c] = @ + 1]
               ELSE served
  /\ UNCHANGED <<mainVars, sharedVars, run, latencies, client, result, response, attempts, faulty>>

\* It sends something else, or the connection ends.
Fault(c) == \E line \in {"other", "closed"} :
  /\ wire[c] = "WORK" \/ (line = "closed" /\ wire[c] = "idle" /\ client[c] # "dial")
  /\ wire' = [wire EXCEPT ![c] = line] /\ faulty' = TRUE
  /\ UNCHANGED <<mainVars, sharedVars, run, latencies, client, result, response, attempts, served>>

\* The deadline passes.
Expire ==
  /\ published /\ now = "early" /\ now' = "late"
  /\ UNCHANGED <<program, retryDelay, mainVars, sharedVars, clientVars, histVars>>

Main == Publish \/ Start \/ Wait \/ Gather \/ PrintTotals
ClientStep(c) ==
  \/ Dial(c) \/ Begin(c) \/ NextRequest(c) \/ Write(c) \/ Read(c) \/ IOFails(c) \/ Judge(c)
  \/ Pause(c) \/ Report(c) \/ LeaveGroup(c)

LoadNext ==
  \/ Main \/ Expire
  \/ \E c \in Client : ClientStep(c) \/ Serve(c) \/ Fault(c)

LoadSpec == LoadInit /\ [][LoadNext]_loadVars

\* Goroutines are scheduled, a dial returns within its timeout and the deadline
\* passes; nothing is assumed of the server.
FairLoadSpec ==
  /\ LoadSpec
  /\ WF_loadVars(Main) /\ WF_loadVars(Expire) /\ \A c \in Client : WF_loadVars(ClientStep(c))

-----------------------------------------------------------------------------
Counts == [DOMAIN NoCounts -> Nat]

\* Every variable has its type; a WaitGroup below zero would be a panic.
LoadTypeOK ==
  /\ program \in {"queue", "concurrency"} /\ retryDelay \in BOOLEAN
  /\ main \in {"ready", "start", "wait", "gather", "printed"}
  /\ readyGroup \in Nat /\ doneGroup \in Nat /\ received \in Nat
  /\ published \in BOOLEAN /\ start \in BOOLEAN /\ faulty \in BOOLEAN
  /\ results \subseteq Client /\ now \in {"early", "late"}
  /\ total \in Counts /\ result \in [Client -> Counts]
  /\ measured \in [Latency -> Nat] /\ latencies \in [Client -> [Latency -> Nat]]
  /\ client \in [Client -> {"dial", "start", "loop", "write", "read", "answered", "pause",
                            "report", "leave", "done"}]
  /\ response \in [Client -> {"none", "DONE", "BUSY", "other", "timeout", "error"}]
  /\ wire \in [Client -> {"idle", "WORK", "DONE", "BUSY", "other", "closed"}]
  /\ attempts \in [Client -> Nat] /\ served \in [Client -> Nat]

\* The end of the run is not an error: as long as dials succeed and the server
\* speaks the protocol, no client counts one, wherever the deadline catches it
\* (queue/client main.go:71-82, concurrency/client main.go:57-76).
CutoffIsNotFailure == ~faulty => \A c \in Client : result[c].errors = 0

\* The throughput is that of the run's window: a client never counts a reply
\* that the server sent too late, and a reply sent in time that it does not
\* count shows up as its one unfinished or failed request (queue/client
\* main.go:79, :104, :132).
ThroughputIsExact == \A c \in Client :
  /\ result[c].completed <= served[c]
  /\ client[c] \in {"report", "leave", "done"} =>
       served[c] - result[c].completed <= result[c].unfinished + result[c].errors

\* What main prints accounts for every request once, and for every client that
\* could not connect or set its deadline (queue/client main.go:115-131).
TotalsAreExact ==
  main = "printed" =>
    Attempted(total) =
      MapThenSumSet(LAMBDA c : attempts[c], Client)
        + Cardinality({c \in Client : attempts[c] = 0 /\ result[c].errors = 1})

\* What is printed is exact, of values of their types.
CountsAreExact == LoadTypeOK /\ ThroughputIsExact /\ TotalsAreExact

\* The latencies printed are those of the completed requests, of all clients,
\* and the statistics of them are right by definition.
StatsByDefinition ==
  main = "printed" =>
    Size = total.completed /\ NearestRank /\ MedianHalves /\ StatsOrdered

\* The run ends, although every client may be waiting for a server that never
\* answers (queue/client main.go:58, :113).
RunEnds == <>(main = "printed")
=============================================================================
