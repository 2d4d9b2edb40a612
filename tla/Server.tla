------------------------------- MODULE Server -------------------------------
(***************************************************************************)
(* The observer as its clients see it: the network thread that accepts     *)
(* connections and reads requests (net/server.cpp), the queue of           *)
(* SessionStage with the thread pool that serves it (the SEDA library),    *)
(* the walk of a request through the stages, the answer, and the end of    *)
(* the process.                                                            *)
(*                                                                         *)
(*   peer, wire   the client's end: connected or not, and the bytes it has *)
(*                sent that the server has not read                        *)
(*   sent, got    the kinds of the requests of each client, and the        *)
(*                numbers of those whose answer it has in full             *)
(*   part         the request whose answer the client has without the '\0' *)
(*   ctx, buf     ConnectionContext, and the request in its buffer         *)
(*   net          what the network thread is doing                         *)
(*   events, ref  Stage::event_list_ and event_ref_ of SessionStage        *)
(*   runq, idles  Threadpool::run_queue_ (its length: one stage is ever    *)
(*                scheduled) and n_idles_                                  *)
(*   pc, job      each pool thread: where it is, and on what               *)
(*   phase, down  how far main is, and what ended the process              *)
(*   left         the clients that went away with a request unanswered     *)
(*                (history)                                                *)
(***************************************************************************)
EXTENDS Integers, SequencesExt

CONSTANTS
  Clients,
  Threads,       \* the SQL threads of etc/observer.ini
  Slow,          \* the clients whose requests arrive in pieces
  MaxRequests    \* bound: requests of each client

ASSUME ServerAssumption ==
  /\ IsFiniteSet(Threads)
  /\ Slow \subseteq Clients
  /\ MaxRequests \in [Clients -> Nat]

VARIABLES peer, wire, sent, got, part, ctx, buf, net, events, ref, runq, idles,
          pc, job, phase, down, left

clientVars == <<peer, wire, sent, got, part, left>>
queueVars  == <<events, ref, runq, idles>>
threadVars == <<pc, job>>
vars == <<clientVars, ctx, buf, net, queueVars, threadVars, phase, down>>

Kind == {"blank", "statement"}

Nobody == [client |-> "none", at |-> "poll"]

NewJob(c) == [client |-> c, request |-> 0, response |-> "empty"]

NoJob == NewJob("none")

TypeOK ==
  /\ peer \in [Clients -> {"new", "open", "gone"}]
  /\ wire \in [Clients -> {"empty", "half", "whole", "full"}]
  /\ \A c \in Clients : /\ sent[c] \in Seq(Kind)
                        /\ got[c] \in Seq(DOMAIN sent[c])
                        /\ part[c] \in {0} \cup DOMAIN sent[c]
                        /\ buf[c] \in {0} \cup DOMAIN sent[c]
  /\ ctx \in [Clients -> {"none", "open", "lost", "freed"}]
  /\ net \in [client : Clients \cup {"none"}, at : {"poll", "read", "schedule"}]
  /\ events \in Seq(Clients)
  /\ ref \in Nat /\ runq \in Nat /\ idles \in 0 .. Cardinality(Threads)
  /\ pc \in [Threads -> {"loop", "wait", "woken", "take", "session", "execute",
                         "answer", "end", "release"}]
  /\ \A t \in Threads : /\ job[t].client \in Clients \cup {"none"}
                        /\ job[t].request \in Nat
                        /\ job[t].response \in {"empty", "text"}
  /\ phase \in {"init", "serving", "exiting", "cleaned"}
  /\ down \in {"no", "exit", "context", "handler", "sigpipe"}
  /\ left \subseteq Clients

Init ==
  /\ peer = [c \in Clients |-> "new"]
  /\ wire = [c \in Clients |-> "empty"]
  /\ sent = [c \in Clients |-> << >>]
  /\ got  = [c \in Clients |-> << >>]
  /\ part = [c \in Clients |-> 0]
  /\ ctx  = [c \in Clients |-> "none"]
  /\ buf  = [c \in Clients |-> 0]
  /\ net  = Nobody
  /\ events = << >> /\ ref = 0 /\ runq = 0 /\ idles = 0
  /\ pc   = [t \in Threads |-> "loop"]
  /\ job  = [t \in Threads |-> NoJob]
  /\ phase = "init" /\ down = "no" /\ left = {}

(***************************************************************************)
(* Clients.  They keep to the protocol the comment in Server::recv states: *)
(* one request, then its answer.                                           *)
(***************************************************************************)
Waiting(c) == Len(sent[c]) > Len(got[c])

(* A request, or its first bytes.                                          *)
Send(c, kind) ==
  /\ peer[c] = "open" /\ ctx[c] # "freed"
  /\ ~Waiting(c) /\ Len(sent[c]) < MaxRequests[c]
  /\ sent' = [sent EXCEPT ![c] = Append(@, kind)]
  /\ wire' = [wire EXCEPT ![c] = IF c \in Slow THEN "half" ELSE "whole"]
  /\ UNCHANGED <<peer, got, part, left, ctx, buf, net, queueVars, threadVars, phase, down>>

(* The rest of it; or so much that the buffer is full before its '\0'.     *)
SendRest(c) ==
  /\ peer[c] = "open" /\ ctx[c] # "freed"
  /\ wire[c] = "half"
  /\ \E w \in {"whole", "full"} : wire' = [wire EXCEPT ![c] = w]
  /\ UNCHANGED <<peer, sent, got, part, left, ctx, buf, net, queueVars, threadVars, phase, down>>

Leave(c) ==
  /\ peer[c] = "open" /\ ctx[c] # "freed"
  /\ peer' = [peer EXCEPT ![c] = "gone"]
  /\ left' = IF Waiting(c) THEN left \cup {c} ELSE left
  /\ UNCHANGED <<wire, sent, got, part, ctx, buf, net, queueVars, threadVars, phase, down>>

Client(c) ==
  \/ SendRest(c) \/ Leave(c)
  \/ \E kind \in Kind : Send(c, kind)

(***************************************************************************)
(* The network thread: libevent runs accept and recv, one at a time.       *)
(***************************************************************************)
Polling == phase \in {"serving", "exiting"} /\ net = Nobody

(* A client connects.  Server::accept makes the ConnectionContext and its  *)
(* Session; or drops the connection; or, when libevent refuses the event,  *)
(* closes the LISTENING socket and forgets the one it accepted (the        *)
(* context is lost).                                                       *)
Accept(c) ==
  /\ Polling /\ peer[c] = "new"
  /\ \A d \in Clients : ctx[d] # "lost"
  /\ \E outcome \in {"open", "freed", "lost"} : ctx' = [ctx EXCEPT ![c] = outcome]
  /\ peer' = [peer EXCEPT ![c] = IF ctx'[c] = "freed" THEN "gone" ELSE "open"]
  /\ UNCHANGED <<wire, sent, got, part, left, buf, net, queueVars, threadVars, phase, down>>

(* Server::close_connection: the context and its session are deleted.      *)
CloseConnection(c) == ctx' = [ctx EXCEPT ![c] = "freed"]

(* Server::recv clears the buffer and reads until it has a '\0'. While     *)
(* there is none it reads again and again, and serves nobody else.         *)
StartRecv(c) ==
  /\ Polling /\ ctx[c] = "open"
  /\ wire[c] # "empty" \/ peer[c] = "gone"
  /\ buf' = [buf EXCEPT ![c] = 0]
  /\ net' = [client |-> c, at |-> "read"]
  /\ UNCHANGED <<clientVars, ctx, queueVars, threadVars, phase, down>>

(* A whole request: the event is put on the queue of SessionStage (the     *)
(* first half of Stage::add_event).                                        *)
ReadRequestForgets(c) ==
  /\ net = [client |-> c, at |-> "read"] /\ wire[c] = "whole"
  /\ wire' = [wire EXCEPT ![c] = "empty"]
  /\ events' = Append(events, c)
  /\ ref' = ref + 1
  /\ net' = [client |-> c, at |-> "schedule"]
  /\ UNCHANGED <<peer, sent, got, part, left, ctx, buf, runq, idles, threadVars, phase, down>>

ReadRequest(c) ==
  /\ net = [client |-> c, at |-> "read"] /\ wire[c] = "whole"
  /\ wire' = [wire EXCEPT ![c] = "empty"]
  /\ buf' = [buf EXCEPT ![c] = Len(sent[c])]
  /\ events' = Append(events, c)
  /\ ref' = ref + 1
  /\ net' = [client |-> c, at |-> "schedule"]
  /\ UNCHANGED <<peer, sent, got, part, left, ctx, runq, idles, threadVars, phase, down>>

(* read() returns 0: the peer is gone, or the buffer has no room left.     *)
ReadNothing(c) ==
  /\ net = [client |-> c, at |-> "read"]
  /\ \/ wire[c] = "full"
     \/ wire[c] \in {"empty", "half"} /\ peer[c] = "gone"
  /\ CloseConnection(c)
  /\ net' = Nobody
  /\ UNCHANGED <<clientVars, buf, queueVars, threadVars, phase, down>>

(* Threadpool::schedule: the network thread is not a thread of the pool,   *)
(* so it always wakes an idle one (COND_SIGNAL wakes one that waits).      *)
MustSignalIfBusy == idles > 0 /\ runq > 0

MustSignal == idles > 0

ScheduleSessionTwice ==
  /\ net.at = "schedule"
  /\ runq' = runq + 2
  /\ net' = Nobody
  /\ UNCHANGED <<clientVars, ctx, buf, events, ref, idles, threadVars, phase, down>>

ScheduleSession ==
  /\ net.at = "schedule"
  /\ runq' = runq + 1
  /\ net' = Nobody
  /\ IF MustSignal /\ \E t \in Threads : pc[t] = "wait"
     THEN \E t \in Threads : pc[t] = "wait" /\ pc' = [pc EXCEPT ![t] = "woken"]
     ELSE pc' = pc
  /\ UNCHANGED <<clientVars, ctx, buf, events, ref, idles, job, phase, down>>

Recv(c) == StartRecv(c) \/ ReadRequest(c) \/ ReadNothing(c)

(***************************************************************************)
(* A thread of the pool: Threadpool::run_thread and, between taking the    *)
(* event and releasing it, the stages, which call one another directly.    *)
(***************************************************************************)
Goto(t, where) == pc' = [pc EXCEPT ![t] = where]

(* Reading a context that is freed, or the handler after cleanup, ends the *)
(* process (or worse: nothing more is said of it).                         *)
Broken(t) ==
  CASE pc[t] \in {"session", "answer", "end"} /\ ctx[job[t].client] = "freed" -> "context"
    [] pc[t] = "execute" /\ ctx[job[t].client] = "freed" -> "context"
    [] pc[t] = "execute" /\ phase = "cleaned" -> "handler"
    [] OTHER -> "no"

(* A thread that was woken has waited for the lock of the run queue too.   *)
TakeStageStillIdle(t) ==
  /\ pc[t] \in {"loop", "woken"}
  /\ IF runq = 0 THEN idles' = idles + 1 /\ runq' = runq /\ Goto(t, "wait")
                 ELSE idles' = idles /\ runq' = runq - 1 /\ Goto(t, "take")
  /\ UNCHANGED <<clientVars, ctx, buf, net, events, ref, job, phase, down>>

TakeStage(t) ==
  LET busy == IF pc[t] = "woken" THEN idles - 1 ELSE idles IN
  /\ pc[t] \in {"loop", "woken"}
  /\ IF runq = 0 THEN idles' = busy + 1 /\ runq' = runq /\ Goto(t, "wait")
                 ELSE idles' = busy /\ runq' = runq - 1 /\ Goto(t, "take")
  /\ UNCHANGED <<clientVars, ctx, buf, net, events, ref, job, phase, down>>

RemoveEvent(t) ==
  /\ pc[t] = "take" /\ events # << >>
  /\ job' = [job EXCEPT ![t] = NewJob(Head(events))]
  /\ events' = Tail(events)
  /\ Goto(t, "session")
  /\ UNCHANGED <<clientVars, ctx, buf, net, ref, runq, idles, phase, down>>

(* ParseStage: what does not parse has its answer; the rest goes on.       *)
Parsed ==
  {[next |-> "answer", response |-> "text"], [next |-> "execute", response |-> "empty"]}

(* SessionStage::handle_request copies the buffer of the CONNECTION.  A    *)
(* blank request is done with, and gets no answer; any other one goes      *)
(* through PlanCacheStage to ParseStage.                                   *)
HandleSession(t) ==
  LET c == job[t].client
      blank == buf[c] = 0 \/ sent[c][buf[c]] = "blank"
  IN
  /\ pc[t] = "session" /\ Broken(t) = "no"
  /\ \E out \in IF blank THEN {[next |-> "release", response |-> "empty"]} ELSE Parsed :
       /\ Goto(t, out.next)
       /\ job' = [job EXCEPT ![t].request = buf[c], ![t].response = out.response]
  /\ UNCHANGED <<clientVars, ctx, buf, net, queueVars, phase, down>>

(* ExecuteStage sets the response, or leaves it empty (SYNC, a SELECT that *)
(* fails).                                                                 *)
Executed == {"text", "empty"}

(* ResolveStage, which needs the session of the connection, and the stages *)
(* it calls.                                                               *)
HandleExecute(t) ==
  /\ pc[t] = "execute" /\ Broken(t) = "no"
  /\ \E response \in Executed : job' = [job EXCEPT ![t].response = response]
  /\ Goto(t, "answer")
  /\ UNCHANGED <<clientVars, ctx, buf, net, queueVars, phase, down>>

(* A write to a peer that is gone vanishes, or raises SIGPIPE, which       *)
(* nothing handles; common::writen reports errors as positive numbers, so  *)
(* Server::send never sees one.                                            *)
Reaches(c) == peer[c] = "open"

(* SessionStage::callback_event: an empty response is sent as "FAILURE\n"  *)
(* with its '\0', any other one without.                                   *)
SendResponseCloses(t) ==
  LET c == job[t].client IN
  /\ pc[t] = "answer" /\ Broken(t) = "no"
  /\ CloseConnection(c)
  /\ Goto(t, IF job[t].response = "empty" THEN "release" ELSE "end")
  /\ UNCHANGED <<clientVars, buf, net, queueVars, job, phase, down>>

SendResponse(t) ==
  LET c == job[t].client IN
  /\ pc[t] = "answer" /\ Broken(t) = "no"
  /\ IF job[t].response = "empty"
     THEN /\ Goto(t, "release") /\ part' = part
          /\ got' = IF Reaches(c) THEN [got EXCEPT ![c] = Append(@, job[t].request)] ELSE got
     ELSE /\ Goto(t, "end") /\ got' = got
          /\ part' = IF Reaches(c) THEN [part EXCEPT ![c] = job[t].request] ELSE part
  /\ UNCHANGED <<peer, wire, sent, left, ctx, buf, net, queueVars, job, phase, down>>

SendEnd(t) ==
  LET c == job[t].client IN
  /\ pc[t] = "end" /\ Broken(t) = "no"
  /\ Goto(t, "release")
  /\ IF Reaches(c)
     THEN got' = [got EXCEPT ![c] = Append(@, part[c])] /\ part' = [part EXCEPT ![c] = 0]
     ELSE UNCHANGED <<got, part>>
  /\ UNCHANGED <<peer, wire, sent, left, ctx, buf, net, queueVars, job, phase, down>>

(* Stage::release_event, and round the loop again.                         *)
ReleaseEvent(t) ==
  /\ pc[t] = "release"
  /\ ref' = ref - 1
  /\ job' = [job EXCEPT ![t] = NoJob]
  /\ Goto(t, "loop")
  /\ UNCHANGED <<clientVars, ctx, buf, net, events, runq, idles, phase, down>>

(* The thread uses memory that is no longer there, or writes to a socket   *)
(* nobody reads.                                                           *)
Crash(t) ==
  /\ \/ Broken(t) # "no" /\ down' = Broken(t)
     \/ /\ pc[t] \in {"answer", "end"} /\ Broken(t) = "no"
        /\ ~Reaches(job[t].client) /\ down' = "sigpipe"
  /\ UNCHANGED <<clientVars, ctx, buf, net, queueVars, threadVars, phase>>

Thread(t) ==
  \/ TakeStage(t) \/ RemoveEvent(t) \/ HandleSession(t)
  \/ HandleExecute(t) \/ SendResponse(t) \/ SendEnd(t)
  \/ ReleaseEvent(t) \/ Crash(t)

(***************************************************************************)
(* main: init and Server::serve, the quit signal, and the way out.         *)
(***************************************************************************)
Serve ==
  /\ phase = "init"
  /\ phase' = "serving"
  /\ UNCHANGED <<clientVars, ctx, buf, net, queueVars, threadVars, down>>

StartFails ==
  /\ phase = "init"
  /\ down' = "exit"
  /\ UNCHANGED <<clientVars, ctx, buf, net, queueVars, threadVars, phase>>

(* Server::shutdown: before the server has started the signal is lost.     *)
Quit ==
  /\ phase = "serving"
  /\ phase' = "exiting"
  /\ UNCHANGED <<clientVars, ctx, buf, net, queueVars, threadVars, down>>

(* event_base_dispatch returns between two callbacks; cleanup deletes the  *)
(* handler and the buffer pools.  The SQL threads run on until main        *)
(* returns.                                                                *)
CleanupWhenUnused ==
  /\ phase = "exiting" /\ net = Nobody
  /\ \A c \in Clients : ctx[c] # "open"
  /\ phase' = "cleaned"
  /\ UNCHANGED <<clientVars, ctx, buf, net, queueVars, threadVars, down>>

Cleanup ==
  /\ phase = "exiting" /\ net = Nobody
  /\ phase' = "cleaned"
  /\ UNCHANGED <<clientVars, ctx, buf, net, queueVars, threadVars, down>>

Exit ==
  /\ phase = "cleaned"
  /\ down' = "exit"
  /\ UNCHANGED <<clientVars, ctx, buf, net, queueVars, threadVars, phase>>

Main == Serve \/ StartFails \/ Quit \/ Cleanup \/ Exit

Next ==
  /\ down = "no"
  /\ \/ \E c \in Clients : Client(c) \/ Accept(c) \/ Recv(c)
     \/ ScheduleSession
     \/ \E t \in Threads : Thread(t)
     \/ Main

(* Scheduling: the pool runs as long as one of its threads can, the        *)
(* network thread as long as a connection is ready, and main finishes what *)
(* it began.  Of the clients it is assumed that a request that was begun   *)
(* is completed: until then Server::recv keeps the network thread to       *)
(* itself.                                                                 *)
Fairness ==
  /\ WF_vars(down = "no" /\ \E t \in Threads : Thread(t))
  /\ WF_vars(down = "no" /\ (ScheduleSession \/ \E c \in Clients : Recv(c)))
  /\ WF_vars(down = "no" /\ \E c \in Clients : SendRest(c))
  /\ WF_vars(down = "no" /\ (Cleanup \/ Exit))

Spec == Init /\ [][Next]_vars /\ Fairness

(***************************************************************************)
(* Properties                                                              *)
(***************************************************************************)
At(places) == {t \in Threads : pc[t] \in places}

(* The queue of the stage and the run queue of the pool are locked apart,  *)
(* and an event is put on one before the other; still each scheduling has  *)
(* its event, so the assertions on an empty queue in Threadpool::schedule  *)
(* and Stage::remove_event hold, and event_ref_ counts what is unfinished. *)
QueueExact ==
  /\ Len(events) = runq + Cardinality(At({"take"}))
                   + (IF net.at = "schedule" THEN 1 ELSE 0)
  /\ ref = Len(events) + Cardinality(At({"session", "execute", "answer", "end", "release"}))

(* The request is read from the connection's buffer only when a thread     *)
(* gets to it; of a client that waits for its answers, that is still the   *)
(* request the event was made for, and every answer it gets is the answer  *)
(* to its next request.                                                    *)
OwnRequest ==
  \A c \in Clients \ left :
    /\ got[c] = [i \in DOMAIN got[c] |-> i]
    /\ \/ c \in Range(events)
       \/ \E t \in At({"session"}) : job[t].client = c
       => buf[c] = Len(sent[c]) /\ Waiting(c)

(* A thread finds the context of its request gone, or nobody at the other  *)
(* end of the socket, only if that client left before it had its answer.   *)
OnlyLeavers ==
  /\ \A t \in At({"session", "execute", "answer", "end"}) :
       job[t].client \in left \/ (ctx[job[t].client] = "open" /\ Reaches(job[t].client))
  /\ down \in {"context", "sigpipe"} => left # {}

(* Whoever sends a request that is not blank, and stays, is answered, or   *)
(* its connection is closed or was never registered; or the process ends.  *)
Answered ==
  \A c \in Clients :
    (Waiting(c) /\ Last(sent[c]) # "blank")
      ~> \/ ~Waiting(c) \/ c \in left \/ ctx[c] \in {"freed", "lost"}
         \/ down # "no"

(* A quit signal that finds the server started ends the process.           *)
Quits == phase = "exiting" ~> down # "no"
=============================================================================
