---------------------------- MODULE ServerProofs ----------------------------
(***************************************************************************)
(* Proofs about Server, for any clients, any number of requests and any    *)
(* finite number of SQL threads: the two queues of SessionStage agree, a   *)
(* client that waits for its answers gets the answer to its own request,   *)
(* and only a client that leaves endangers the server.                     *)
(***************************************************************************)
EXTENDS Server, FiniteSetTheorems, SequenceTheorems, TLAPS

Job == [client : Clients \cup {"none"}, request : Nat, response : {"empty", "text"}]

Place == {"loop", "wait", "woken", "take", "session", "execute", "answer", "end", "release"}

TypeInv ==
  /\ peer \in [Clients -> {"new", "open", "gone"}]
  /\ wire \in [Clients -> {"empty", "half", "whole", "full"}]
  /\ sent \in [Clients -> Seq(Kind)]
  /\ got \in [Clients -> Seq(Nat)]
  /\ part \in [Clients -> Nat]
  /\ buf \in [Clients -> Nat]
  /\ ctx \in [Clients -> {"none", "open", "lost", "freed"}]
  /\ net \in [client : Clients, at : {"read", "schedule"}] \cup {Nobody}
  /\ events \in Seq(Clients)
  /\ ref \in Int /\ runq \in Nat /\ idles \in Int
  /\ pc \in [Threads -> Place]
  /\ job \in [Threads -> Job]
  /\ phase \in {"init", "serving", "exiting", "cleaned"}
  /\ down \in {"no", "exit", "context", "handler", "sigpipe"}
  /\ left \subseteq Clients

(* The threads that hold an event, and those that still work for its       *)
(* client.                                                                 *)
Holding == {"session", "execute", "answer", "end", "release"}

Active == {"session", "execute", "answer", "end"}

Idle == Cardinality(At({"wait", "woken"}))

Taking == Cardinality(At({"take"}))

Held == Cardinality(At(Holding))

Scheduling == IF net.at = "schedule" THEN 1 ELSE 0

(* The counters: n_idles_ counts the threads in the wait, the run queue    *)
(* with the threads on their way the events, event_ref_ what is not        *)
(* released.                                                               *)
CountInv ==
  /\ idles = Idle
  /\ Len(events) = runq + Taking + Scheduling
  /\ ref = Len(events) + Held

InQueue(c) == \E i \in 1 .. Len(events) : events[i] = c

Served(c) == \E t \in Threads : pc[t] \in Active /\ job[t].client = c

UnderWay(c) == InQueue(c) \/ Served(c)

(* No client has two requests under way. *)
OneRequest ==
  /\ \A i, j \in 1 .. Len(events) : events[i] = events[j] => i = j
  /\ \A t \in Threads : pc[t] \in Active => job[t].client \in Clients /\ ~ InQueue(job[t].client)
  /\ \A t, u \in Threads :
       pc[t] \in Active /\ pc[u] \in Active /\ job[t].client = job[u].client => t = u

(* The client's side: one request, then its answer; what a client has is   *)
(* the answers to its first requests, in order.                            *)
ClientOK(c) ==
  /\ Len(sent[c]) \in {Len(got[c]), Len(got[c]) + 1}
  /\ \A i \in 1 .. Len(got[c]) : got[c][i] = i
  /\ part[c] \in 0 .. Len(sent[c])
  /\ buf[c] \in 0 .. Len(sent[c])
  /\ wire[c] # "empty" => Waiting(c) /\ ~ UnderWay(c)
  /\ peer[c] = "gone" /\ Waiting(c) => c \in left
  /\ c \in left => peer[c] = "gone"

(* The server's side: a request under way is the one its client waits for, *)
(* and buffer and connection are still there, unless the client has left.  *)
RequestOK(c) ==
  /\ UnderWay(c) =>
       /\ Waiting(c)
       /\ c \in left \/ (buf[c] = Len(sent[c]) /\ ctx[c] = "open" /\ peer[c] = "open")
  /\ peer[c] = "new" => ctx[c] = "none" /\ ~ Waiting(c)
  /\ net = [client |-> c, at |-> "read"] => ctx[c] = "open"

(* A thread past the session stage has its client's last request in hand,  *)
(* and what it has sent of the answer.                                     *)
ThreadOK(t) ==
  LET c == job[t].client IN
  pc[t] \in {"execute", "answer", "end"} /\ c \notin left =>
    /\ job[t].request = Len(sent[c])
    /\ pc[t] = "end" => part[c] = Len(sent[c])

ClientInv == \A c \in Clients : ClientOK(c)

RequestInv == (\A c \in Clients : RequestOK(c)) /\ (\A t \in Threads : ThreadOK(t))

DownInv == down \in {"context", "sigpipe"} => left # {}

IInv == TypeInv /\ CountInv /\ OneRequest /\ ClientInv /\ RequestInv /\ DownInv
-----------------------------------------------------------------------------
(* What a move of one thread does to a count of threads. *)
Member(x, S) == IF x \in S THEN 1 ELSE 0

(* A set of threads is finite, and its size a number. *)
LEMMA AtFinite ==
  ASSUME NEW S
  PROVE  /\ IsFiniteSet(At(S)) /\ Cardinality(At(S)) \in Nat
         /\ Cardinality(At(S)) <= Cardinality(Threads)
<1>1. At(S) \in SUBSET Threads
  BY DEF At
<1>2. IsFiniteSet(At(S)) /\ Cardinality(At(S)) <= Cardinality(Threads)
  BY <1>1, FS_Subset, ServerAssumption
<1> QED BY <1>2, FS_CardinalityType

(* One thread goes elsewhere. *)
LEMMA AtMoves ==
  ASSUME NEW t \in Threads, \A u \in Threads \ {t} : pc'[u] = pc[u], NEW S
  PROVE  Cardinality(At(S)') = Cardinality(At(S)) + Member(pc'[t], S) - Member(pc[t], S)
<1> DEFINE rest == At(S) \ {t}
<1>1. IsFiniteSet(At(S)) /\ Cardinality(At(S)) \in Nat
  BY AtFinite
<1>2. IsFiniteSet(rest) /\ Cardinality(rest) = Cardinality(At(S)) - Member(pc[t], S)
  <2>1. CASE pc[t] \in S
    BY <1>1, <2>1, FS_RemoveElement DEF At, Member
  <2>2. CASE pc[t] \notin S
    <3>1. rest = At(S)
      BY <2>2 DEF At
    <3> QED BY <1>1, <2>2, <3>1 DEF Member
  <2> QED BY <2>1, <2>2
<1>3. At(S)' = IF pc'[t] \in S THEN rest \cup {t} ELSE rest
  BY DEF At
<1>4. Cardinality(rest \cup {t}) = Cardinality(rest) + 1
  BY <1>2, FS_AddElement
<1>5. Cardinality(rest) \in Nat
  BY <1>2, FS_CardinalityType
<1> QED BY <1>1, <1>2, <1>3, <1>4, <1>5 DEF Member

(* The three counts of CountInv, before and after one thread moves. *)
LEMMA CountsMove ==
  ASSUME NEW t \in Threads, \A u \in Threads \ {t} : pc'[u] = pc[u]
  PROVE  /\ Idle' = Idle + Member(pc'[t], {"wait", "woken"}) - Member(pc[t], {"wait", "woken"})
         /\ Taking' = Taking + Member(pc'[t], {"take"}) - Member(pc[t], {"take"})
         /\ Held' = Held + Member(pc'[t], Holding) - Member(pc[t], Holding)
         /\ Idle \in Nat /\ Taking \in Nat /\ Held \in Nat
<1>1. Idle' = Idle + Member(pc'[t], {"wait", "woken"}) - Member(pc[t], {"wait", "woken"})
  BY AtMoves DEF Idle
<1>2. Taking' = Taking + Member(pc'[t], {"take"}) - Member(pc[t], {"take"})
  BY AtMoves DEF Taking
<1>3. Held' = Held + Member(pc'[t], Holding) - Member(pc[t], Holding)
  BY AtMoves DEF Held
<1>4. Idle \in Nat /\ Taking \in Nat /\ Held \in Nat
  BY AtFinite DEF Idle, Taking, Held
<1> QED BY <1>1, <1>2, <1>3, <1>4

(* None moves. *)
LEMMA CountsSame ==
  ASSUME UNCHANGED pc
  PROVE  /\ Idle' = Idle /\ Taking' = Taking /\ Held' = Held
         /\ Idle \in Nat /\ Taking \in Nat /\ Held \in Nat
<1>1. Idle \in Nat /\ Taking \in Nat /\ Held \in Nat
  BY AtFinite DEF Idle, Taking, Held
<1> QED BY <1>1 DEF Idle, Taking, Held, At

LEMMA CountsStay ==
  ASSUME CountInv, UNCHANGED <<pc, runq, idles, events, ref>>, Scheduling' = Scheduling
  PROVE  CountInv'
  BY CountsSame DEF CountInv

-----------------------------------------------------------------------------
(* What is under way. *)

(* Neither the queue nor a thread changes. *)
LEMMA QueueStays ==
  ASSUME OneRequest, UNCHANGED <<events, pc, job>>
  PROVE  /\ OneRequest'
         /\ \A c \in Clients : UnderWay(c)' <=> UnderWay(c)
  BY DEF OneRequest, UnderWay, InQueue, Served

(* One thread moves, and does not take up work: it may drop what it has. *)
LEMMA ThreadMoves ==
  ASSUME OneRequest, UNCHANGED events, NEW t \in Threads,
         \A u \in Threads \ {t} : pc'[u] = pc[u] /\ job'[u] = job[u],
         pc'[t] \in Active => pc[t] \in Active /\ job'[t].client = job[t].client
  PROVE  /\ OneRequest'
         /\ \A c \in Clients : UnderWay(c)' => UnderWay(c)
         /\ \A c : pc[t] \in Active /\ pc'[t] \notin Active /\ c = job[t].client => ~ UnderWay(c)'
<1>1. \A u \in Threads : pc'[u] \in Active => pc[u] \in Active /\ job'[u].client = job[u].client
  OBVIOUS
<1>2. \A c : InQueue(c)' <=> InQueue(c)
  BY DEF InQueue
<1>3. \A c : Served(c)' => Served(c)
  BY <1>1 DEF Served
<1>4. OneRequest'
  BY <1>1, <1>2 DEF OneRequest
<1>5. ASSUME NEW c, pc[t] \in Active, pc'[t] \notin Active, c = job[t].client
      PROVE  ~ UnderWay(c)'
  BY <1>1, <1>2, <1>5 DEF UnderWay, Served, OneRequest
<1> QED BY <1>2, <1>3, <1>4, <1>5 DEF UnderWay

(* A thread that works for a client has its request under way. *)
LEMMA ActiveUnderWay ==
  ASSUME OneRequest, NEW t \in Threads, pc[t] \in Active
  PROVE  job[t].client \in Clients /\ UnderWay(job[t].client)
  BY DEF OneRequest, UnderWay, Served

(* The client's side is not touched, and nothing new is under way. *)
LEMMA ClientStays ==
  ASSUME ClientInv, UNCHANGED <<clientVars, buf>>,
         \A c \in Clients : UnderWay(c)' => UnderWay(c)
  PROVE  ClientInv'
  BY DEF ClientInv, ClientOK, clientVars, Waiting

(* The connection is not touched either. *)
LEMMA RequestStays ==
  ASSUME RequestInv, UNCHANGED <<clientVars, buf, ctx>>,
         \A c \in Clients : UnderWay(c)' => UnderWay(c),
         \A c \in Clients : net' = [client |-> c, at |-> "read"] => net = net',
         NEW c \in Clients
  PROVE  RequestOK(c)'
  BY DEF RequestInv, RequestOK, clientVars, Waiting

(* A thread that stays where it is. *)
LEMMA ThreadStays ==
  ASSUME RequestInv, UNCHANGED <<sent, part, left>>, NEW t \in Threads,
         pc'[t] = pc[t], job'[t] = job[t]
  PROVE  ThreadOK(t)'
  BY DEF RequestInv, ThreadOK

(* Goto moves one thread. *)
LEMMA GotoMoves ==
  ASSUME TypeInv, NEW t \in Threads, NEW where \in Place, Goto(t, where)
  PROVE  /\ pc' \in [Threads -> Place] /\ pc'[t] = where
         /\ \A u \in Threads \ {t} : pc'[u] = pc[u]
  BY DEF TypeInv, Goto

LEMMA InitInv == Init => IInv
<1> SUFFICES ASSUME Init PROVE IInv
  OBVIOUS
<1>1. TypeInv
  BY ServerAssumption DEF Init, TypeInv, Nobody, NoJob, NewJob, Job, Place
<1>2. At({"wait", "woken"}) = {} /\ At({"take"}) = {} /\ At(Holding) = {}
  BY DEF Init, At, Holding
<1>3. events = << >> /\ Len(events) = 0 /\ ref = 0 /\ runq = 0 /\ idles = 0 /\ Scheduling = 0
  BY DEF Init, Scheduling, Nobody
<1>4. Idle = 0 /\ Taking = 0 /\ Held = 0
  BY <1>2, FS_EmptySet DEF Idle, Taking, Held
<1>5. CountInv
  BY <1>3, <1>4 DEF CountInv
<1>6. OneRequest /\ DownInv
  BY <1>3 DEF Init, OneRequest, DownInv, Active, InQueue
<1>7. \A c \in Clients : ~ UnderWay(c)
  BY <1>3 DEF Init, UnderWay, InQueue, Served, Active
<1>8. ClientInv
  <2> SUFFICES ASSUME NEW c \in Clients PROVE ClientOK(c)
    BY DEF ClientInv
  <2>1. sent[c] = << >> /\ got[c] = << >> /\ Len(sent[c]) = 0 /\ Len(got[c]) = 0
    BY DEF Init
  <2> QED BY <2>1 DEF Init, ClientOK, Waiting
<1>9. RequestInv
  BY <1>7 DEF Init, RequestInv, RequestOK, ThreadOK, Nobody, Waiting
<1> QED BY <1>1, <1>5, <1>6, <1>8, <1>9 DEF IInv

-----------------------------------------------------------------------------
(* The clients. *)

LEMMA SendInv ==
  ASSUME IInv, NEW c \in Clients, NEW kind \in Kind, Send(c, kind)
  PROVE  IInv'
<1> USE DEF IInv
<1>1. UNCHANGED <<peer, got, part, left, ctx, buf, net, events, ref, runq, idles, pc, job, phase, down>>
  BY DEF Send, queueVars, threadVars
<1>2. /\ sent' \in [Clients -> Seq(Kind)]
      /\ Len(sent'[c]) = Len(sent[c]) + 1 /\ Len(sent[c]) \in Nat /\ Len(got[c]) \in Nat
      /\ \A d \in Clients \ {c} : sent'[d] = sent[d] /\ wire'[d] = wire[d]
  BY AppendProperties DEF Send, TypeInv
<1>3. Len(sent[c]) = Len(got[c]) /\ ~ UnderWay(c) /\ peer[c] = "open"
  BY <1>2 DEF Send, ClientInv, ClientOK, RequestInv, RequestOK, Waiting
<1>4. OneRequest' /\ \A d \in Clients : UnderWay(d)' <=> UnderWay(d)
  BY <1>1, QueueStays
<1>5. TypeInv' /\ DownInv'
  BY <1>1, <1>2 DEF TypeInv, DownInv, Send, Job, Nobody
<1>6. CountInv'
  BY <1>1, CountsStay DEF Scheduling
<1>7. ASSUME NEW d \in Clients PROVE ClientOK(d)' /\ RequestOK(d)'
  <2>1. CASE d = c
    <3>1. ClientOK(c)'
      BY <1>1, <1>2, <1>3, <1>4 DEF ClientInv, ClientOK, Waiting, TypeInv
    <3>2. RequestOK(c)'
      BY <1>1, <1>3, <1>4 DEF RequestInv, RequestOK
    <3> QED BY <2>1, <3>1, <3>2
  <2>2. CASE d # c
    BY <2>2, <1>1, <1>2, <1>4 DEF ClientInv, ClientOK, RequestInv, RequestOK, Waiting
  <2> QED BY <2>1, <2>2
<1>8. ASSUME NEW t \in Threads PROVE ThreadOK(t)'
  <2>1. pc[t] \in Active => job[t].client \in Clients \ {c}
    BY <1>3, ActiveUnderWay
  <2> QED BY <2>1, <1>1, <1>2 DEF RequestInv, ThreadOK, Active
<1> QED BY <1>4, <1>5, <1>6, <1>7, <1>8 DEF ClientInv, RequestInv

LEMMA SendRestInv ==
  ASSUME IInv, NEW c \in Clients, SendRest(c)
  PROVE  IInv'
<1> USE DEF IInv
<1>1. UNCHANGED <<peer, sent, got, part, left, ctx, buf, net, events, ref, runq, idles, pc, job,
                  phase, down>>
  BY DEF SendRest, queueVars, threadVars
<1>2. OneRequest' /\ \A d \in Clients : UnderWay(d)' <=> UnderWay(d)
  BY <1>1, QueueStays
<1>3. TypeInv' /\ DownInv'
  BY <1>1 DEF TypeInv, DownInv, SendRest, Job, Nobody
<1>4. CountInv'
  BY <1>1, CountsStay DEF Scheduling
<1>5. \A d \in Clients : wire'[d] = wire[d] \/ wire[d] = "half"
  BY DEF SendRest, TypeInv
<1>6. ClientInv'
  BY <1>1, <1>2, <1>5 DEF ClientInv, ClientOK, Waiting
<1>7. RequestInv'
  BY <1>1, <1>2 DEF RequestInv, RequestOK, ThreadOK, Waiting
<1> QED BY <1>2, <1>3, <1>4, <1>6, <1>7

LEMMA LeaveInv ==
  ASSUME IInv, NEW c \in Clients, Leave(c)
  PROVE  IInv'
<1> USE DEF IInv
<1>1. UNCHANGED <<wire, sent, got, part, ctx, buf, net, events, ref, runq, idles, pc, job,
                  phase, down>>
  BY DEF Leave, queueVars, threadVars
<1>2. OneRequest' /\ \A d \in Clients : UnderWay(d)' <=> UnderWay(d)
  BY <1>1, QueueStays
<1>3. TypeInv' /\ DownInv'
  BY <1>1 DEF TypeInv, DownInv, Leave, Job, Nobody
<1>4. CountInv'
  BY <1>1, CountsStay DEF Scheduling
<1>5. /\ peer'[c] = "gone" /\ (Waiting(c) => c \in left') /\ left \subseteq left'
      /\ left' \subseteq left \cup {c}
      /\ \A d \in Clients \ {c} : peer'[d] = peer[d]
  BY DEF Leave, TypeInv
<1>6. ClientInv'
  BY <1>1, <1>2, <1>5 DEF ClientInv, ClientOK, Waiting
<1>7. RequestInv'
  BY <1>1, <1>2, <1>5 DEF RequestInv, RequestOK, ThreadOK, Waiting
<1> QED BY <1>2, <1>3, <1>4, <1>6, <1>7

-----------------------------------------------------------------------------
(* The network thread. *)

LEMMA AcceptInv ==
  ASSUME IInv, NEW c \in Clients, Accept(c)
  PROVE  IInv'
<1> USE DEF IInv
<1>1. UNCHANGED <<wire, sent, got, part, left, buf, net, events, ref, runq, idles, pc, job,
                  phase, down>>
  BY DEF Accept, queueVars, threadVars
<1>2. OneRequest' /\ \A d \in Clients : UnderWay(d)' <=> UnderWay(d)
  BY <1>1, QueueStays
<1>3. TypeInv' /\ DownInv'
  BY <1>1 DEF TypeInv, DownInv, Accept, Job, Nobody
<1>4. CountInv'
  BY <1>1, CountsStay DEF Scheduling
<1>5. /\ peer[c] = "new" /\ ~ UnderWay(c) /\ ~ Waiting(c) /\ c \notin left
      /\ peer'[c] # "new"
      /\ \A d \in Clients : net # [client |-> d, at |-> "read"]
      /\ \A d \in Clients \ {c} : peer'[d] = peer[d] /\ ctx'[d] = ctx[d]
  BY DEF Accept, Polling, Nobody, TypeInv, RequestInv, RequestOK, ClientInv, ClientOK
<1>6. ClientInv'
  BY <1>1, <1>2, <1>5 DEF ClientInv, ClientOK, Waiting
<1>7. RequestInv'
  BY <1>1, <1>2, <1>5 DEF RequestInv, RequestOK, ThreadOK, Waiting
<1> QED BY <1>2, <1>3, <1>4, <1>6, <1>7

LEMMA StartRecvInv ==
  ASSUME IInv, NEW c \in Clients, StartRecv(c)
  PROVE  IInv'
<1> USE DEF IInv
<1>1. UNCHANGED <<peer, wire, sent, got, part, left, ctx, events, ref, runq, idles, pc, job,
                  phase, down>>
  BY DEF StartRecv, clientVars, queueVars, threadVars
<1>2. OneRequest' /\ \A d \in Clients : UnderWay(d)' <=> UnderWay(d)
  BY <1>1, QueueStays
<1>3. TypeInv' /\ DownInv'
  BY <1>1 DEF TypeInv, DownInv, StartRecv, Job, Nobody
<1>4. CountInv'
  BY <1>1, CountsStay DEF Scheduling, StartRecv, Polling, Nobody
<1>5. /\ UnderWay(c) => c \in left
      /\ buf'[c] = 0 /\ Len(sent[c]) \in Nat /\ ctx[c] = "open"
      /\ \A d \in Clients \ {c} : buf'[d] = buf[d] /\ net' # [client |-> d, at |-> "read"]
  BY DEF StartRecv, TypeInv, RequestInv, RequestOK, ClientInv, ClientOK
<1>6. ClientInv'
  BY <1>1, <1>2, <1>5 DEF ClientInv, ClientOK, Waiting
<1>7. RequestInv'
  BY <1>1, <1>2, <1>5 DEF RequestInv, RequestOK, ThreadOK, Waiting
<1> QED BY <1>2, <1>3, <1>4, <1>6, <1>7

LEMMA ReadNothingInv ==
  ASSUME IInv, NEW c \in Clients, ReadNothing(c)
  PROVE  IInv'
<1> USE DEF IInv
<1>1. UNCHANGED <<peer, wire, sent, got, part, left, buf, events, ref, runq, idles, pc, job,
                  phase, down>>
  BY DEF ReadNothing, clientVars, queueVars, threadVars
<1>2. OneRequest' /\ \A d \in Clients : UnderWay(d)' <=> UnderWay(d)
  BY <1>1, QueueStays
<1>3. TypeInv' /\ DownInv'
  BY <1>1 DEF TypeInv, DownInv, ReadNothing, CloseConnection, Job, Nobody
<1>4. CountInv'
  BY <1>1, CountsStay DEF Scheduling, ReadNothing, Nobody
<1>5. /\ UnderWay(c) => c \in left
      /\ peer[c] # "new"
      /\ \A d \in Clients : net' # [client |-> d, at |-> "read"]
      /\ \A d \in Clients \ {c} : ctx'[d] = ctx[d]
  BY DEF ReadNothing, CloseConnection, Nobody, TypeInv, RequestInv, RequestOK, ClientInv, ClientOK
<1>6. ClientInv'
  BY <1>1, <1>2 DEF ClientInv, ClientOK, Waiting
<1>7. RequestInv'
  BY <1>1, <1>2, <1>5 DEF RequestInv, RequestOK, ThreadOK, Waiting
<1> QED BY <1>2, <1>3, <1>4, <1>6, <1>7

(* The request joins the queue: its client had none under way. *)
LEMMA ReadRequestInv ==
  ASSUME IInv, NEW c \in Clients, ReadRequest(c)
  PROVE  IInv'
<1> USE DEF IInv
<1>1. UNCHANGED <<peer, sent, got, part, left, ctx, runq, idles, pc, job, phase, down>>
  BY DEF ReadRequest, threadVars
<1>2. /\ events' \in Seq(Clients) /\ Len(events') = Len(events) + 1 /\ Len(events) \in Nat
      /\ \A i \in 1 .. Len(events) : events'[i] = events[i]
      /\ events'[Len(events) + 1] = c
  BY AppendProperties DEF ReadRequest, TypeInv
<1>3. Waiting(c) /\ ~ UnderWay(c) /\ ctx[c] = "open" /\ (peer[c] = "open" \/ c \in left)
  BY DEF ReadRequest, ClientInv, ClientOK, RequestInv, RequestOK, TypeInv
<1>4. /\ wire'[c] = "empty" /\ buf'[c] = Len(sent[c]) /\ Len(sent[c]) \in Nat
      /\ \A d \in Clients \ {c} : wire'[d] = wire[d] /\ buf'[d] = buf[d]
      /\ \A d \in Clients : net' # [client |-> d, at |-> "read"]
  BY DEF ReadRequest, TypeInv
<1>5. \A i \in 1 .. Len(events') : i \in 1 .. Len(events) \/ (i = Len(events) + 1 /\ events'[i] = c)
  BY <1>2
<1>6. \A d : InQueue(d)' <=> InQueue(d) \/ d = c
  BY <1>2, <1>5 DEF InQueue
<1>7. \A d \in Clients \ {c} : UnderWay(d)' <=> UnderWay(d)
  BY <1>1, <1>6 DEF UnderWay, Served
<1>8. OneRequest'
  <2>1. \A i \in 1 .. Len(events) : events[i] # c
    BY <1>3 DEF UnderWay, InQueue
  <2>2. ASSUME NEW i \in 1 .. Len(events'), NEW j \in 1 .. Len(events'), events'[i] = events'[j]
        PROVE i = j
    BY <2>1, <2>2, <1>2, <1>5 DEF OneRequest
  <2>3. \A t \in Threads : pc[t] \in Active => job[t].client # c
    BY <1>3 DEF UnderWay, Served
  <2> QED BY <2>2, <2>3, <1>1, <1>6 DEF OneRequest
<1>9. TypeInv' /\ DownInv'
  BY <1>1, <1>2 DEF TypeInv, DownInv, ReadRequest, Job, Nobody
<1>10. CountInv'
  <2>1. Scheduling = 0 /\ Scheduling' = 1 /\ ref' = ref + 1
    BY DEF ReadRequest, Scheduling
  <2>2. runq \in Nat
    BY DEF TypeInv
  <2> QED BY <1>1, <1>2, <2>1, <2>2, CountsSame DEF CountInv
<1>11. ClientInv'
  BY <1>1, <1>4, <1>7 DEF ClientInv, ClientOK, Waiting
<1>12. RequestInv'
  BY <1>1, <1>3, <1>4, <1>7 DEF RequestInv, RequestOK, ThreadOK, Waiting, ClientInv, ClientOK
<1> QED BY <1>8, <1>9, <1>10, <1>11, <1>12

LEMMA ScheduleSessionInv ==
  ASSUME IInv, ScheduleSession
  PROVE  IInv'
<1> USE DEF IInv
<1>1. UNCHANGED <<clientVars, ctx, buf, events, ref, idles, job, phase, down>>
  BY DEF ScheduleSession
<1>2. /\ runq' = runq + 1 /\ Scheduling = 1 /\ Scheduling' = 0
      /\ net' = Nobody /\ \A d \in Clients : net' # [client |-> d, at |-> "read"]
  BY DEF ScheduleSession, Scheduling, Nobody
<1>3. CASE pc' = pc
  <2>1. OneRequest' /\ \A d \in Clients : UnderWay(d)' <=> UnderWay(d)
    BY <1>1, <1>3, QueueStays
  <2>2. TypeInv' /\ DownInv'
    BY <1>1, <1>2, <1>3 DEF TypeInv, DownInv, clientVars
  <2>3. CountInv'
    <3>1. runq \in Nat /\ Len(events) \in Nat
      BY DEF TypeInv
    <3> QED BY <1>1, <1>2, <1>3, <3>1, CountsSame DEF CountInv
  <2>4. ClientInv'
    BY <1>1, <2>1, ClientStays
  <2>5. \A d \in Clients : RequestOK(d)'
    BY <1>1, <1>2, <2>1, RequestStays
  <2>6. \A t \in Threads : ThreadOK(t)'
    BY <1>1, <1>3, ThreadStays DEF clientVars
  <2> QED BY <2>1, <2>2, <2>3, <2>4, <2>5, <2>6 DEF RequestInv
<1>4. CASE \E t \in Threads : pc[t] = "wait" /\ pc' = [pc EXCEPT ![t] = "woken"]
  <2> PICK t \in Threads : pc[t] = "wait" /\ pc' = [pc EXCEPT ![t] = "woken"]
    BY <1>4
  <2>1. OneRequest' /\ \A d \in Clients : UnderWay(d)' => UnderWay(d)
    <3>1. pc'[t] = "woken" /\ \A u \in Threads \ {t} : pc'[u] = pc[u] /\ job'[u] = job[u]
      BY <1>1 DEF TypeInv
    <3> QED BY <1>1, <3>1, ThreadMoves DEF Active
  <2>2. TypeInv' /\ DownInv'
    BY <1>1, <1>2 DEF TypeInv, DownInv, clientVars, Place
  <2>3. CountInv'
    <3>1. runq \in Nat /\ Len(events) \in Nat /\ pc'[t] = "woken"
      BY DEF TypeInv
    <3>2. \A u \in Threads \ {t} : pc'[u] = pc[u]
      BY DEF TypeInv
    <3>3. Idle' = Idle /\ Taking' = Taking /\ Held' = Held /\ Taking \in Nat
      BY <3>1, <3>2, CountsMove DEF Member, Holding
    <3> QED BY <1>1, <1>2, <3>1, <3>3 DEF CountInv
  <2>4. ClientInv'
    BY <1>1, <2>1, ClientStays
  <2>5. \A d \in Clients : RequestOK(d)'
    BY <1>1, <1>2, <2>1, RequestStays
  <2>6. ASSUME NEW u \in Threads PROVE ThreadOK(u)'
    <3>1. CASE u = t
      BY <3>1 DEF ThreadOK, TypeInv
    <3>2. CASE u # t
      <4>1. pc'[u] = pc[u] /\ job'[u] = job[u]
        BY <3>2, <1>1 DEF TypeInv
      <4> QED BY <1>1, <4>1, ThreadStays DEF clientVars
    <3> QED BY <3>1, <3>2
  <2> QED BY <2>1, <2>2, <2>3, <2>4, <2>5, <2>6 DEF RequestInv
<1> QED BY <1>3, <1>4 DEF ScheduleSession

-----------------------------------------------------------------------------
(* The threads of the pool. *)

LEMMA TakeStageInv ==
  ASSUME IInv, NEW t \in Threads, TakeStage(t)
  PROVE  IInv'
<1> USE DEF IInv
<1>1. UNCHANGED <<clientVars, ctx, buf, net, events, ref, job, phase, down>>
  BY DEF TakeStage
<1>2. /\ pc' \in [Threads -> Place] /\ pc'[t] \in {"wait", "take"}
      /\ \A u \in Threads \ {t} : pc'[u] = pc[u]
  BY GotoMoves DEF TakeStage, Place
<1>3. \A u \in Threads \ {t} : pc'[u] = pc[u] /\ job'[u] = job[u]
  BY <1>1, <1>2
<1>4. OneRequest' /\ \A d \in Clients : UnderWay(d)' => UnderWay(d)
  BY <1>1, <1>2, <1>3, ThreadMoves DEF Active
<1>5. TypeInv' /\ DownInv'
  BY <1>1, <1>2 DEF TypeInv, DownInv, clientVars, TakeStage
<1>6. CountInv'
  <2>1. /\ runq \in Nat /\ Len(events) \in Nat /\ idles \in Int
        /\ Scheduling' = Scheduling /\ Scheduling \in {0, 1}
    BY <1>1 DEF TypeInv, Scheduling
  <2>2. CASE runq = 0
    <3>1. /\ pc'[t] = "wait" /\ runq' = runq
          /\ idles' = IF pc[t] = "woken" THEN idles ELSE idles + 1
      BY <2>1, <2>2, GotoMoves DEF TakeStage, Place
    <3>2. Taking' = Taking /\ Held' = Held /\ Idle' = IF pc[t] = "woken" THEN Idle ELSE Idle + 1
      BY <3>1, <1>2, CountsMove DEF Member, Holding, TakeStage
    <3> QED BY <1>1, <2>1, <3>1, <3>2 DEF CountInv
  <2>3. CASE runq # 0
    <3>1. /\ pc'[t] = "take" /\ runq' = runq - 1
          /\ idles' = IF pc[t] = "woken" THEN idles - 1 ELSE idles
      BY <2>1, <2>3, GotoMoves DEF TakeStage, Place
    <3>2. /\ Taking' = Taking + 1 /\ Held' = Held /\ Taking \in Nat
          /\ Idle' = IF pc[t] = "woken" THEN Idle - 1 ELSE Idle
      BY <3>1, <1>2, CountsMove DEF Member, Holding, TakeStage
    <3> QED BY <1>1, <2>1, <3>1, <3>2 DEF CountInv
  <2> QED BY <2>2, <2>3
<1>7. ClientInv'
  BY <1>1, <1>4, ClientStays
<1>8. \A d \in Clients : RequestOK(d)'
  BY <1>1, <1>4, RequestStays
<1>9. ASSUME NEW u \in Threads PROVE ThreadOK(u)'
  <2>1. CASE u = t
    BY <2>1, <1>2 DEF ThreadOK
  <2>2. CASE u # t
    BY <2>2, <1>1, <1>3, ThreadStays DEF clientVars
  <2> QED BY <2>1, <2>2
<1> QED BY <1>4, <1>5, <1>6, <1>7, <1>8, <1>9 DEF RequestInv

(* A request goes from the head of the queue to a thread. *)
LEMMA RemoveEventInv ==
  ASSUME IInv, NEW t \in Threads, RemoveEvent(t)
  PROVE  IInv'
<1> USE DEF IInv
<1> DEFINE c == events[1]
<1>1. UNCHANGED <<clientVars, ctx, buf, net, ref, runq, idles, phase, down>>
  BY DEF RemoveEvent
<1>2. /\ pc' \in [Threads -> Place] /\ pc'[t] = "session" /\ pc[t] = "take"
      /\ \A u \in Threads \ {t} : pc'[u] = pc[u]
  BY GotoMoves DEF RemoveEvent, Place
<1>3. /\ c \in Clients /\ Len(events) \in Nat \ {0}
      /\ events' \in Seq(Clients) /\ Len(events') = Len(events) - 1
      /\ \A i \in 1 .. Len(events') : events'[i] = events[i + 1]
  BY HeadTailProperties, EmptySeq DEF RemoveEvent, TypeInv
<1>4. /\ job' \in [Threads -> Job] /\ job'[t].client = c
      /\ \A u \in Threads \ {t} : job'[u] = job[u]
  <2>1. Head(events) = c
    BY HeadTailProperties DEF RemoveEvent, TypeInv
  <2> QED BY <1>3, <2>1 DEF RemoveEvent, NewJob, Job, TypeInv
<1>5. \A i \in 1 .. Len(events') : i + 1 \in 1 .. Len(events) /\ i + 1 # 1
  BY <1>3
<1>6. \A d : InQueue(d)' => InQueue(d) /\ d # c
  BY <1>3, <1>5 DEF InQueue, OneRequest
<1>7. InQueue(c)
  BY <1>3 DEF InQueue
<1>8. \A d : Served(d)' => Served(d) \/ d = c
  BY <1>2, <1>4 DEF Served
<1>9. \A d \in Clients : UnderWay(d)' => UnderWay(d)
  BY <1>6, <1>7, <1>8 DEF UnderWay
<1>10. OneRequest'
  <2>1. ASSUME NEW i \in 1 .. Len(events'), NEW j \in 1 .. Len(events'), events'[i] = events'[j]
        PROVE i = j
    BY <2>1, <1>3, <1>5 DEF OneRequest
  <2>2. \A u \in Threads \ {t} : pc'[u] \in Active =>
          job'[u].client \in Clients /\ ~ InQueue(job[u].client) /\ job'[u].client # c
    BY <1>2, <1>4, <1>7 DEF OneRequest
  <2>3. c \in Clients /\ job'[t].client = c
    BY <1>3, <1>4
  <2>4. ASSUME NEW u \in Threads, pc'[u] \in Active
        PROVE  job'[u].client \in Clients /\ ~ InQueue(job[u].client)'
    <3> DEFINE d == job'[u].client
    <3>1. d \in Clients /\ (d = c \/ ~ InQueue(d))
      BY <1>4, <2>2, <2>3, <2>4
    <3>2. \A e : InQueue(e)' => InQueue(e) /\ e # c
      BY <1>6
    <3>3. InQueue(job[u].client)' => InQueue(d) /\ d # c
      BY <3>2
    <3> QED BY <3>1, <3>3
  <2>5. ASSUME NEW u \in Threads, NEW v \in Threads, pc'[u] \in Active, pc'[v] \in Active,
               job'[u].client = job'[v].client
        PROVE  u = v
    <3>1. CASE u = t \/ v = t
      BY <2>2, <2>3, <2>5, <3>1
    <3>2. CASE u # t /\ v # t
      BY <1>2, <1>4, <2>5, <3>2 DEF OneRequest
    <3> QED BY <3>1, <3>2
  <2> QED BY <2>1, <2>4, <2>5 DEF OneRequest
<1>11. TypeInv' /\ DownInv'
  BY <1>1, <1>2, <1>3, <1>4 DEF TypeInv, DownInv, clientVars
<1>12. CountInv'
  <2>1. runq \in Nat /\ Scheduling' = Scheduling /\ Scheduling \in {0, 1}
    BY <1>1 DEF TypeInv, Scheduling
  <2>2. /\ Taking' = Taking - 1 /\ Held' = Held + 1 /\ Idle' = Idle
        /\ Taking \in Nat /\ Held \in Nat
    BY <1>2, CountsMove DEF Member, Holding
  <2>3. Len(events) \in Nat /\ Len(events') = Len(events) - 1
    BY <1>3
  <2>4. idles' = idles /\ runq' = runq /\ ref' = ref
    BY <1>1
  <2> QED BY <2>1, <2>2, <2>3, <2>4 DEF CountInv
<1>13. ClientInv'
  BY <1>1, <1>9, ClientStays
<1>14. \A d \in Clients : RequestOK(d)'
  BY <1>1, <1>9, RequestStays
<1>15. ASSUME NEW u \in Threads PROVE ThreadOK(u)'
  <2>1. CASE u = t
    BY <2>1, <1>2 DEF ThreadOK
  <2>2. CASE u # t
    BY <2>2, <1>1, <1>2, <1>4, ThreadStays DEF clientVars
  <2> QED BY <2>1, <2>2
<1> QED BY <1>10, <1>11, <1>12, <1>13, <1>14, <1>15 DEF RequestInv

(* The request is read from the buffer of the connection. *)
LEMMA HandleSessionInv ==
  ASSUME IInv, NEW t \in Threads, HandleSession(t)
  PROVE  IInv'
<1> USE DEF IInv
<1> DEFINE c == job[t].client
<1>1. UNCHANGED <<clientVars, ctx, buf, net, events, ref, runq, idles, phase, down>>
  BY DEF HandleSession, queueVars
<1>2. PICK out \in {[next |-> "release", response |-> "empty"]} \cup Parsed :
        /\ Goto(t, out.next)
        /\ job' = [job EXCEPT ![t].request = buf[c], ![t].response = out.response]
  BY DEF HandleSession
<1>3. out.next \in {"release", "answer", "execute"} /\ out.response \in {"text", "empty"}
  BY DEF Parsed
<1>4. /\ pc' \in [Threads -> Place] /\ pc'[t] \in {"release", "answer", "execute"}
      /\ pc[t] = "session" /\ \A u \in Threads \ {t} : pc'[u] = pc[u]
  BY <1>2, <1>3, GotoMoves DEF HandleSession, Place
<1>5. c \in Clients /\ UnderWay(c)
  BY <1>4, ActiveUnderWay DEF Active
<1>6. /\ job' \in [Threads -> Job] /\ job'[t].client = c /\ job'[t].request = buf[c]
      /\ \A u \in Threads \ {t} : job'[u] = job[u]
  <2> DEFINE new == [job[t] EXCEPT !.request = buf[c], !.response = out.response]
  <2>1. job \in [Threads -> Job] /\ buf[c] \in Nat
    BY <1>5 DEF TypeInv
  <2>2. new \in Job /\ new.client = c /\ new.request = buf[c]
    BY <1>3, <2>1 DEF Job
  <2>3. job' = [job EXCEPT ![t] = new]
    BY <1>2, <2>1
  <2> HIDE DEF new
  <2> QED BY <2>1, <2>2, <2>3
<1>7. OneRequest' /\ \A d \in Clients : UnderWay(d)' => UnderWay(d)
  BY <1>1, <1>4, <1>6, ThreadMoves DEF Active
<1>8. TypeInv' /\ DownInv'
  BY <1>1, <1>4, <1>6 DEF TypeInv, DownInv, clientVars
<1>9. CountInv'
  <2>1. Taking' = Taking /\ Held' = Held /\ Idle' = Idle /\ Scheduling' = Scheduling
    BY <1>1, <1>4, CountsMove DEF Member, Holding, Scheduling
  <2> QED BY <1>1, <2>1 DEF CountInv
<1>10. ClientInv'
  BY <1>1, <1>7, ClientStays
<1>11. \A d \in Clients : RequestOK(d)'
  BY <1>1, <1>7, RequestStays
<1>12. ASSUME NEW u \in Threads PROVE ThreadOK(u)'
  <2>1. CASE u = t
    BY <2>1, <1>1, <1>4, <1>5, <1>6 DEF ThreadOK, RequestInv, RequestOK, clientVars
  <2>2. CASE u # t
    BY <2>2, <1>1, <1>4, <1>6, ThreadStays DEF clientVars
  <2> QED BY <2>1, <2>2
<1> QED BY <1>7, <1>8, <1>9, <1>10, <1>11, <1>12 DEF RequestInv

LEMMA HandleExecuteInv ==
  ASSUME IInv, NEW t \in Threads, HandleExecute(t)
  PROVE  IInv'
<1> USE DEF IInv
<1>1. UNCHANGED <<clientVars, ctx, buf, net, events, ref, runq, idles, phase, down>>
  BY DEF HandleExecute, queueVars
<1>2. /\ pc' \in [Threads -> Place] /\ pc'[t] = "answer" /\ pc[t] = "execute"
      /\ \A u \in Threads \ {t} : pc'[u] = pc[u]
  BY GotoMoves DEF HandleExecute, Place
<1>3. /\ job' \in [Threads -> Job] /\ job'[t].client = job[t].client
      /\ job'[t].request = job[t].request /\ \A u \in Threads \ {t} : job'[u] = job[u]
  <2>1. PICK response \in {"text", "empty"} : job' = [job EXCEPT ![t].response = response]
    BY DEF HandleExecute, Executed
  <2> QED BY <2>1 DEF Job, TypeInv
<1>4. OneRequest' /\ \A d \in Clients : UnderWay(d)' => UnderWay(d)
  BY <1>1, <1>2, <1>3, ThreadMoves DEF Active
<1>5. TypeInv' /\ DownInv'
  BY <1>1, <1>2, <1>3 DEF TypeInv, DownInv, clientVars
<1>6. CountInv'
  <2>1. Taking' = Taking /\ Held' = Held /\ Idle' = Idle /\ Scheduling' = Scheduling
    BY <1>1, <1>2, CountsMove DEF Member, Holding, Scheduling
  <2> QED BY <1>1, <2>1 DEF CountInv
<1>7. ClientInv'
  BY <1>1, <1>4, ClientStays
<1>8. \A d \in Clients : RequestOK(d)'
  BY <1>1, <1>4, RequestStays
<1>9. ASSUME NEW u \in Threads PROVE ThreadOK(u)'
  <2>1. CASE u = t
    BY <2>1, <1>1, <1>2, <1>3 DEF ThreadOK, RequestInv, clientVars
  <2>2. CASE u # t
    BY <2>2, <1>1, <1>2, <1>3, ThreadStays DEF clientVars
  <2> QED BY <2>1, <2>2
<1> QED BY <1>4, <1>5, <1>6, <1>7, <1>8, <1>9 DEF RequestInv

(* The end of the answer, or a whole one: the client has it, and nothing   *)
(* of its is under way any more.                                           *)
LEMMA AnswerInv ==
  ASSUME IInv, NEW t \in Threads, pc[t] \in {"answer", "end"},
         UNCHANGED <<peer, wire, sent, left, ctx, buf, net, events, ref, runq, idles, job,
                     phase, down>>,
         Goto(t, "release"), part' \in [Clients -> Nat],
         NEW c \in Clients, c = job[t].client, peer[c] = "open",
         NEW n, c \notin left => n = Len(sent[c]),
         got' = [got EXCEPT ![c] = Append(@, n)],
         \A d \in Clients : part'[d] = part[d] \/ (d = c /\ part'[d] = 0)
  PROVE  IInv'
<1> USE DEF IInv
<1>1. /\ pc' \in [Threads -> Place] /\ pc'[t] = "release"
      /\ \A u \in Threads \ {t} : pc'[u] = pc[u] /\ job'[u] = job[u]
  BY GotoMoves DEF Place
<1>2. UnderWay(c) /\ c \notin left
  BY ActiveUnderWay DEF Active, ClientInv, ClientOK
<1>3. /\ OneRequest' /\ \A d \in Clients : UnderWay(d)' => UnderWay(d)
      /\ ~ UnderWay(c)'
  BY <1>1, ThreadMoves DEF Active
<1>4. Len(got[c]) \in Nat /\ n = Len(got[c]) + 1 /\ n = Len(sent[c]) /\ n \in Nat
  <2>1. Len(got[c]) \in Nat /\ Len(sent[c]) \in Nat
    BY DEF TypeInv
  <2>2. Len(sent[c]) > Len(got[c])
    BY <1>2 DEF RequestInv, RequestOK, Waiting
  <2>3. Len(sent[c]) \in {Len(got[c]), Len(got[c]) + 1}
    BY DEF ClientInv, ClientOK
  <2>4. n = Len(sent[c])
    BY <1>2
  <2> QED BY <2>1, <2>2, <2>3, <2>4
<1>5. /\ got' \in [Clients -> Seq(Nat)] /\ Len(got'[c]) = n
      /\ \A i \in 1 .. Len(got[c]) : got'[c][i] = got[c][i]
      /\ got'[c][n] = n
      /\ \A d \in Clients \ {c} : got'[d] = got[d]
  BY <1>4, AppendProperties DEF TypeInv
<1>6. TypeInv' /\ DownInv'
  BY <1>1, <1>5 DEF TypeInv, DownInv
<1>7. CountInv'
  <2>1. Taking' = Taking /\ Held' = Held /\ Idle' = Idle /\ Scheduling' = Scheduling
    <3>1. /\ Member(pc'[t], {"wait", "woken"}) = 0 /\ Member(pc[t], {"wait", "woken"}) = 0
          /\ Member(pc'[t], {"take"}) = 0 /\ Member(pc[t], {"take"}) = 0
          /\ Member(pc'[t], Holding) = 1 /\ Member(pc[t], Holding) = 1
      BY <1>1 DEF Member, Holding
    <3>2. Scheduling' = Scheduling
      BY DEF Scheduling
    <3> QED BY <1>1, <3>1, <3>2, CountsMove
  <2> QED BY <2>1 DEF CountInv
<1>8. ASSUME NEW d \in Clients PROVE ClientOK(d)' /\ RequestOK(d)'
  <2>1. CASE d = c
    <3>1. ~ Waiting(c)'
      BY <1>4, <1>5 DEF Waiting
    <3>2. \A i \in 1 .. n : i \in 1 .. Len(got[c]) \/ i = n
      BY <1>4
    <3>3. \A i \in 1 .. Len(got'[c]) : got'[c][i] = i
      BY <3>2, <1>5 DEF ClientInv, ClientOK
    <3>4. ClientOK(c)'
      <4>1. wire[c] = "empty"
        BY <1>2 DEF ClientInv, ClientOK
      <4>2. part'[c] \in 0 .. n /\ buf[c] \in 0 .. n
        <5>1. part[c] \in 0 .. n /\ buf[c] \in 0 .. n
          BY <1>4 DEF ClientInv, ClientOK
        <5>2. part'[c] = part[c] \/ part'[c] = 0
          OBVIOUS
        <5> QED BY <1>4, <5>1, <5>2
      <4> QED BY <1>2, <1>4, <1>5, <3>1, <3>3, <4>1, <4>2 DEF ClientOK
    <3>5. RequestOK(c)'
      BY <1>3, <3>1 DEF RequestInv, RequestOK
    <3> QED BY <2>1, <3>4, <3>5
  <2>2. CASE d # c
    <3>1. ClientOK(d) /\ RequestOK(d)
      BY DEF ClientInv, RequestInv
    <3>2. got'[d] = got[d] /\ (UnderWay(d)' => UnderWay(d)) /\ part'[d] = part[d]
      BY <1>3, <1>5, <2>2
    <3>3. Waiting(d)' <=> Waiting(d)
      BY <3>2 DEF Waiting
    <3>4. ClientOK(d)'
      BY <3>1, <3>2, <3>3 DEF ClientOK
    <3>5. RequestOK(d)'
      BY <3>1, <3>2, <3>3 DEF RequestOK
    <3> QED BY <3>4, <3>5
  <2> QED BY <2>1, <2>2
<1>9. ASSUME NEW u \in Threads PROVE ThreadOK(u)'
  <2>1. CASE u = t
    BY <2>1, <1>1 DEF ThreadOK
  <2>2. CASE u # t
    <3>1. pc[u] \in Active => job[u].client \in Clients \ {c}
      BY <2>2 DEF OneRequest, Active
    <3> QED BY <2>2, <3>1, <1>1 DEF ThreadOK, RequestInv, Active
  <2> QED BY <2>1, <2>2
<1> QED BY <1>3, <1>6, <1>7, <1>8, <1>9 DEF ClientInv, RequestInv

(* Of the first part of an answer, or one that nobody hears. *)
LEMMA UnheardInv ==
  ASSUME IInv, NEW t \in Threads, pc[t] \in {"answer", "end"},
         UNCHANGED <<peer, wire, sent, left, ctx, buf, net, events, ref, runq, idles, job,
                     phase, down, got>>,
         NEW where \in {"end", "release"}, where = "end" => pc[t] = "answer",
         Goto(t, where),
         NEW c \in Clients, c = job[t].client,
         \/ part' = part /\ peer[c] # "open"
         \/ where = "end" /\ part' = [part EXCEPT ![c] = job[t].request] /\ peer[c] = "open"
  PROVE  IInv'
<1> USE DEF IInv
<1>1. /\ pc' \in [Threads -> Place] /\ pc'[t] = where
      /\ \A u \in Threads \ {t} : pc'[u] = pc[u] /\ job'[u] = job[u]
  BY GotoMoves DEF Place
<1>2. UnderWay(c)
  BY ActiveUnderWay DEF Active
<1>3. OneRequest' /\ \A d \in Clients : UnderWay(d)' => UnderWay(d)
  BY <1>1, ThreadMoves DEF Active
<1>4. job[t].request \in Nat /\ (c \notin left => job[t].request = Len(sent[c]))
  BY DEF TypeInv, Job, RequestInv, ThreadOK
<1>5. /\ part' \in [Clients -> Nat] /\ \A d \in Clients \ {c} : part'[d] = part[d]
      /\ part'[c] = IF peer[c] = "open" THEN job[t].request ELSE part[c]
  BY <1>4 DEF TypeInv
<1>6. TypeInv' /\ DownInv'
  BY <1>1, <1>5 DEF TypeInv, DownInv
<1>7. CountInv'
  <2>1. Taking' = Taking /\ Held' = Held /\ Idle' = Idle /\ Scheduling' = Scheduling
    BY <1>1, CountsMove DEF Member, Holding, Scheduling
  <2> QED BY <2>1 DEF CountInv
<1>8. peer[c] = "open" <=> c \notin left
  BY <1>2 DEF ClientInv, ClientOK, RequestInv, RequestOK
<1>9. Len(sent[c]) \in Nat
  BY DEF TypeInv
<1>10. ASSUME NEW d \in Clients PROVE ClientOK(d)' /\ RequestOK(d)'
  BY <1>3, <1>4, <1>5, <1>8, <1>9 DEF ClientInv, ClientOK, RequestInv, RequestOK, Waiting
<1>11. ASSUME NEW u \in Threads PROVE ThreadOK(u)'
  <2>1. CASE u = t
    BY <2>1, <1>1, <1>4, <1>5, <1>8 DEF ThreadOK
  <2>2. CASE u # t
    <3>1. pc[u] \in Active => job[u].client \in Clients \ {c}
      BY <2>2 DEF OneRequest, Active
    <3> QED BY <2>2, <3>1, <1>1, <1>5 DEF ThreadOK, RequestInv, Active
  <2> QED BY <2>1, <2>2
<1> QED BY <1>3, <1>6, <1>7, <1>10, <1>11 DEF ClientInv, RequestInv

LEMMA SendResponseInv ==
  ASSUME IInv, NEW t \in Threads, SendResponse(t)
  PROVE  IInv'
<1> USE DEF IInv
<1> DEFINE c == job[t].client
<1>1. /\ UNCHANGED <<peer, wire, sent, left, ctx, buf, net, events, ref, runq, idles, job,
                     phase, down>>
      /\ pc[t] = "answer"
  BY DEF SendResponse, queueVars
<1>2. c \in Clients
  BY <1>1, ActiveUnderWay DEF Active
<1>3. c \notin left => job[t].request = Len(sent[c])
  BY <1>1 DEF RequestInv, ThreadOK
<1>4. CASE job[t].response = "empty" /\ Reaches(c)
  <2>1. part' \in [Clients -> Nat] /\ \A d \in Clients : part'[d] = part[d]
    BY <1>4 DEF SendResponse, TypeInv
  <2>2. Goto(t, "release") /\ got' = [got EXCEPT ![c] = Append(@, job[t].request)]
    BY <1>4 DEF SendResponse
  <2> QED BY <1>1, <1>2, <1>3, <1>4, <2>1, <2>2, AnswerInv DEF Reaches
<1>5. CASE job[t].response = "empty" /\ ~ Reaches(c)
  BY <1>1, <1>2, <1>5, UnheardInv DEF SendResponse, Reaches
<1>6. CASE job[t].response # "empty"
  BY <1>1, <1>2, <1>6, UnheardInv DEF SendResponse, Reaches
<1> QED BY <1>4, <1>5, <1>6

LEMMA SendEndInv ==
  ASSUME IInv, NEW t \in Threads, SendEnd(t)
  PROVE  IInv'
<1> USE DEF IInv
<1> DEFINE c == job[t].client
<1>1. /\ UNCHANGED <<peer, wire, sent, left, ctx, buf, net, events, ref, runq, idles, job,
                     phase, down>>
      /\ pc[t] = "end" /\ Goto(t, "release")
  BY DEF SendEnd, queueVars
<1>2. c \in Clients
  BY <1>1, ActiveUnderWay DEF Active
<1>3. c \notin left => part[c] = Len(sent[c])
  BY <1>1 DEF RequestInv, ThreadOK
<1>4. CASE Reaches(c)
  <2>1. /\ part' \in [Clients -> Nat]
        /\ \A d \in Clients : part'[d] = part[d] \/ (d = c /\ part'[d] = 0)
    <3>1. part' = [part EXCEPT ![c] = 0]
      BY <1>4 DEF SendEnd
    <3> QED BY <1>2, <3>1 DEF TypeInv
  <2>2. got' = [got EXCEPT ![c] = Append(@, part[c])]
    BY <1>4 DEF SendEnd
  <2> QED BY <1>1, <1>2, <1>3, <1>4, <2>1, <2>2, AnswerInv DEF Reaches
<1>5. CASE ~ Reaches(c)
  BY <1>1, <1>2, <1>5, UnheardInv DEF SendEnd, Reaches
<1> QED BY <1>4, <1>5

LEMMA ReleaseEventInv ==
  ASSUME IInv, NEW t \in Threads, ReleaseEvent(t)
  PROVE  IInv'
<1> USE DEF IInv
<1>1. UNCHANGED <<clientVars, ctx, buf, net, events, runq, idles, phase, down>>
  BY DEF ReleaseEvent
<1>2. /\ pc' \in [Threads -> Place] /\ pc'[t] = "loop" /\ pc[t] = "release"
      /\ \A u \in Threads \ {t} : pc'[u] = pc[u]
  BY GotoMoves DEF ReleaseEvent, Place
<1>3. job' \in [Threads -> Job] /\ \A u \in Threads \ {t} : job'[u] = job[u]
  BY DEF ReleaseEvent, NoJob, NewJob, Job, TypeInv
<1>4. OneRequest' /\ \A d \in Clients : UnderWay(d)' => UnderWay(d)
  BY <1>1, <1>2, <1>3, ThreadMoves DEF Active
<1>5. TypeInv' /\ DownInv'
  BY <1>1, <1>2, <1>3 DEF TypeInv, DownInv, clientVars, ReleaseEvent
<1>6. CountInv'
  <2>1. /\ Taking' = Taking /\ Held' = Held - 1 /\ Idle' = Idle /\ Held \in Nat
        /\ Scheduling' = Scheduling
    BY <1>1, <1>2, CountsMove DEF Member, Holding, Scheduling
  <2>2. ref' = ref - 1 /\ Len(events) \in Nat
    BY DEF ReleaseEvent, TypeInv
  <2> QED BY <1>1, <2>1, <2>2 DEF CountInv
<1>7. ClientInv'
  BY <1>1, <1>4, ClientStays
<1>8. \A d \in Clients : RequestOK(d)'
  BY <1>1, <1>4, RequestStays
<1>9. ASSUME NEW u \in Threads PROVE ThreadOK(u)'
  <2>1. CASE u = t
    BY <2>1, <1>2 DEF ThreadOK
  <2>2. CASE u # t
    BY <2>2, <1>1, <1>2, <1>3, ThreadStays DEF clientVars
  <2> QED BY <2>1, <2>2
<1> QED BY <1>4, <1>5, <1>6, <1>7, <1>8, <1>9 DEF RequestInv

-----------------------------------------------------------------------------
(* Nothing but the end of the process, or a step of main. *)
LEMMA OnlyProcess ==
  ASSUME IInv, UNCHANGED <<clientVars, ctx, buf, net, queueVars, threadVars>>,
         phase' \in {"init", "serving", "exiting", "cleaned"},
         down' \in {"no", "exit", "context", "handler", "sigpipe"}, DownInv'
  PROVE  IInv'
<1> USE DEF IInv, queueVars, threadVars
<1>1. OneRequest' /\ \A d \in Clients : UnderWay(d)' <=> UnderWay(d)
  BY QueueStays
<1>2. TypeInv'
  BY DEF TypeInv, clientVars
<1>3. CountInv'
  BY CountsStay DEF Scheduling
<1>4. ClientInv'
  BY <1>1, ClientStays
<1>5. \A d \in Clients : RequestOK(d)'
  BY <1>1, RequestStays
<1>6. \A t \in Threads : ThreadOK(t)'
  BY ThreadStays DEF clientVars
<1> QED BY <1>1, <1>2, <1>3, <1>4, <1>5, <1>6 DEF RequestInv

LEMMA CrashInv ==
  ASSUME IInv, NEW t \in Threads, Crash(t)
  PROVE  IInv'
<1>1. UNCHANGED <<clientVars, ctx, buf, net, queueVars, threadVars, phase>>
  BY DEF Crash
<1>2. phase' \in {"init", "serving", "exiting", "cleaned"}
  BY <1>1 DEF IInv, TypeInv
<1>3. down' \in {"no", "exit", "context", "handler", "sigpipe"}
  BY DEF Crash, Broken
<1>4. ASSUME down' \in {"context", "sigpipe"} PROVE left # {}
  <2>1. /\ pc[t] \in Active
        /\ ctx[job[t].client] = "freed" \/ ~ Reaches(job[t].client)
    BY <1>4 DEF Crash, Broken, Active
  <2>2. job[t].client \in Clients /\ UnderWay(job[t].client)
    BY <2>1, ActiveUnderWay DEF IInv
  <2> QED BY <2>1, <2>2 DEF IInv, RequestInv, RequestOK, Reaches
<1>5. DownInv'
  BY <1>1, <1>4 DEF DownInv, clientVars
<1> QED BY <1>1, <1>2, <1>3, <1>5, OnlyProcess

LEMMA MainInv ==
  ASSUME IInv, down = "no", Main
  PROVE  IInv'
<1>1. UNCHANGED <<clientVars, ctx, buf, net, queueVars, threadVars>>
  BY DEF Main, Serve, StartFails, Quit, Cleanup, Exit
<1>2. /\ phase' \in {"init", "serving", "exiting", "cleaned"}
      /\ down' \in {"no", "exit"}
  BY DEF Main, Serve, StartFails, Quit, Cleanup, Exit, IInv, TypeInv
<1>3. DownInv'
  BY <1>2 DEF DownInv
<1> QED BY <1>1, <1>2, <1>3, OnlyProcess

LEMMA NextInv == IInv /\ [Next]_vars => IInv'
<1> SUFFICES ASSUME IInv, [Next]_vars PROVE IInv'
  OBVIOUS
<1>1. CASE UNCHANGED vars
  <2>1. UNCHANGED <<clientVars, ctx, buf, net, queueVars, threadVars, phase, down>>
    BY <1>1 DEF vars
  <2>2. DownInv'
    BY <2>1 DEF IInv, DownInv, clientVars
  <2> QED BY <2>1, <2>2, OnlyProcess DEF IInv, TypeInv
<1>2. CASE Next
  <2>1. ASSUME NEW c \in Clients, Client(c) PROVE IInv'
    BY <2>1, SendInv, SendRestInv, LeaveInv DEF Client
  <2>2. ASSUME NEW c \in Clients, Recv(c) PROVE IInv'
    BY <2>2, StartRecvInv, ReadRequestInv, ReadNothingInv DEF Recv
  <2>3. ASSUME NEW t \in Threads, Thread(t) PROVE IInv'
    BY <2>3, TakeStageInv, RemoveEventInv, HandleSessionInv, HandleExecuteInv, SendResponseInv,
       SendEndInv, ReleaseEventInv, CrashInv DEF Thread
  <2> QED BY <1>2, <2>1, <2>2, <2>3, AcceptInv, ScheduleSessionInv, MainInv DEF Next
<1> QED BY <1>1, <1>2

LEMMA SpecInv == Spec => []IInv
  BY InitInv, NextInv, PTL DEF Spec

-----------------------------------------------------------------------------
(* What the invariant gives. *)

(* Every variable of the server has its type; in particular the counters   *)
(* event_ref_ and n_idles_ never fall below zero, n_idles_ never exceeds   *)
(* the number of threads, and a client's answers and the request in its    *)
(* buffer are numbers of requests it has sent.                             *)
THEOREM ServerTypeCorrect == Spec => []TypeOK
<1>1. ASSUME IInv PROVE TypeOK
  <2> USE <1>1 DEF IInv
  <2>1. idles \in 0 .. Cardinality(Threads) /\ ref \in Nat
    <3>1. Idle \in Nat /\ Held \in Nat /\ Idle <= Cardinality(Threads)
      BY AtFinite DEF Idle, Held
    <3>2. Cardinality(Threads) \in Nat
      BY ServerAssumption, FS_CardinalityType
    <3>3. Len(events) \in Nat
      BY DEF TypeInv
    <3> QED BY <3>1, <3>2, <3>3 DEF CountInv
  <2>2. net \in [client : Clients \cup {"none"}, at : {"poll", "read", "schedule"}]
    BY DEF TypeInv, Nobody
  <2>3. ASSUME NEW c \in Clients
        PROVE /\ sent[c] \in Seq(Kind) /\ got[c] \in Seq(DOMAIN sent[c])
              /\ part[c] \in {0} \cup DOMAIN sent[c] /\ buf[c] \in {0} \cup DOMAIN sent[c]
    <3>1. /\ sent[c] \in Seq(Kind) /\ got[c] \in Seq(Nat)
          /\ Len(sent[c]) \in Nat /\ Len(got[c]) \in Nat
          /\ DOMAIN sent[c] = 1 .. Len(sent[c])
      BY LenProperties DEF TypeInv
    <3>2. ClientOK(c)
      BY DEF ClientInv
    <3>3. \A i \in 1 .. Len(got[c]) : got[c][i] \in DOMAIN sent[c]
      BY <3>1, <3>2 DEF ClientOK
    <3>4. got[c] \in [1 .. Len(got[c]) -> DOMAIN sent[c]]
      BY <3>1, <3>3, LenProperties
    <3>5. got[c] \in Seq(DOMAIN sent[c])
      <4>1. \E n \in Nat : got[c] \in [1 .. n -> DOMAIN sent[c]]
        BY <3>1, <3>4
      <4> QED BY <4>1, SeqDef
    <3> QED BY <3>1, <3>2, <3>5 DEF ClientOK
  <2>4. \A t \in Threads : /\ job[t].client \in Clients \cup {"none"}
                           /\ job[t].request \in Nat
                           /\ job[t].response \in {"empty", "text"}
    BY DEF TypeInv, Job
  <2> QED BY <2>1, <2>2, <2>3, <2>4 DEF TypeOK, TypeInv, Place
<1> QED BY <1>1, SpecInv, PTL

(* Stage::event_list_, Threadpool::run_queue_ and event_ref_ agree in      *)
(* every state, however the network thread and the threads of the pool     *)
(* interleave: each scheduling of SessionStage has its event, and          *)
(* event_ref_ counts what is queued or in a thread's hands.                *)
THEOREM QueueExactCorrect == Spec => []QueueExact
<1>1. IInv => QueueExact
  BY DEF IInv, CountInv, QueueExact, Taking, Held, Holding, Scheduling
<1> QED BY <1>1, SpecInv, PTL

(* SessionStage::handle_request reads the connection's buffer late, and    *)
(* still finds the request its event was made for; a client that does not  *)
(* leave gets the answers to its requests, in order.                       *)
THEOREM OwnRequestCorrect == Spec => []OwnRequest
<1>1. ASSUME IInv PROVE OwnRequest
  <2> USE <1>1 DEF IInv
  <2> SUFFICES ASSUME NEW c \in Clients \ left
               PROVE  /\ got[c] = [i \in DOMAIN got[c] |-> i]
                      /\ \/ c \in Range(events)
                         \/ \E t \in At({"session"}) : job[t].client = c
                         => buf[c] = Len(sent[c]) /\ Waiting(c)
    BY DEF OwnRequest
  <2>1. got[c] = [i \in DOMAIN got[c] |-> i]
    <3>1. got[c] \in Seq(Nat) /\ DOMAIN got[c] = 1 .. Len(got[c])
      BY LenProperties DEF TypeInv
    <3>2. \A i \in DOMAIN got[c] : got[c][i] = i
      BY <3>1 DEF ClientInv, ClientOK
    <3>3. got[c] = [i \in DOMAIN got[c] |-> got[c][i]]
      BY <3>1, LenProperties
    <3> QED BY <3>2, <3>3
  <2>2. c \in Range(events) => InQueue(c)
    <3>1. DOMAIN events = 1 .. Len(events)
      BY LenProperties DEF TypeInv
    <3> QED BY <3>1 DEF Range, InQueue
  <2>3. (\E t \in At({"session"}) : job[t].client = c) => Served(c)
    BY DEF At, Served, Active
  <2> QED BY <2>1, <2>2, <2>3 DEF UnderWay, RequestInv, RequestOK
<1> QED BY <1>1, SpecInv, PTL

(* A thread meets a freed ConnectionContext, or a socket nobody reads,     *)
(* only on behalf of a client that left before it had its answer.          *)
THEOREM OnlyLeaversCorrect == Spec => []OnlyLeavers
<1>1. ASSUME IInv PROVE OnlyLeavers
  <2>1. ASSUME NEW t \in At({"session", "execute", "answer", "end"})
        PROVE  \/ job[t].client \in left
               \/ ctx[job[t].client] = "open" /\ Reaches(job[t].client)
    <3>1. t \in Threads /\ pc[t] \in Active
      BY DEF At, Active
    <3>2. job[t].client \in Clients /\ UnderWay(job[t].client)
      BY <1>1, <3>1, ActiveUnderWay DEF IInv
    <3> QED BY <1>1, <3>2 DEF IInv, RequestInv, RequestOK, Reaches
  <2> QED BY <1>1, <2>1 DEF OnlyLeavers, IInv, DownInv
<1> QED BY <1>1, SpecInv, PTL
=============================================================================
