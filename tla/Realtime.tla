------------------------------- MODULE Realtime -------------------------------
(***************************************************************************)
(* Notifications and realtime events on their way to one user, with Redis: *)
(* enqueue and its worker (notification.service.ts), the event bus and the *)
(* dead letters (events), the dispatch worker (realtime.jobs.ts), the      *)
(* pub/sub channel, and the socket gateway of every API process (sockets). *)
(*                                                                         *)
(* Every process subscribes to the channel and emits what it hears to the  *)
(* room of the target; the Redis adapter of Socket.io carries that to the  *)
(* process the user is connected to.  Pub/sub keeps nothing for those who  *)
(* are not there.                                                          *)
(*                                                                         *)
(* A call can take effect and its answer be lost: MongoDB's then throws,   *)
(* and the clients of Redis send the command again once they have their    *)
(* connection back (redis.config.ts), or throw as well.                    *)
(***************************************************************************)
EXTENDS JobQueue, FiniteSets

CONSTANTS
  Notification,  \* notifications that services enqueue
  Event,         \* events that services publish, to the room of a contest
  Process,       \* API processes
  MaxAdds,       \* bound: how often the job of a notification is added
  MaxFaults      \* bound: failures, crashes, lost answers and lost locks

(* A notification has a job without a name, and one more for every time    *)
(* that the command to add it was sent again.  The k-th document of a      *)
(* notification is announced by an envelope.                               *)
Delivery == Notification \X {"deliver"} \X (1..MaxAdds)
Envelope == Event \cup (Notification \X (1..MaxFaults + 1))
Job == Delivery \cup Envelope
Item == Notification \cup Envelope
Of(j) == IF j \in Delivery THEN j[1] ELSE j

ASSUME RealtimeAssumption ==
  /\ IsFiniteSet(Process) /\ IsFiniteSet(Handlers)
  /\ MaxAdds \in Nat \ {0} /\ MaxFaults \in Nat
  /\ Notification \cap Envelope = {} /\ Delivery \cap Item = {}
  /\ Event \cap (Notification \X (1..MaxFaults + 1)) = {}

VARIABLES
  todo,       \* notifications and events the services have not come to
  jobs,       \* NOTIFICATION and REALTIME_DISPATCH jobs
  work,       \* what the handlers of the workers are doing
  docs,       \* how many documents a notification has been stored in
  published,  \* how often an envelope was put on the channel
  dead,       \* envelopes handed to the dead letters, which Redis may refuse, too
  inbox,      \* envelopes that a process has heard and not emitted
  connected,  \* the user has a socket, at one of the processes
  inRoom,     \* the user has joined the room of the contest
  received,   \* how often the user has received an envelope
  again,      \* history: how often a job was taken from its worker, or a call
              \* that concerns it took effect without an answer
  echoes,     \* history: how often the adapter sent an envelope once more
  faults      \* faults so far

queue == <<todo, jobs, work, docs, published, dead, again>>
clients == <<inbox, connected, inRoom, received, echoes>>
realtimeVars == <<queue, clients, faults>>

Free == [on |-> Nobody, step |-> "none", doc |-> 0]
Fault == faults < MaxFaults /\ faults' = faults + 1

(***************************************************************************)
(* The services and the event bus.                                         *)
(***************************************************************************)
\* notificationService.enqueue, added k times; nobody waits for it
Enqueue(n) ==
  /\ n \in todo /\ todo' = todo \ {n}
  /\ \E k \in 1..MaxAdds :
       /\ faults' = faults + k - 1 /\ faults' <= MaxFaults
       /\ jobs' = [j \in Job |-> IF \E i \in 1..k : j = <<n, "deliver", i>>
                                  THEN Add(jobs[j]) ELSE jobs[j]]
       /\ again' = [again EXCEPT ![n] = @ + k - 1]
  /\ UNCHANGED <<work, docs, published, dead, clients>>

\* Redis refuses the job: the rejection is nobody's, the notification is gone
EnqueueFails(n) ==
  /\ n \in todo /\ todo' = todo \ {n} /\ Fault
  /\ UNCHANGED <<jobs, work, docs, published, dead, again, clients>>

(* eventBus.publish: the queue takes the job, which has the name of the    *)
(* envelope, or the envelope becomes a dead letter, which it can be beside *)
(* its job; it never throws.                                               *)
Publish(e) == jobs' = [jobs EXCEPT ![e] = Add(@)] /\ UNCHANGED <<dead, faults>>
DeadLetter(e) == dead' = dead \cup {e}
PublishFails(e) ==
  /\ Fault /\ DeadLetter(e)
  /\ jobs' \in {jobs, [jobs EXCEPT ![e] = Add(@)]}

PublishEvent(e) ==
  /\ e \in todo /\ todo' = todo \ {e}
  /\ Publish(e) \/ PublishFails(e)
  /\ UNCHANGED <<work, docs, published, again, clients>>

(* The answer of the queue is lost, and the command is going to be sent    *)
(* again: a job that has come and gone by then is added once more.         *)
Announced(h) == <<Of(work[h].on), work[h].doc>>
Announcing(h, e) == work[h].step = "announce" /\ e = Announced(h)
PublishLosesAnswer(e) ==
  /\ e \in todo \/ \E h \in Handlers : Announcing(h, e)
  /\ Fault
  /\ jobs' = [jobs EXCEPT ![e] = Add(@)] /\ again' = [again EXCEPT ![e] = @ + 1]
  /\ UNCHANGED <<todo, work, docs, published, dead, clients>>

(***************************************************************************)
(* The workers.                                                            *)
(***************************************************************************)
TakeJob(h, j) ==
  /\ work[h] = Free /\ jobs[j].state = "waiting"
  /\ jobs' = [jobs EXCEPT ![j] = Take(@, h)]
  /\ work' = [work EXCEPT ![h] = [on |-> j, doc |-> 0, step |->
                 IF j \in Delivery THEN "create" ELSE "publish"]]
  /\ UNCHANGED <<todo, docs, published, dead, again, clients, faults>>

Stores(n) == docs' = [docs EXCEPT ![n] = @ + 1] /\ UNCHANGED <<published, inbox>>

\* the first half of create: the document
Create(h) ==
  LET n == Of(work[h].on) IN
  /\ work[h].step = "create"
  /\ Stores(n)
  /\ work' = [work EXCEPT ![h] = [@ EXCEPT !.step = "announce", !.doc = docs[n] + 1]]
  /\ UNCHANGED <<todo, jobs, dead, again, connected, inRoom, received, echoes, faults>>

\* Seeded fault: a failure of the announcement is thrown.
AnnounceThrows(h) ==
  /\ work[h].step = "announce"
  /\ \/ Publish(Announced(h)) /\ work' = [work EXCEPT ![h].step = "finish"]
     \/ /\ Fault /\ UNCHANGED dead
        /\ jobs' = [jobs EXCEPT ![work[h].on] = Retry(@, h)]
        /\ work' = [work EXCEPT ![h] = Free]
  /\ UNCHANGED <<todo, docs, published, again, clients>>

\* the second half: notificationNew
Announce(h) ==
  /\ work[h].step = "announce"
  /\ Publish(Announced(h)) \/ PublishFails(Announced(h))
  /\ work' = [work EXCEPT ![h].step = "finish"]
  /\ UNCHANGED <<todo, docs, published, again, clients>>

\* redisPublisher.publish: the processes that are subscribed hear it
Sends(e) ==
  /\ published' = [published EXCEPT ![e] = @ + 1]
  /\ \E up \in SUBSET Process :
       inbox' = [p \in Process |-> IF p \in up THEN [inbox[p] EXCEPT ![e] = @ + 1]
                                               ELSE inbox[p]]
  /\ UNCHANGED docs

RedisPublish(h) ==
  /\ work[h].step = "publish"
  /\ Sends(work[h].on)
  /\ work' = [work EXCEPT ![h].step = "finish"]
  /\ UNCHANGED <<todo, jobs, dead, again, connected, inRoom, received, echoes, faults>>

Finish(h) ==
  /\ work[h].step = "finish"
  /\ jobs' = [jobs EXCEPT ![work[h].on] = Complete(@, h)]
  /\ work' = [work EXCEPT ![h] = Free]
  /\ UNCHANGED <<todo, docs, published, dead, again, clients, faults>>

\* Seeded fault: the worker swallows the error.
WorkFailsQuietly(h) ==
  /\ work[h].step \in {"create", "publish"} /\ Fault
  /\ jobs' = [jobs EXCEPT ![work[h].on] = Complete(@, h)]
  /\ work' = [work EXCEPT ![h] = Free]
  /\ UNCHANGED <<todo, docs, published, dead, again, clients>>

Rejected(h) ==
  /\ jobs' = [jobs EXCEPT ![work[h].on] = Retry(@, h)]
  /\ work' = [work EXCEPT ![h] = Free]

\* MongoDB refuses the document, or Redis the message
WorkFails(h) ==
  /\ work[h].step \in {"create", "publish"} /\ Fault
  /\ Rejected(h)
  /\ UNCHANGED <<todo, docs, published, dead, again, clients>>

(* The document is stored, or the message sent, and the answer lost: the   *)
(* call is rejected all the same, or the message is going to be sent       *)
(* again.  (The driver of MongoDB repeats an insert under its number.)     *)
AnswerLost(h) ==
  LET x == Of(work[h].on) IN
  /\ Fault /\ again' = [again EXCEPT ![x] = @ + 1]
  /\ \/ work[h].step = "create" /\ Stores(x) /\ Rejected(h)
     \/ work[h].step = "publish" /\ Sends(x) /\ (Rejected(h) \/ UNCHANGED <<jobs, work>>)
  /\ UNCHANGED <<todo, dead, connected, inRoom, received, echoes>>

\* the lock of a job is not renewed: its handler has died, or goes on
Stalled(h) ==
  LET j == work[h].on IN
  /\ work[h] # Free /\ HeldBy(jobs[j], h) /\ Fault
  /\ jobs' = [jobs EXCEPT ![j] = Stall(@)]
  /\ again' = [again EXCEPT ![Of(j)] = @ + 1]
  /\ work' \in {work, [work EXCEPT ![h] = Free]}
  /\ UNCHANGED <<todo, docs, published, dead, clients>>

(***************************************************************************)
(* The processes and the user.                                             *)
(***************************************************************************)
\* the user's own room is joined on connecting, that of a contest on request
Member(e) == connected /\ (e \in Event => inRoom)

(* socketGateway.dispatch: the sockets of the process get the envelope,    *)
(* and the adapter brings it to the others.  A socket may be gone by then. *)
Dispatch(p, e) ==
  /\ inbox[p][e] > 0
  /\ inbox' = [inbox EXCEPT ![p][e] = @ - 1]
  /\ \/ Member(e) /\ received' = [received EXCEPT ![e] = @ + 1]
     \/ UNCHANGED received
  /\ UNCHANGED <<queue, connected, inRoom, echoes, faults>>

\* the client of the adapter sends the emission to the others once more
DispatchEchoes(p, e) ==
  /\ inbox[p][e] > 0 /\ Member(e) /\ Fault
  /\ received' = [received EXCEPT ![e] = @ + 1] /\ echoes' = [echoes EXCEPT ![e] = @ + 1]
  /\ UNCHANGED <<queue, inbox, connected, inRoom>>

\* the gateway throws, and the subscriber writes a dead letter
DispatchFails(p, e) ==
  /\ inbox[p][e] > 0 /\ Fault
  /\ inbox' = [inbox EXCEPT ![p][e] = @ - 1]
  /\ DeadLetter(e)
  /\ UNCHANGED <<todo, jobs, work, docs, published, again, connected, inRoom, received,
                 echoes>>

\* a process restarts: what it has heard is gone, and its sockets are
Restart(p) ==
  /\ Fault
  /\ inbox' = [inbox EXCEPT ![p] = [e \in Envelope |-> 0]]
  /\ \/ connected' = FALSE /\ inRoom' = FALSE
     \/ UNCHANGED <<connected, inRoom>>
  /\ UNCHANGED <<queue, received, echoes>>

Connect ==
  /\ ~connected /\ connected' = TRUE
  /\ UNCHANGED <<queue, inbox, inRoom, received, echoes, faults>>

Disconnect ==
  /\ connected /\ connected' = FALSE /\ inRoom' = FALSE
  /\ UNCHANGED <<queue, inbox, received, echoes, faults>>

JoinOrLeaveRoom ==
  /\ connected /\ inRoom' = ~inRoom
  /\ UNCHANGED <<queue, inbox, connected, received, echoes, faults>>

RealtimeInit ==
  /\ todo = Notification \cup Event /\ faults = 0
  /\ jobs = [j \in Job |-> NoJob] /\ work = [h \in Handlers |-> Free]
  /\ docs = [n \in Notification |-> 0] /\ published = [e \in Envelope |-> 0]
  /\ dead = {} /\ again = [x \in Item |-> 0]
  /\ inbox = [p \in Process |-> [e \in Envelope |-> 0]]
  /\ connected = FALSE /\ inRoom = FALSE
  /\ received = [e \in Envelope |-> 0] /\ echoes = [e \in Envelope |-> 0]

HandlerStep(h) == Create(h) \/ Announce(h) \/ RedisPublish(h) \/ Finish(h)
ServiceStep ==
  \/ \E n \in Notification : Enqueue(n) \/ EnqueueFails(n)
  \/ \E e \in Event : PublishEvent(e)
  \/ \E e \in Envelope : PublishLosesAnswer(e)
ClientStep == Connect \/ Disconnect \/ JoinOrLeaveRoom \/ \E p \in Process : Restart(p)
DeliveryStep ==
  \E p \in Process, e \in Envelope :
    Dispatch(p, e) \/ DispatchEchoes(p, e) \/ DispatchFails(p, e)
RealtimeNext ==
  \/ ServiceStep \/ DeliveryStep \/ ClientStep
  \/ \E h \in Handlers : HandlerStep(h) \/ WorkFails(h) \/ AnswerLost(h) \/ Stalled(h)
  \/ \E h \in Handlers, j \in Job : TakeJob(h, j)

(* The workers go on, as long as they can. *)
Fairness ==
  /\ \A h \in Handlers : WF_realtimeVars(HandlerStep(h))
  /\ WF_realtimeVars(\E h \in Handlers, j \in Job : TakeJob(h, j))

RealtimeSpec == RealtimeInit /\ [][RealtimeNext]_realtimeVars /\ Fairness

(***************************************************************************)
(* Properties.                                                             *)
(***************************************************************************)
(* The variables have their types. *)
RealtimeTypeOK ==
  /\ todo \subseteq Notification \cup Event /\ jobs \in [Job -> Jobs]
  /\ docs \in [Notification -> 0..MaxFaults + 1] /\ dead \subseteq Envelope
  /\ connected \in BOOLEAN /\ inRoom \in BOOLEAN
  /\ \A e \in Envelope : published[e] \in Nat /\ received[e] \in Nat

(* What is repeated is accounted for.  A notification is stored once, and  *)
(* once more for each time that its job was taken from its worker, added   *)
(* again, or rejected with the document stored.  The user receives an      *)
(* event once from every process, as often more as its dispatch was taken  *)
(* from its worker or added again or its message sent without an answer,   *)
(* and once for every echo of the adapter.  An announcement that fails     *)
(* does not bring the job back.                                            *)
RepeatsAreAccountedFor ==
  /\ \A n \in Notification : docs[n] <= 1 + again[n]
  /\ \A e \in Envelope : received[e] <= Cardinality(Process) * (1 + again[e]) + echoes[e]

(* A notification that is enqueued is stored, unless its job fails for     *)
(* good.  Once stored it is announced on the channel, or its job or the    *)
(* one of its dispatch has failed, or it is a dead letter (if Redis takes  *)
(* that).                                                                  *)
EnqueuedIsAnnounced ==
  \A n \in Notification : LET d == <<n, "deliver", 1>> IN
    jobs[d].state = "waiting" ~>
      \/ jobs[d].state = "failed"
      \/ /\ docs[n] > 0
         /\ \E k \in 1..MaxFaults + 1 :
              \/ published[<<n, k>>] > 0 \/ <<n, k>> \in dead
              \/ jobs[<<n, k>>].state = "failed"
=============================================================================
