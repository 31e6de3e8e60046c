----------------------- MODULE CommandPipeline_proofs -----------------------
(***************************************************************************)
(* The theorems about CommandPipeline, for every set of queues, devices,   *)
(* hosts and commands and every ring size.                                 *)
(***************************************************************************)
EXTENDS PipelineSteps_proofs, FiniteSetTheorems

(* Steps that touch none of the variables the parts are about. *)
LEMMA PartsFrame ==
  ASSUME Parts,
         UNCHANGED <<status, waits, queueOf, callback, last, pending, issued, ready, schedAt,
                     current, issuerAt, executing, ticket, deps>>
  PROVE  Parts'
<1>1. Held' /\ Rings' /\ InReady'
  BY DEF Parts, Held, Rings, InReady
<1>2. Issuing' /\ Chained' /\ InHand'
  BY DEF Parts, Issuing, Chained, InHand, Started, IsComplete
<1>3. Numbered' /\ StillWaits'
  BY DEF Parts, Numbered, StillWaits, IsComplete
<1>4. InOrderExecution' /\ WaitListRespected'
  BY DEF Parts, InOrderExecution, WaitListRespected, Started, IsComplete
<1> QED BY <1>1, <1>2, <1>3, <1>4 DEF Parts

(* IInv holds at the start and every step keeps it. *)
LEMMA InvInitial == Init => IInv
<1> SUFFICES ASSUME Init PROVE IInv
  OBVIOUS
<1> USE CommandsAssumption DEF Events, Work
<1>1. TypeOK
  BY TypeInitial
<1>2. \A c \in Work : status[c] = "none" /\ queueOf[c] = None /\ callback[c] = None
  BY DEF Init
<1>3. Held /\ Rings /\ InReady /\ Issuing /\ Chained /\ InHand
  BY <1>2 DEF Init, Held, Rings, InReady, Issuing, Chained, InHand
<1>4. Numbered /\ StillWaits /\ InOrderExecution /\ WaitListRespected
  BY <1>2 DEF Init, Numbered, StillWaits, InOrderExecution, WaitListRespected, Started
<1>5. AtRing
  BY DEF Init, AtRing, Pushing
<1> QED BY <1>1, <1>3, <1>4, <1>5 DEF IInv

(* The scheduler's command is in its ring, so no host is pushing it.       *)
LEMMA CurrentIsInRing ==
  ASSUME IInv, current # None
  PROVE  current \in InRing(queueOf[current]) /\ current \in Commands
<1>1. /\ queueOf[current] \in Queues /\ pending[queueOf[current]] # <<>>
      /\ Head(pending[queueOf[current]]) = current /\ current \in Commands
      /\ pending[queueOf[current]] \in Seq(Commands)
  BY DEF IInv, Held, TypeOK
<1> QED BY <1>1, TailFacts DEF InRing

(* Steps of the other threads: rings only shrink, and no command but the   *)
(* scheduler's leaves the status CL_QUEUED.                                *)
LEMMA AtRingFrame ==
  ASSUME IInv, UNCHANGED <<hostAt, blockedOn, queueOf>>,
         \A c \in Commands : status[c] = "queued" /\ c # current => status'[c] = "queued",
         \A q \in Queues : InRing(q)' \subseteq InRing(q)
  PROVE  AtRing'
<1> SUFFICES ASSUME NEW h \in Hosts, Pushing(h)
             PROVE  /\ status'[blockedOn[h]] = "queued"
                    /\ blockedOn[h] \notin InRing(queueOf[blockedOn[h]])'
  BY DEF IInv, AtRing, Pushing
<1>1. /\ blockedOn[h] \in Commands /\ status[blockedOn[h]] = "queued"
      /\ queueOf[blockedOn[h]] \in Queues
      /\ blockedOn[h] \notin InRing(queueOf[blockedOn[h]])
  BY DEF IInv, AtRing
<1>2. blockedOn[h] # current
  BY <1>1, CurrentIsInRing, CommandsAssumption DEF Events, Work
<1>3. InRing(queueOf[blockedOn[h]])' \subseteq InRing(queueOf[blockedOn[h]])
  BY <1>1 DEF InRing
<1> QED BY <1>1, <1>2, <1>3

(* Every step keeps what is known of the commands whose calls are at the   *)
(* ring.                                                                   *)
LEMMA AtRingStep == IInv /\ [Next]_vars => AtRing'
<1> SUFFICES ASSUME IInv, [Next]_vars PROVE AtRing'
  OBVIOUS
<1> USE CommandsAssumption, BoundsAssumption DEF Events, Work
<1>t. TypeOK /\ AtRing
  BY DEF IInv
<1>0. ASSUME UNCHANGED <<status, queueOf, pending>>,
             \A h \in Hosts : Pushing(h)' => Pushing(h) /\ blockedOn'[h] = blockedOn[h]
      PROVE  AtRing'
  BY <1>0, <1>t DEF AtRing, InRing
<1>f. UNCHANGED pending => \A q \in Queues : InRing(q)' \subseteq InRing(q)
  BY DEF InRing
<1>1. ASSUME NEW h \in Hosts, NEW q \in Queues, NEW c \in Commands, NEW W \in WaitLists,
             NEW blocking \in BOOLEAN, Enqueue(h, q, c, W, blocking)
      PROVE  AtRing'
  <2>1. /\ status[c] = "none" /\ Owner[q] = h
        /\ \A e \in Events : status'[e] = IF e = c THEN "queued" ELSE status[e]
        /\ \A e \in Work : queueOf'[e] = IF e = c THEN q ELSE queueOf[e]
        /\ \A g \in Hosts : blockedOn'[g] = IF g = h THEN c ELSE blockedOn[g]
        /\ \A g \in Hosts : g # h => hostAt'[g] = hostAt[g]
        /\ UNCHANGED pending
    BY <1>1, <1>t DEF Enqueue, TypeOK
  <2>2. c \notin InRing(q)
    BY <2>1 DEF IInv, Rings, InRing
  <2> SUFFICES ASSUME NEW g \in Hosts, Pushing(g)'
               PROVE  /\ blockedOn'[g] \in Commands
                      /\ status'[blockedOn'[g]] = "queued"
                      /\ queueOf'[blockedOn'[g]] \in Queues
                      /\ Owner[queueOf'[blockedOn'[g]]] = g
                      /\ blockedOn'[g] \notin InRing(queueOf[blockedOn[g]])'
    BY DEF AtRing
  <2>3. CASE g = h
    BY <2>1, <2>2, <2>3 DEF InRing
  <2>4. CASE g # h
    <3>1. Pushing(g) /\ blockedOn'[g] = blockedOn[g]
      BY <2>1, <2>4 DEF Pushing
    <3>2. /\ blockedOn[g] \in Commands /\ status[blockedOn[g]] = "queued"
          /\ queueOf[blockedOn[g]] \in Queues /\ Owner[queueOf[blockedOn[g]]] = g
          /\ blockedOn[g] \notin InRing(queueOf[blockedOn[g]])
      BY <3>1, <1>t DEF AtRing
    <3> QED BY <3>1, <3>2, <2>1 DEF InRing
  <2> QED BY <2>3, <2>4
<1>2. ASSUME NEW h \in Hosts, Push(h) PROVE AtRing'
  <2> DEFINE c == blockedOn[h]
             q == queueOf[c]
  <2>1. /\ c \in Commands /\ q \in Queues /\ Owner[q] = h
        /\ pending[q] \in Seq(Commands) /\ pending \in [Queues -> Seq(Commands)]
        /\ pending' = [pending EXCEPT ![q] = Append(@, c)]
        /\ UNCHANGED <<status, queueOf>>
    BY <1>2, <1>t DEF Push, AtRing, TypeOK, commandVars
  <2>2. \A g \in Hosts : Pushing(g)' => g # h /\ Pushing(g) /\ blockedOn'[g] = blockedOn[g]
    <3>1. /\ hostAt' = [hostAt EXCEPT ![h] = "blocking"] \/ hostAt' = [hostAt EXCEPT ![h] = "idle"]
          /\ blockedOn' = blockedOn \/ blockedOn' = [blockedOn EXCEPT ![h] = None]
      BY <1>2 DEF Push
    <3> QED BY <3>1, <1>t DEF TypeOK, Pushing
  <2>4. \A x \in Queues : x # q => InRing(x)' = InRing(x)
    BY <2>1 DEF InRing
  <2> HIDE DEF c, q
  <2> SUFFICES ASSUME NEW g \in Hosts, Pushing(g)'
               PROVE  /\ blockedOn'[g] \in Commands
                      /\ status'[blockedOn'[g]] = "queued"
                      /\ queueOf'[blockedOn'[g]] \in Queues
                      /\ Owner[queueOf'[blockedOn'[g]]] = g
                      /\ blockedOn'[g] \notin InRing(queueOf[blockedOn[g]])'
    BY DEF AtRing
  <2>5. g # h /\ Pushing(g) /\ blockedOn'[g] = blockedOn[g]
    BY <2>2
  <2>6. /\ blockedOn[g] \in Commands /\ status[blockedOn[g]] = "queued"
        /\ queueOf[blockedOn[g]] \in Queues /\ Owner[queueOf[blockedOn[g]]] = g
        /\ blockedOn[g] \notin InRing(queueOf[blockedOn[g]])
    BY <2>5, <1>t DEF AtRing
  <2>7. queueOf[blockedOn[g]] # q
    BY <2>1, <2>5, <2>6
  <2>8. blockedOn[g] \notin {pending'[queueOf[blockedOn[g]]][i] :
                             i \in DOMAIN pending'[queueOf[blockedOn[g]]]}
    BY <2>4, <2>6, <2>7 DEF InRing
  <2> QED BY <2>1, <2>5, <2>6, <2>8 DEF InRing
<1>3. ASSUME NEW h \in Hosts, NEW e \in Commands \cup UserEvents, BeginWait(h, e)
      PROVE  AtRing'
  BY <1>0, <1>3, <1>t DEF BeginWait, Pushing, TypeOK, commandVars
<1>4. ASSUME NEW h \in Hosts, EndWait(h) PROVE AtRing'
  BY <1>0, <1>4, <1>t DEF EndWait, Pushing, TypeOK, commandVars, queueVars
<1>5. ASSUME NEW h \in Hosts, NEW u \in UserEvents, SetUserEventStatus(h, u) PROVE AtRing'
  BY <1>0, <1>5, <1>t DEF SetUserEventStatus, Pushing, TypeOK, commandVars, queueVars
<1>6. ASSUME NEW h \in Hosts, NEW u \in UserEvents, NEW s \in Outcomes, SetStatus(h, u, s)
      PROVE  AtRing'
  <2>1. /\ UNCHANGED <<queueOf, pending>>
        /\ status' = [status EXCEPT ![u] = s]
        /\ \A g \in Hosts : Pushing(g)' => Pushing(g) /\ blockedOn'[g] = blockedOn[g]
    BY <1>6, <1>t DEF SetStatus, Pushing, TypeOK, commandVars, queueVars
  <2>2. \A c \in Commands : status'[c] = status[c]
    BY <2>1, <1>t DEF TypeOK
  <2> QED BY <2>1, <2>2, <1>t DEF AtRing, InRing
<1>7. ASSUME NEW h \in Hosts, HostInvoke(h) PROVE AtRing'
  BY <1>0, <1>7, <1>t DEF HostInvoke, Pushing, TypeOK, commandVars, queueVars
<1>8. ASSUME NEW h \in Hosts, NEW q \in Queues, Flush(h, q) PROVE AtRing'
  BY <1>0, <1>8, <1>t DEF Flush, Pushing, TypeOK, commandVars, hostVars
<1>9. CASE Scheduler
  <2>1. UNCHANGED <<hostAt, blockedOn, queueOf>>
    BY <1>9 DEF Scheduler, BeginPass, EndPass, PeekNothing, Peek, CloneByCopy, CloneByReadWrite,
       Resolve, Unresolved, Submit, EnqueueReadyQueue, CompleteAtOnce, SchedulerInvoke, Dequeue,
       commandVars, hostVars
  <2>2. \A c \in Commands : status[c] = "queued" /\ c # current => status'[c] = "queued"
    <3>1. status \in [Events -> Statuses]
      BY <1>t DEF TypeOK
    <3>2. ASSUME NEW k \in Clones, NEW r \in Clones, NEW d \in Devices,
                 CloneByCopy(k, d) \/ CloneByReadWrite(k, r, d)
          PROVE  \A c \in Commands : status'[c] = status[c] \/ status[c] # "queued"
      BY <3>1, <3>2 DEF CloneByCopy, CloneByReadWrite
    <3>3. CASE \E d \in Devices : \/ \E k \in Clones : CloneByCopy(k, d)
                                  \/ \E r, w \in Clones : CloneByReadWrite(r, w, d)
      BY <3>2, <3>3
    <3>4. CASE Submit \/ CompleteAtOnce
      BY <3>1, <3>4 DEF Submit, CompleteAtOnce
    <3>5. CASE status' = status
      BY <3>5
    <3>6. \/ Submit \/ CompleteAtOnce \/ status' = status
          \/ \E d \in Devices : \/ \E k \in Clones : CloneByCopy(k, d)
                                 \/ \E r, w \in Clones : CloneByReadWrite(r, w, d)
      BY <1>9 DEF Scheduler, BeginPass, EndPass, PeekNothing, Peek, Resolve, Unresolved,
         EnqueueReadyQueue, SchedulerInvoke, Dequeue
    <3> QED BY <3>3, <3>4, <3>5, <3>6
  <2>3. CASE Dequeue
    <3> DEFINE q == queueOf[current]
    <3>1. /\ pending' = [pending EXCEPT ![q] = Tail(@)] /\ pending \in [Queues -> Seq(Commands)]
          /\ q \in Queues /\ pending[q] # <<>>
      BY <2>3, <1>t DEF Dequeue, TypeOK, IInv, Held
    <3> HIDE DEF q
    <3>2. /\ pending'[q] = Tail(pending[q])
          /\ \A i \in DOMAIN Tail(pending[q]) :
               i + 1 \in DOMAIN pending[q] /\ Tail(pending[q])[i] = pending[q][i + 1]
      <4>1. pending'[q] = Tail(pending[q]) /\ pending[q] \in Seq(Commands)
        BY <3>1
      <4> QED BY <4>1, <3>1, TailFacts
    <3>3. \A x \in Queues : InRing(x)' \subseteq InRing(x)
      <4> SUFFICES ASSUME NEW x \in Queues PROVE InRing(x)' \subseteq InRing(x)
        OBVIOUS
      <4>1. CASE x = q
        BY <4>1, <3>2 DEF InRing
      <4>2. CASE x # q
        BY <4>2, <3>1 DEF InRing
      <4> QED BY <4>1, <4>2
    <3> QED BY <2>1, <2>2, <3>3, AtRingFrame
  <2>4. CASE ~Dequeue
    <3>1. UNCHANGED pending
      BY <1>9, <2>4 DEF Scheduler, BeginPass, EndPass, PeekNothing, Peek, CloneByCopy,
         CloneByReadWrite, Resolve, Unresolved, Submit, EnqueueReadyQueue, CompleteAtOnce,
         SchedulerInvoke, queueVars
    <3> QED BY <2>1, <2>2, <3>1, <1>f, AtRingFrame
  <2> QED BY <2>3, <2>4
<1>10. CASE \E d \in Devices : Issuer(d)
  <2>1. PICK d \in Devices : Issuer(d)
    BY <1>10
  <2>2. UNCHANGED <<hostAt, blockedOn, queueOf, pending>>
    BY <2>1 DEF Issuer, TakeReady, SetAsComplete, RunCallbacks, IssuerInvoke, commandVars,
       queueVars, hostVars
  <2>3. \A c \in Commands : status[c] = "queued" => status'[c] = "queued"
    <3>1. CASE TakeReady(d)
      <4>1. /\ Head(ready[d]) \in Work /\ status[Head(ready[d])] = "submitted"
            /\ status' = [status EXCEPT ![Head(ready[d])] = "running"]
        BY <3>1, <1>t, TailFacts DEF TakeReady, TypeOK, IInv, InReady
      <4> QED BY <4>1, <1>t DEF TypeOK
    <3>2. CASE \E s \in Outcomes : SetAsComplete(d, s)
      <4>1. PICK s \in Outcomes : status' = [status EXCEPT ![executing[d]] = s]
        BY <3>2 DEF SetAsComplete
      <4>2. status[executing[d]] = "running"
        BY <3>2 DEF SetAsComplete, IInv, Issuing
      <4> QED BY <4>1, <4>2, <1>t DEF TypeOK
    <3>3. CASE RunCallbacks(d)
      <4>1. callback[executing[d]] \in Clones \cup {None}
        BY <3>3, <1>t DEF RunCallbacks, IInv, Held, TypeOK
      <4> QED BY <4>1, <3>3, <1>t DEF RunCallbacks, TypeOK
    <3>4. CASE IssuerInvoke(d)
      BY <3>4 DEF IssuerInvoke
    <3> QED BY <2>1, <3>1, <3>2, <3>3, <3>4 DEF Issuer
  <2> QED BY <2>2, <2>3, <1>f, AtRingFrame
<1>11. CASE UNCHANGED vars
  BY <1>0, <1>11 DEF vars, commandVars, queueVars, hostVars, Pushing
<1> QED BY <1>1, <1>2, <1>3, <1>4, <1>5, <1>6, <1>7, <1>8, <1>9, <1>10, <1>11
    DEF Next, HostStep, HostCall

LEMMA InvPreserved == IInv /\ [Next]_vars => IInv'
<1> SUFFICES ASSUME IInv, [Next]_vars PROVE IInv'
  OBVIOUS
<1>1. TypeOK' /\ AtRing'
  BY TypePreserved, AtRingStep DEF IInv
<1>2. Parts
  BY DEF IInv, Parts
<1>3. ASSUME Next PROVE Parts'
  <2>1. CASE \E h \in Hosts : HostStep(h) \/ HostCall(h)
    <3>1. ASSUME NEW h \in Hosts, NEW e \in Commands \cup UserEvents, BeginWait(h, e)
          PROVE  Parts'
      BY <3>1, <1>2, PartsFrame DEF BeginWait, commandVars, schedVars, issuerVars
    <3>2. ASSUME NEW h \in Hosts, EndWait(h) PROVE Parts'
      BY <3>2, <1>2, PartsFrame DEF EndWait, commandVars, queueVars, schedVars, issuerVars
    <3>3. ASSUME NEW h \in Hosts, HostInvoke(h) PROVE Parts'
      BY <3>3, <1>2, PartsFrame DEF HostInvoke, commandVars, queueVars, schedVars, issuerVars
    <3>4. ASSUME NEW h \in Hosts, NEW q \in Queues, Flush(h, q) PROVE Parts'
      BY <3>4, <1>2, PartsFrame DEF Flush, commandVars, schedVars, issuerVars
    <3>5. ASSUME NEW h \in Hosts, NEW u \in UserEvents, SetUserEventStatus(h, u) PROVE Parts'
      BY <3>5, <1>2, PartsFrame DEF SetUserEventStatus, commandVars, queueVars, schedVars, issuerVars
    <3> QED BY <2>1, <3>1, <3>2, <3>3, <3>4, <3>5, EnqueuePreserves, PushPreserves,
           SetStatusPreserves
        DEF HostStep, HostCall
  <2>2. CASE Scheduler
    <3>1. ASSUME NEW q \in Queues, PeekNothing(q) PROVE Parts'
      BY <3>1, <1>2, PartsFrame DEF PeekNothing, commandVars, queueVars, issuerVars
    <3> QED BY <2>2, <3>1, BeginPassPreserves, EndPassPreserves, PeekPreserves,
               CloneByCopyPreserves, CloneByReadWritePreserves, UnresolvedPreserves,
               ResolvePreserves, SubmitPreserves, EnqueueReadyQueuePreserves,
               CompleteAtOncePreserves, SchedulerInvokePreserves, DequeuePreserves
        DEF Scheduler
  <2>3. CASE \E d \in Devices : Issuer(d)
    BY <2>3, TakeReadyPreserves, SetAsCompletePreserves, RunCallbacksPreserves,
       IssuerInvokePreserves DEF Issuer
  <2> QED BY <1>3, <2>1, <2>2, <2>3 DEF Next
<1>4. CASE UNCHANGED vars
  <2>1. Parts'
    BY <1>4, <1>2, PartsFrame DEF vars, commandVars, queueVars, schedVars, issuerVars
  <2> QED BY <1>1, <2>1 DEF IInv, Parts
<1>5. CASE Next
  BY <1>1, <1>3, <1>5 DEF IInv, Parts
<1> QED BY <1>4, <1>5

(* The parts of IInv hold in every reachable state. *)
THEOREM Invariance == Spec => []IInv
  BY InvInitial, InvPreserved, PTL DEF Spec

(* The fields of the runtime keep their types. *)
THEOREM TypeCorrect == Spec => []TypeOK
<1>1. IInv => TypeOK
  BY DEF IInv
<1> QED BY <1>1, Invariance, PTL

(* Commands of an in-order queue start in the order they were enqueued,    *)
(* each after the completion of all before it, on whatever devices.        *)
THEOREM InOrder == Spec => []InOrderExecution
<1>1. IInv => InOrderExecution
  BY DEF IInv
<1> QED BY <1>1, Invariance, PTL

(* A command starts after the events of its wait list.                     *)
THEOREM WaitList == Spec => []WaitListRespected
<1>1. IInv => WaitListRespected
  BY DEF IInv
<1> QED BY <1>1, Invariance, PTL

(* Dequeue() drops the command in the scheduler's hands.                   *)
THEOREM DequeueRequestValid == Spec => []DequeueMatches
<1>1. IInv => DequeueMatches
  BY DEF IInv, Held, DequeueMatches
<1> QED BY <1>1, Invariance, PTL

(* The status of one event moves forward, those of the others stay. *)
LEMMA OneStatus ==
  ASSUME NEW e \in Events, NEW s \in Statuses, status' = [status EXCEPT ![e] = s],
         Rank(status[e]) < Rank(s), TypeOK
  PROVE  \A f \in Events : status'[f] # status[f] => StatusMoves(f)
  BY DEF TypeOK, StatusMoves

(* No step of any thread moves the status of an event back. *)
LEMMA StatusStep ==
  ASSUME IInv, [Next]_vars
  PROVE  \A e \in Events : status'[e] # status[e] => StatusMoves(e)
<1> USE CommandsAssumption DEF Events, Work, StatusMoves
<1> DEFINE Goal == \A e \in Events : status'[e] # status[e] => StatusMoves(e)
<1>s. {"none", "queued", "submitted", "running", "complete", "error"} \subseteq Statuses
  BY DEF Statuses
<1>r. /\ Rank("none") = 0 /\ Rank("queued") = 1 /\ Rank("submitted") = 2
      /\ Rank("running") = 3 /\ Rank("complete") = 4 /\ Rank("error") = 4
  BY DEF Rank
<1>t. TypeOK
  BY DEF IInv
<1>0. UNCHANGED status => Goal
  OBVIOUS
<1>1. ASSUME NEW h \in Hosts, HostStep(h) \/ HostCall(h) PROVE Goal
  <2>1. CASE \E q \in Queues, c \in Commands, W \in WaitLists, blocking \in BOOLEAN :
               Enqueue(h, q, c, W, blocking)
    <3>1. PICK c \in Commands : status[c] = "none" /\ status' = [status EXCEPT ![c] = "queued"]
      BY <2>1 DEF Enqueue
    <3> QED BY <3>1, <1>s, <1>r, <1>t, OneStatus
  <2>2. CASE \E u \in UserEvents, s \in Outcomes : SetStatus(h, u, s)
    <3>1. PICK u \in UserEvents, s \in Outcomes : status' = [status EXCEPT ![u] = s]
      BY <2>2 DEF SetStatus
    <3>2. s \in {"complete", "error"} /\ u \in Events
      BY BoundsAssumption
    <3>3. /\ status'[u] = s
          /\ \A e \in Events : e # u => status'[e] = status[e]
      BY <3>1, <3>2, <1>t DEF TypeOK
    <3>4. StatusMoves(u)
      <4>1. status[u] \in {"none", "queued", "submitted", "running", "complete", "error"}
        BY <3>2, <1>t DEF TypeOK, Statuses
      <4>2. Rank(status[u]) \in 0 .. 4 /\ Rank(status'[u]) = 4
        BY <4>1, <3>2, <3>3, <1>r
      <4> QED BY <4>2 DEF StatusMoves
    <3> QED BY <3>3, <3>4
  <2> QED BY <1>0, <1>1, <2>1, <2>2
      DEF HostStep, HostCall, Push, BeginWait, EndWait, SetUserEventStatus, HostInvoke, Flush
<1>2. ASSUME Scheduler PROVE Goal
  <2>1. CASE \E k \in Clones, d \in Devices : CloneByCopy(k, d)
    <3>1. PICK k \in Clones : status[k] = "none" /\ status' = [status EXCEPT ![k] = "submitted"]
      BY <2>1 DEF CloneByCopy
    <3> QED BY <3>1, <1>s, <1>r, <1>t, OneStatus
  <2>2. CASE \E r, w \in Clones, d \in Devices : CloneByReadWrite(r, w, d)
    <3>1. PICK r \in Clones, w \in Clones :
            /\ r # w /\ status[r] = "none" /\ status[w] = "none"
            /\ status' = [status EXCEPT ![r] = "submitted", ![w] = "queued"]
      BY <2>2 DEF CloneByReadWrite
    <3>2. /\ status'[r] = "submitted" /\ status'[w] = "queued"
          /\ \A e \in Events : e # r /\ e # w => status'[e] = status[e]
      BY <3>1, <1>t DEF TypeOK
    <3>3. Rank(status[r]) < Rank(status'[r]) /\ Rank(status[w]) < Rank(status'[w])
      BY <3>1, <3>2, <1>r
    <3> QED BY <3>2, <3>3 DEF StatusMoves
  <2>3. CASE Submit \/ CompleteAtOnce
    <3>1. PICK s \in {"submitted", "complete"} : status' = [status EXCEPT ![current] = s]
      BY <2>3 DEF Submit, CompleteAtOnce
    <3>2. current \in Events /\ status[current] = "queued"
      BY <2>3, <1>t DEF IInv, TypeOK, Held, InHand, Submit, CompleteAtOnce
    <3> QED BY <3>1, <3>2, <1>s, <1>r, <1>t, OneStatus
  <2> QED BY <1>0, <1>2, <2>1, <2>2, <2>3
      DEF Scheduler, BeginPass, EndPass, PeekNothing, Peek, Unresolved, Resolve,
          EnqueueReadyQueue, SchedulerInvoke, Dequeue
<1>3. ASSUME NEW d \in Devices, Issuer(d) PROVE Goal
  <2>1. CASE TakeReady(d)
    <3>1. ready[d] \in Seq(Work) /\ ready[d] # <<>>
      BY <2>1, <1>t DEF TakeReady, TypeOK
    <3>2. Head(ready[d]) \in Events /\ status[Head(ready[d])] = "submitted"
      BY <3>1, TailFacts DEF IInv, InReady
    <3>3. status' = [status EXCEPT ![Head(ready[d])] = "running"]
      BY <2>1 DEF TakeReady
    <3> QED BY <3>2, <3>3, <1>s, <1>r, <1>t, OneStatus
  <2>2. CASE \E s \in Outcomes : SetAsComplete(d, s)
    <3>1. PICK s \in Outcomes : status' = [status EXCEPT ![executing[d]] = s]
      BY <2>2 DEF SetAsComplete
    <3>2. s \in {"complete", "error"}
      BY BoundsAssumption
    <3>3. executing[d] \in Events /\ status[executing[d]] = "running"
      BY <2>2, <1>t DEF IInv, TypeOK, Held, Issuing, SetAsComplete
    <3> QED BY <3>1, <3>2, <3>3, <1>s, <1>r, <1>t, OneStatus
  <2>3. CASE RunCallbacks(d)
    <3> DEFINE w == callback[executing[d]]
    <3>1. CASE w = None
      BY <2>3, <3>1, <1>0 DEF RunCallbacks
    <3>2. CASE w # None
      <4>1. status' = [status EXCEPT ![w] = "submitted"] /\ executing[d] \in Work
        BY <2>3, <3>2, <1>t DEF RunCallbacks, IInv, TypeOK, Held
      <4>2. \A f \in Devices : executing[f] = executing[d] => issuerAt[f] # "invoke"
        BY <2>3, <4>1 DEF RunCallbacks, IInv, Held
      <4>3. w \in Events /\ status[w] = "queued"
        BY <3>2, <4>1, <4>2, <1>t DEF IInv, TypeOK, Chained
      <4> QED BY <4>1, <4>3, <1>s, <1>r, <1>t, OneStatus
    <3> QED BY <3>1, <3>2
  <2> QED BY <1>0, <1>3, <2>1, <2>2, <2>3 DEF Issuer, IssuerInvoke
<1> QED BY <1>0, <1>1, <1>2, <1>3 DEF Next, vars

(* The execution status of an event never moves back, and a complete or    *)
(* failed event never changes but for a user event set by two threads.     *)
THEOREM StatusMovesForward == Spec => StatusForward
<1>1. IInv /\ [Next]_vars => 
        [\A e \in Events : status'[e] # status[e] => StatusMoves(e)]_status
  BY StatusStep
<1> QED BY <1>1, Invariance, PTL DEF Spec, StatusForward

-----------------------------------------------------------------------------
(* Custody *)

(* Custody is not inductive: it needs to know that a command on its way    *)
(* to a device is bound to one, and where each started command is. *)
CustodyInv == Directed /\ Placed

(* Steps that start no command and hand none over.                         *)
LEMMA PlacedFrame ==
  ASSUME Placed, UNCHANGED <<ready, executing>>,
         \A c \in Work : status'[c] = "submitted" =>
           \/ status[c] = "submitted" /\ ~(schedAt = "push" /\ c = current)
           \/ schedAt' = "push" /\ c = current',
         \A c \in Work : status'[c] = "running" => status[c] = "running"
  PROVE  Placed'
  BY DEF Placed, InReadyQueue

(* Steps that put a command into a ready queue.                            *)
LEMMA PlacedAppend ==
  ASSUME TypeOK, Placed, NEW d \in Devices, NEW x \in Work,
         Len(ready[d]) < ReadySize, ready' = [ready EXCEPT ![d] = Append(@, x)],
         UNCHANGED executing,
         \A c \in Work : status'[c] = "submitted" =>
           \/ c = x
           \/ status[c] = "submitted" /\ ~(schedAt = "push" /\ c = current)
           \/ schedAt' = "push" /\ c = current',
         \A c \in Work : status'[c] = "running" => status[c] = "running"
  PROVE  Placed'
<1>t. ready \in [Devices -> Seq(Work)]
  BY DEF TypeOK
<1>1. /\ \A f \in Devices : f # d => ready'[f] = ready[f]
      /\ ready'[d] = Append(ready[d], x) /\ ready[d] \in Seq(Work)
  BY <1>t
<1>2. /\ Len(ready'[d]) = Len(ready[d]) + 1
      /\ Len(ready[d]) + 1 \in DOMAIN ready'[d] /\ ready'[d][Len(ready[d]) + 1] = x
      /\ \A i \in DOMAIN ready[d] : i \in DOMAIN ready'[d] /\ ready'[d][i] = ready[d][i]
  BY <1>1, AppendFacts
<1>3. \A f \in Devices : Len(ready'[f]) <= ReadySize
  <2>1. Len(ready[d]) \in Nat /\ ReadySize \in Nat
    BY <1>1, BoundsAssumption
  <2> QED BY <1>1, <1>2, <2>1 DEF Placed
<1>4. InReadyQueue(x)'
  BY <1>2 DEF InReadyQueue
<1>5. \A c \in Work : InReadyQueue(c) => InReadyQueue(c)'
  BY <1>1, <1>2 DEF InReadyQueue
<1> QED BY <1>3, <1>4, <1>5 DEF Placed

(* Steps that leave bound_ and the callbacks alone.                        *)
LEMMA DirectedFrame ==
  ASSUME Directed, TypeOK, UNCHANGED <<bound, callback>>,
         schedAt' \in {"resolve", "submit", "push"} =>
           schedAt \in {"resolve", "submit", "push"} /\ current' = current,
         \A k \in Clones : status'[k] = "queued" => status[k] = "queued"
  PROVE  Directed'
<1>1. \A r \in Work : callback[r] \in Clones \cup {None}
  BY DEF TypeOK
<1> QED BY <1>1 DEF Directed

(* A step that leaves all of them alone.                                   *)
LEMMA CustodyFrame ==
  ASSUME CustodyInv, TypeOK, UNCHANGED <<ready, executing, bound, callback, status, schedAt, current>>
  PROVE  CustodyInv'
<1>1. Placed'
  BY DEF CustodyInv, Placed, InReadyQueue
<1>2. Directed'
  BY DEF CustodyInv, Directed
<1> QED BY <1>1, <1>2 DEF CustodyInv

(* Nothing has been handed out at first. *)
LEMMA CustodyInitial == Init => CustodyInv
<1> SUFFICES ASSUME Init PROVE CustodyInv
  OBVIOUS
<1> USE CommandsAssumption, BoundsAssumption DEF Work, Events
<1>1. Directed
  BY DEF Init, Directed
<1>2. \A c \in Work : status[c] = "none"
  BY DEF Init
<1>3. \A d \in Devices : Len(ready[d]) <= ReadySize
  BY DEF Init
<1> QED BY <1>1, <1>2, <1>3 DEF CustodyInv, Placed

(* No step of a host thread hands a command to a device.                   *)
LEMMA CustodyHost ==
  ASSUME IInv, CustodyInv, NEW h \in Hosts, HostStep(h) \/ HostCall(h)
  PROVE  CustodyInv'
<1> USE CommandsAssumption DEF Work, Events
<1>t. TypeOK /\ Placed /\ Directed
  BY DEF IInv, CustodyInv
<1>1. ASSUME NEW q \in Queues, NEW c \in Commands, NEW W \in WaitLists,
             NEW blocking \in BOOLEAN, Enqueue(h, q, c, W, blocking)
      PROVE  CustodyInv'
  <2>a. /\ status[c] = "none" /\ status' = [status EXCEPT ![c] = "queued"]
        /\ bound' = [bound EXCEPT ![c] = device[q]]
        /\ UNCHANGED <<callback, ready, schedAt, current, executing>>
    BY <1>1 DEF Enqueue, schedVars, issuerVars
  <2>b. \A e \in Events : e # c => status'[e] = status[e]
    BY <2>a, <1>t DEF TypeOK
  <2>c. status'[c] = "queued"
    BY <2>a, <1>t DEF TypeOK
  <2>1. Placed'
    <3>1. \A x \in Work : status'[x] = "submitted" => x # c /\ status[x] = "submitted"
      BY <2>b, <2>c
    <3>2. \A x \in Work : status'[x] = "running" => status[x] = "running"
      BY <2>b, <2>c
    <3> QED BY <3>1, <3>2, <2>a, <1>t DEF Placed, InReadyQueue
  <2>2. \A x \in Work : bound'[x] = bound[x] \/ bound'[x] \in Devices
    BY <2>a, <1>t DEF TypeOK
  <2>3. \A r \in Work : callback[r] # None => callback[r] \in Clones
    BY <1>t DEF TypeOK
  <2>4. schedAt \in {"resolve", "submit", "push"} => current \in Work
    BY <1>t DEF IInv, TypeOK, Held
  <2>5. Directed'
    BY <2>a, <2>b, <2>2, <2>3, <2>4, <1>t DEF Directed
  <2> QED BY <2>1, <2>5 DEF CustodyInv
<1>2. ASSUME NEW u \in UserEvents, NEW s \in Outcomes, SetStatus(h, u, s)
      PROVE  CustodyInv'
  <2>a. /\ status' = [status EXCEPT ![u] = s]
        /\ UNCHANGED <<bound, callback, ready, schedAt, current, executing>>
    BY <1>2 DEF SetStatus, bindVars, schedVars, issuerVars
  <2>b. \A c \in Work : status'[c] = status[c]
    BY <2>a, <1>t DEF TypeOK
  <2>1. Placed'
    BY <2>a, <2>b, <1>t DEF Placed, InReadyQueue
  <2>2. Directed'
    BY <2>a, <2>b, <1>t, DirectedFrame
  <2> QED BY <2>1, <2>2 DEF CustodyInv
<1>3. ASSUME NEW e \in Commands \cup UserEvents, BeginWait(h, e) PROVE CustodyInv'
  BY <1>3, <1>t, CustodyFrame DEF BeginWait, bindVars, schedVars, issuerVars
<1>4. ASSUME EndWait(h) \/ HostInvoke(h) PROVE CustodyInv'
  BY <1>4, <1>t, CustodyFrame DEF EndWait, HostInvoke, bindVars, schedVars, issuerVars
<1>5. ASSUME NEW q \in Queues, Flush(h, q) PROVE CustodyInv'
  BY <1>5, <1>t, CustodyFrame DEF Flush, bindVars, schedVars, issuerVars
<1>6. ASSUME NEW u \in UserEvents, SetUserEventStatus(h, u) PROVE CustodyInv'
  BY <1>6, <1>t, CustodyFrame DEF SetUserEventStatus, bindVars, schedVars, issuerVars
<1>7. ASSUME Push(h) PROVE CustodyInv'
  BY <1>7, <1>t, CustodyFrame DEF Push, bindVars, schedVars, issuerVars
<1> QED BY <1>1, <1>2, <1>3, <1>4, <1>5, <1>6, <1>7 DEF HostStep, HostCall

(* The scheduler pushes the command it has submitted, and clones.          *)
LEMMA CustodyScheduler ==
  ASSUME IInv, CustodyInv, Scheduler
  PROVE  CustodyInv'
<1> USE CommandsAssumption DEF Work, Events
<1>t. /\ TypeOK /\ Placed /\ Directed
      /\ status \in [Events -> Statuses] /\ bound \in [Work -> Devices \cup {None}]
      /\ current \in Commands \cup {None}
      /\ \A r \in Work : callback[r] \in Clones \cup {None}
      /\ schedAt \in {"resolve", "submit", "push", "complete", "invoke", "dequeue"} => current \in Commands
  BY DEF IInv, CustodyInv, TypeOK, Held
<1>1. ASSUME BeginPass \/ EndPass \/ (\E q \in Queues : PeekNothing(q)) PROVE CustodyInv'
  <2>1. UNCHANGED <<status, bound, callback, ready, executing, current>>
        /\ schedAt \notin {"resolve", "submit", "push"} /\ schedAt' \notin {"resolve", "submit", "push"}
    BY <1>1 DEF BeginPass, EndPass, PeekNothing, bindVars, issuerVars
  <2>2. Placed' /\ Directed'
    BY <2>1, <1>t, PlacedFrame DEF Directed
  <2> QED BY <2>2 DEF CustodyInv
<1>2. ASSUME NEW q \in Queues, Peek(q) PROVE CustodyInv'
  <2>1. /\ UNCHANGED <<status, callback, ready, executing>>
        /\ schedAt = "scan" /\ schedAt' = "resolve"
        /\ current' = Head(pending[q]) /\ pending[q] # <<>>
        /\ bound' = [bound EXCEPT ![Head(pending[q])] = device[q]]
    BY <1>2 DEF Peek, Peekable, issuerVars
  <2>2. Head(pending[q]) \in Commands /\ device[q] \in Devices
    <3>1. pending[q] \in Seq(Commands)
      BY <1>t DEF TypeOK
    <3> QED BY <3>1, <2>1, <1>t, TailFacts DEF TypeOK
  <2>3. Placed'
    BY <2>1, <1>t, PlacedFrame
  <2>4. Directed'
    BY <2>1, <2>2, <1>t DEF Directed
  <2> QED BY <2>3, <2>4 DEF CustodyInv
<1>3. ASSUME NEW k \in Clones, NEW d \in Devices, CloneByCopy(k, d) PROVE CustodyInv'
  <2>1. /\ schedAt = "resolve" /\ status[k] = "none" /\ Len(ready[d]) < ReadySize
        /\ status' = [status EXCEPT ![k] = "submitted"]
        /\ ready' = [ready EXCEPT ![d] = Append(@, k)]
        /\ bound' = [bound EXCEPT ![k] = d]
        /\ UNCHANGED <<callback, executing, schedAt, current>>
    BY <1>3 DEF CloneByCopy, schedVars, issuerVars
  <2>2. /\ \A e \in Events : e # k => status'[e] = status[e]
        /\ status'[k] = "submitted"
    BY <2>1, <1>t
  <2>3. Placed'
    BY <2>1, <2>2, <1>t, PlacedAppend
  <2>4. Directed'
    BY <2>1, <2>2, <1>t DEF Directed
  <2> QED BY <2>3, <2>4 DEF CustodyInv
<1>4. ASSUME NEW r \in Clones, NEW w \in Clones, NEW d \in Devices, CloneByReadWrite(r, w, d)
      PROVE  CustodyInv'
  <2>1. /\ schedAt = "resolve" /\ r # w /\ status[r] = "none" /\ status[w] = "none"
        /\ Len(ready[d]) < ReadySize
        /\ status' = [status EXCEPT ![r] = "submitted", ![w] = "queued"]
        /\ callback' = [callback EXCEPT ![r] = w]
        /\ ready' = [ready EXCEPT ![d] = Append(@, r)]
        /\ bound' = [bound EXCEPT ![r] = d, ![w] = bound[current]]
        /\ UNCHANGED <<executing, schedAt, current>>
    BY <1>4 DEF CloneByReadWrite, schedVars, issuerVars
  <2>2. /\ \A e \in Events : e # r /\ e # w => status'[e] = status[e]
        /\ status'[r] = "submitted" /\ status'[w] = "queued"
    BY <2>1, <1>t
  <2>3. Placed'
    BY <2>1, <2>2, <1>t, PlacedAppend
  <2>4. bound[current] \in Devices
    BY <2>1, <1>t DEF Directed
  <2>5. /\ bound'[w] \in Devices /\ bound'[r] = d
        /\ \A x \in Work : x # r /\ x # w => bound'[x] = bound[x]
    BY <2>1, <2>4, <1>t
  <2>6. \A x \in Work : x # r => callback'[x] = callback[x]
    BY <2>1
  <2>7. callback'[r] = w
    BY <2>1, <1>t DEF TypeOK
  <2>8. Directed'
    BY <2>1, <2>2, <2>4, <2>5, <2>6, <2>7, <1>t DEF Directed
  <2> QED BY <2>3, <2>8 DEF CustodyInv
<1>5. ASSUME NEW again \in BOOLEAN, Unresolved(again) PROVE CustodyInv'
  <2>1. /\ UNCHANGED <<status, bound, callback, ready, executing>>
        /\ schedAt = "resolve" /\ schedAt' = "scan"
    BY <1>5 DEF Unresolved, issuerVars
  <2>2. Placed' /\ Directed'
    BY <2>1, <1>t, PlacedFrame, DirectedFrame
  <2> QED BY <2>2 DEF CustodyInv
<1>6. ASSUME NEW d \in Devices, NEW next \in {"submit", "complete"}, Resolve(d, next)
      PROVE  CustodyInv'
  <2>1. /\ UNCHANGED <<status, callback, ready, executing, current>>
        /\ schedAt = "resolve" /\ schedAt' = next
        /\ bound' = [bound EXCEPT ![current] = d]
    BY <1>6 DEF Resolve, issuerVars
  <2>2. Placed'
    BY <2>1, <1>t, PlacedFrame
  <2>3. Directed'
    BY <2>1, <1>t DEF Directed
  <2> QED BY <2>2, <2>3 DEF CustodyInv
<1>7. ASSUME Submit \/ CompleteAtOnce PROVE CustodyInv'
  <2>1. PICK s \in {"submitted", "complete"} :
          /\ status' = [status EXCEPT ![current] = s]
          /\ s = "submitted" => schedAt = "submit" /\ schedAt' = "push"
          /\ s = "complete" => schedAt = "complete" /\ schedAt' = "invoke"
          /\ UNCHANGED <<bound, callback, ready, executing, current>>
    BY <1>7 DEF Submit, CompleteAtOnce, bindVars, issuerVars
  <2>2. /\ current \in Commands /\ status'[current] = s
        /\ \A e \in Events : e # current => status'[e] = status[e]
    BY <2>1, <1>t
  <2>3. Placed'
    BY <2>1, <2>2, <1>t, PlacedFrame
  <2>4. Directed'
    BY <2>1, <2>2, <1>t, DirectedFrame
  <2> QED BY <2>3, <2>4 DEF CustodyInv
<1>8. ASSUME EnqueueReadyQueue PROVE CustodyInv'
  <2>1. /\ schedAt = "push" /\ schedAt' = "dequeue" /\ Len(ready[bound[current]]) < ReadySize
        /\ ready' = [ready EXCEPT ![bound[current]] = Append(@, current)]
        /\ UNCHANGED <<status, bound, callback, executing, current>>
    BY <1>8 DEF EnqueueReadyQueue, bindVars, issuerVars
  <2>2. current \in Work /\ bound[current] \in Devices
    BY <2>1, <1>t DEF Directed
  <2>3. Placed'
    BY <2>1, <2>2, <1>t, PlacedAppend
  <2>4. Directed'
    BY <2>1, <1>t, DirectedFrame
  <2> QED BY <2>3, <2>4 DEF CustodyInv
<1>9. ASSUME SchedulerInvoke PROVE CustodyInv'
  <2>1. /\ UNCHANGED <<status, callback, ready, executing, current>>
        /\ schedAt = "invoke" /\ schedAt' = "dequeue"
        /\ bound' = [bound EXCEPT ![current] = None]
    BY <1>9 DEF SchedulerInvoke, issuerVars
  <2>2. Placed'
    BY <2>1, <1>t, PlacedFrame
  <2>3. Directed'
    BY <2>1, <1>t DEF Directed
  <2> QED BY <2>2, <2>3 DEF CustodyInv
<1>10. ASSUME Dequeue PROVE CustodyInv'
  <2>1. /\ UNCHANGED <<status, bound, callback, ready, executing>>
        /\ schedAt = "dequeue" /\ schedAt' = "scan"
    BY <1>10 DEF Dequeue, bindVars, issuerVars
  <2>2. Placed' /\ Directed'
    BY <2>1, <1>t, PlacedFrame, DirectedFrame
  <2> QED BY <2>2 DEF CustodyInv
<1> QED BY <1>1, <1>2, <1>3, <1>4, <1>5, <1>6, <1>7, <1>8, <1>9, <1>10 DEF Scheduler

(* An issuer takes the head of its ready queue, and its callbacks push.    *)
LEMMA CustodyIssuer ==
  ASSUME IInv, CustodyInv, NEW d \in Devices, Issuer(d)
  PROVE  CustodyInv'
<1> USE CommandsAssumption DEF Work, Events
<1>t. /\ TypeOK /\ Placed /\ Directed /\ Held
      /\ status \in [Events -> Statuses] /\ bound \in [Work -> Devices \cup {None}]
      /\ ready \in [Devices -> Seq(Work)] /\ executing \in [Devices -> Work \cup {None}]
      /\ current \in Commands \cup {None}
      /\ \A r \in Work : callback[r] \in Clones \cup {None}
      /\ schedAt \in {"resolve", "submit", "push", "complete", "invoke", "dequeue"} => current \in Commands
      /\ issuerAt[d] # "wait" => executing[d] \in Work
  BY DEF IInv, CustodyInv, TypeOK, Held
<1>1. ASSUME TakeReady(d) PROVE CustodyInv'
  <2> DEFINE c == Head(ready[d])
  <2>1. /\ issuerAt[d] = "wait" /\ ready[d] # <<>>
        /\ executing' = [executing EXCEPT ![d] = c]
        /\ ready' = [ready EXCEPT ![d] = Tail(@)]
        /\ status' = [status EXCEPT ![c] = "running"]
        /\ UNCHANGED <<bound, callback, schedAt, current>>
    BY <1>1 DEF TakeReady, bindVars, schedVars
  <2>2. c \in Work /\ ready[d] \in Seq(Work) /\ executing[d] = None /\ status[c] = "submitted"
    BY <2>1, <1>t, TailFacts DEF Held, IInv, InReady
  <2>3. /\ \A e \in Events : e # c => status'[e] = status[e]
        /\ status'[c] = "running" /\ executing'[d] = c
        /\ \A f \in Devices : f # d => executing'[f] = executing[f] /\ ready'[f] = ready[f]
        /\ ready'[d] = Tail(ready[d])
    BY <2>1, <2>2, <1>t
  <2> HIDE DEF c
  <2>4. Len(ready'[d]) <= Len(ready[d]) /\ Len(ready[d]) \in Nat /\ Len(ready'[d]) \in Nat
    BY <2>1, <2>2, <2>3
  <2>5. \A i \in DOMAIN ready[d] : ready[d][i] # c => \E j \in DOMAIN ready'[d] : ready'[d][j] = ready[d][i]
    <3> SUFFICES ASSUME NEW i \in DOMAIN ready[d], ready[d][i] # c
                 PROVE  \E j \in DOMAIN ready'[d] : ready'[d][j] = ready[d][i]
      OBVIOUS
    <3>1. i # 1
      BY <2>1, <2>2 DEF c
    <3>2. i - 1 \in DOMAIN Tail(ready[d]) /\ Tail(ready[d])[i - 1] = ready[d][i]
      BY <3>1, <2>1, <2>2
    <3> QED BY <3>2, <2>3
  <2>6. \A x \in Work : x # c /\ InReadyQueue(x) => InReadyQueue(x)'
    <3> SUFFICES ASSUME NEW x \in Work, x # c, NEW f \in Devices, NEW i \in DOMAIN ready[f],
                        ready[f][i] = x
                 PROVE  \E g \in Devices : \E j \in DOMAIN ready'[g] : ready'[g][j] = x
      BY DEF InReadyQueue
    <3>1. CASE f = d
      BY <3>1, <2>5
    <3>2. CASE f # d
      BY <3>2, <2>3
    <3> QED BY <3>1, <3>2
  <2>7. Placed'
    <3>1. \A f \in Devices : Len(ready'[f]) <= ReadySize
      <4>1. Len(ready'[d]) <= ReadySize
        <5>1. Len(ready[d]) <= ReadySize /\ ReadySize \in Nat
          BY <1>t, BoundsAssumption DEF Placed
        <5> QED BY <5>1, <2>4
      <4> QED BY <4>1, <2>3, <1>t DEF Placed
    <3>2. \A x \in Work : status'[x] = "submitted" =>
            InReadyQueue(x)' \/ (schedAt' = "push" /\ x = current')
      BY <2>1, <2>3, <2>6, <1>t DEF Placed
    <3>3. \A x \in Work : status'[x] = "running" => \E f \in Devices : executing'[f] = x
      <4> SUFFICES ASSUME NEW x \in Work, status'[x] = "running", x # c
                   PROVE  \E f \in Devices : executing'[f] = x
        BY <2>3
      <4>1. PICK f \in Devices : executing[f] = x
        BY <2>3, <1>t DEF Placed
      <4> QED BY <4>1, <2>2, <2>3
    <3> QED BY <3>1, <3>2, <3>3 DEF Placed
  <2>8. Directed'
    BY <2>1, <2>3, <1>t, DirectedFrame
  <2> QED BY <2>7, <2>8 DEF CustodyInv
<1>2. ASSUME NEW s \in Outcomes, SetAsComplete(d, s) PROVE CustodyInv'
  <2>1. /\ issuerAt[d] = "execute" /\ status' = [status EXCEPT ![executing[d]] = s]
        /\ UNCHANGED <<bound, callback, ready, executing, schedAt, current>>
    BY <1>2 DEF SetAsComplete, bindVars, schedVars
  <2>2. s \in {"complete", "error"} /\ executing[d] \in Work /\ status[executing[d]] = "running"
    BY <2>1, <1>t, BoundsAssumption DEF IInv, Issuing
  <2>3. /\ \A e \in Events : e # executing[d] => status'[e] = status[e]
        /\ status'[executing[d]] = s
    BY <2>1, <2>2, <1>t
  <2>4. Placed'
    <3>1. \A c \in Work : status'[c] = "submitted" => status[c] = "submitted"
      BY <2>2, <2>3
    <3>2. \A c \in Work : status'[c] = "running" => status[c] = "running"
      BY <2>2, <2>3
    <3> QED BY <3>1, <3>2, <2>1, <1>t DEF Placed, InReadyQueue
  <2>5. Directed'
    BY <2>1, <2>2, <2>3, <1>t, DirectedFrame
  <2> QED BY <2>4, <2>5 DEF CustodyInv
<1>3. ASSUME RunCallbacks(d) PROVE CustodyInv'
  <2> DEFINE w == callback[executing[d]]
  <2>1. /\ issuerAt[d] = "callbacks" /\ executing[d] \in Work /\ w \in Clones \cup {None}
        /\ UNCHANGED <<bound, callback, executing, schedAt, current>>
    BY <1>3, <1>t DEF RunCallbacks, bindVars, schedVars
  <2>2. CASE w = None
    <3>1. UNCHANGED <<status, ready>>
      BY <2>2, <1>3 DEF RunCallbacks
    <3> QED BY <3>1, <2>1, <1>t, CustodyFrame DEF CustodyInv
  <2>3. CASE w # None
    <3>1. /\ Len(ready[bound[w]]) < ReadySize
          /\ status' = [status EXCEPT ![w] = "submitted"]
          /\ ready' = [ready EXCEPT ![bound[w]] = Append(@, w)]
      BY <2>3, <1>3 DEF RunCallbacks
    <3>2. \A f \in Devices : executing[f] = executing[d] => issuerAt[f] # "invoke"
      BY <2>1, <1>t DEF Held
    <3>3. status[w] = "queued"
      BY <2>1, <2>3, <3>2 DEF IInv, Chained
    <3>4. bound[w] \in Devices
      BY <2>1, <2>3, <3>3, <1>t DEF Directed
    <3>5. w \in Clones
      BY <2>1, <2>3
    <3> HIDE DEF w
    <3>6. /\ \A e \in Events : e # w => status'[e] = status[e]
          /\ status'[w] = "submitted"
      BY <3>1, <3>5, <1>t
    <3>7. w \in Work /\ \A c \in Work : c # w => status'[c] = status[c]
      BY <3>5, <3>6, <1>t
    <3>8. Placed'
      <4>1. \A c \in Work : status'[c] = "submitted" =>
              \/ c = w
              \/ status[c] = "submitted" /\ ~(schedAt = "push" /\ c = current)
              \/ schedAt' = "push" /\ c = current'
        BY <2>1, <3>7
      <4>2. \A c \in Work : status'[c] = "running" => status[c] = "running"
        BY <3>6, <3>7
      <4>3. TypeOK /\ Placed
        BY <1>t
      <4> QED BY <2>1, <3>1, <3>4, <3>7, <4>1, <4>2, <4>3, PlacedAppend
    <3>9. Directed'
      BY <2>1, <3>5, <3>6, <1>t, DirectedFrame
    <3> QED BY <3>8, <3>9 DEF CustodyInv
  <2> QED BY <2>2, <2>3
<1>4. ASSUME IssuerInvoke(d) PROVE CustodyInv'
  <2> DEFINE c == executing[d]
  <2>1. /\ issuerAt[d] = "invoke" /\ c \in Work
        /\ executing' = [executing EXCEPT ![d] = None]
        /\ bound' = [bound EXCEPT ![c] = None]
        /\ callback' = [callback EXCEPT ![c] = None]
        /\ UNCHANGED <<status, ready, schedAt, current>>
    BY <1>4, <1>t DEF IssuerInvoke, schedVars
  <2>2. status[c] \in {"complete", "error"}
    BY <2>1 DEF IInv, Issuing, IsComplete
  <2>3. \A f \in Devices : f # d => executing'[f] = executing[f]
    BY <2>1, <1>t
  <2>4. Placed'
    <3>1. \A x \in Work : status'[x] = "running" => \E f \in Devices : executing'[f] = x
      <4> SUFFICES ASSUME NEW x \in Work, status[x] = "running"
                   PROVE  \E f \in Devices : executing'[f] = x
        BY <2>1
      <4>1. PICK f \in Devices : executing[f] = x
        BY <1>t DEF Placed
      <4>2. f # d
        BY <4>1, <2>2
      <4> QED BY <4>1, <4>2, <2>3
    <3> QED BY <3>1, <2>1, <1>t DEF Placed, InReadyQueue
  <2>5. Directed'
    <3>1. schedAt \in {"resolve", "submit", "push"} =>
            status[current] \in {"queued", "submitted"} /\ current \in Work
      BY <1>t DEF IInv, InHand
    <3> HIDE DEF c
    <3>2. \A x \in Work : x # c => bound'[x] = bound[x] /\ callback'[x] = callback[x]
      BY <2>1, <1>t
    <3>3. callback'[c] = None
      BY <2>1, <1>t DEF TypeOK
    <3> QED BY <3>1, <3>2, <3>3, <2>1, <2>2, <1>t DEF Directed
  <2> QED BY <2>4, <2>5 DEF CustodyInv
<1> QED BY <1>1, <1>2, <1>3, <1>4 DEF Issuer

(* Every step preserves CustodyInv. *)
LEMMA CustodyPreserved == IInv /\ CustodyInv /\ [Next]_vars => CustodyInv'
<1> SUFFICES ASSUME IInv, CustodyInv, [Next]_vars PROVE CustodyInv'
  OBVIOUS
<1>1. CASE UNCHANGED vars
  BY <1>1, CustodyFrame DEF IInv, vars, bindVars, schedVars, issuerVars
<1> QED BY <1>1, CustodyHost, CustodyScheduler, CustodyIssuer DEF Next

(* A command has one place at most: it is in one ready queue, once, or in  *)
(* the hands of one issuer, and then no longer "submitted". *)
LEMMA CustodyFollows == IInv /\ CustodyInv => Custody
<1> SUFFICES ASSUME IInv, CustodyInv, NEW c \in Work
             PROVE  /\ Cardinality(DevicePlaces(c)) <= 1
                    /\ status[c] \in {"submitted", "running"} /\ ~(schedAt = "push" /\ c = current)
                         => DevicePlaces(c) # {}
  BY DEF Custody
<1> USE CommandsAssumption, BoundsAssumption
<1>t. /\ ready \in [Devices -> Seq(Work)] /\ Held /\ InReady /\ Issuing /\ Placed
      /\ issuerAt \in [Devices -> {"wait", "execute", "callbacks", "invoke"}]
  BY DEF IInv, TypeOK, CustodyInv
<1>1. \A p \in DevicePlaces(c) :
        \/ /\ p[1] \in Devices /\ p[2] \in DOMAIN ready[p[1]] /\ ready[p[1]][p[2]] = c
           /\ p = <<p[1], p[2]>>
        \/ p[1] \in Devices /\ p[2] = 0 /\ executing[p[1]] = c /\ p = <<p[1], p[2]>>
  <2>1. \A d \in Devices : \A i \in 1 .. ReadySize : i <= Len(ready[d]) => i \in DOMAIN ready[d]
    BY <1>t
  <2> QED BY <2>1 DEF DevicePlaces
<1>2. \A p, r \in DevicePlaces(c) : p = r
  <2>1. ASSUME NEW d \in Devices, NEW i \in DOMAIN ready[d], ready[d][i] = c
        PROVE  \A f \in Devices : executing[f] # c
    <3>1. status[c] = "submitted"
      BY <2>1, <1>t DEF InReady
    <3>2. c # None
      BY DEF Work, Events
    <3> QED BY <3>1, <3>2, <1>t DEF Held, Issuing, IsComplete
  <2>2. ASSUME NEW d \in Devices, NEW f \in Devices, executing[d] = c, executing[f] = c PROVE d = f
    BY <2>2, <1>t DEF Held, Work, Events
  <2>3. ASSUME NEW d \in Devices, NEW f \in Devices, NEW i \in DOMAIN ready[d], NEW j \in DOMAIN ready[f],
               ready[d][i] = c, ready[f][j] = c
        PROVE  d = f /\ i = j
    BY <2>3, <1>t DEF InReady
  <2> QED BY <1>1, <2>1, <2>2, <2>3
<1>3. Cardinality(DevicePlaces(c)) <= 1
  <2>1. CASE DevicePlaces(c) = {}
    BY <2>1, FS_EmptySet
  <2>2. CASE DevicePlaces(c) # {}
    <3>1. PICK p \in DevicePlaces(c) : TRUE
      BY <2>2
    <3>2. DevicePlaces(c) = {p}
      BY <3>1, <1>2
    <3>3. Cardinality({p}) = 1
      BY FS_Singleton
    <3> QED BY <3>2, <3>3
  <2> QED BY <2>1, <2>2
<1>4. ASSUME status[c] \in {"submitted", "running"}, ~(schedAt = "push" /\ c = current)
      PROVE  DevicePlaces(c) # {}
  <2>1. CASE status[c] = "submitted"
    <3>1. PICK d \in Devices : \E i \in DOMAIN ready[d] : ready[d][i] = c
      BY <2>1, <1>4, <1>t DEF Placed, InReadyQueue
    <3>2. PICK i \in DOMAIN ready[d] : ready[d][i] = c
      BY <3>1
    <3>3. ready[d] \in Seq(Work) /\ Len(ready[d]) <= ReadySize
      BY <1>t DEF Placed
    <3>4. i \in 1 .. ReadySize /\ i <= Len(ready[d])
      BY <3>2, <3>3
    <3>5. <<d, i>> \in DevicePlaces(c)
      BY <3>2, <3>4 DEF DevicePlaces
    <3> QED BY <3>5
  <2>2. CASE status[c] = "running"
    <3>1. PICK d \in Devices : executing[d] = c
      BY <2>2, <1>t DEF Placed
    <3>2. <<d, 0>> \in DevicePlaces(c)
      BY <3>1 DEF DevicePlaces
    <3> QED BY <3>2
  <2> QED BY <2>1, <2>2, <1>4
<1> QED BY <1>3, <1>4

(* No command is lost between the scheduler, the ready queues and the      *)
(* issuers, and none is handed out twice, with clones submitted by other   *)
(* issuers' callbacks, whatever the sizes of the ready queues.             *)
THEOREM KeptInCustody == Spec => []Custody
<1>1. Spec => []CustodyInv
  BY CustodyInitial, CustodyPreserved, Invariance, PTL DEF Spec
<1> QED BY <1>1, CustodyFollows, Invariance, PTL

-----------------------------------------------------------------------------
(* CommandPipeline implements CommandOrder: each step of a thread is one   *)
(* step of the serial queues, or none.                                     *)

Visible == Commands \cup UserEvents

(* What a step that changes the status of one visible event does to the    *)
(* phases.                                                                 *)
LEMMA OnePhase ==
  ASSUME NEW e \in Visible, NEW p, PhaseOf(status'[e]) = p,
         \A f \in Visible : f # e => status'[f] = status[f]
  PROVE  [f \in Visible |-> PhaseOf(status'[f])] =
           [[f \in Visible |-> PhaseOf(status[f])] EXCEPT ![e] = p]
  OBVIOUS

LEMMA Phases ==
  /\ PhaseOf("none") = "new" /\ PhaseOf("queued") = "issued"
  /\ PhaseOf("submitted") = "active" /\ PhaseOf("running") = "active"
  /\ PhaseOf("complete") = "done" /\ PhaseOf("error") = "done"
  BY DEF PhaseOf

LEMMA DoneIsComplete ==
  ASSUME TypeOK, NEW e \in Visible
  PROVE  /\ IsComplete(e) <=> PhaseOf(status[e]) = "done"
         /\ status[e] = "none" <=> PhaseOf(status[e]) = "new"
<1>1. status[e] \in {"none", "queued", "submitted", "running", "complete", "error"}
  BY DEF TypeOK, Statuses, Visible, Events, Work
<1> QED BY <1>1, Phases DEF IsComplete

(* The initial states are initial states of CommandOrder. *)
LEMMA OrderInitial == Init => Order!Init
<1> SUFFICES ASSUME Init PROVE Order!Init
  OBVIOUS
<1>1. \A e \in Visible : PhaseOf(status[e]) = IF e \in UserEvents THEN "active" ELSE "new"
  BY Phases, CommandsAssumption DEF Init, Visible, Events, Work
<1>2. \A c \in Commands : queueOf[c] = None /\ ticket[c] = 0 /\ deps[c] = {}
  BY DEF Init, Work
<1> QED BY <1>1, <1>2 DEF Order!Init, Init, Visible

(* A step that changes neither the status of a visible event nor what was  *)
(* enqueued is no step of CommandOrder. *)
LEMMA Stutters ==
  ASSUME UNCHANGED <<queueOf, ticket, issued, deps>>,
         \A e \in Visible : PhaseOf(status'[e]) = PhaseOf(status[e])
  PROVE  UNCHANGED Order!absVars
  BY DEF Order!absVars, Visible

(* Enqueue() issues a command. *)
LEMMA EnqueueIssues ==
  ASSUME IInv, NEW h \in Hosts, NEW q \in Queues, NEW c \in Commands, NEW W \in WaitLists,
         NEW blocking \in BOOLEAN, Enqueue(h, q, c, W, blocking)
  PROVE  Order!Next
<1> USE DEF Visible
<1>t. TypeOK
  BY DEF IInv
<1>a. /\ status[c] = "none"
      /\ status' = [status EXCEPT ![c] = "queued"]
      /\ queueOf' = [queueOf EXCEPT ![c] = q]
      /\ deps' = [deps EXCEPT ![c] = W]
      /\ issued' = [issued EXCEPT ![q] = @ + 1]
      /\ ticket' = [ticket EXCEPT ![c] = issued[q] + 1]
  BY DEF Enqueue
<1>b. W \subseteq Visible /\ \A e \in W : status[e] # "none"
  BY DEF WaitLists, Known
<1>1. c \in Visible /\ status'[c] = "queued" /\ \A f \in Visible : f # c => status'[f] = status[f]
  BY <1>a, <1>t DEF TypeOK, Events, Work
<1>2. [f \in Visible |-> PhaseOf(status'[f])] =
        [[f \in Visible |-> PhaseOf(status[f])] EXCEPT ![c] = "issued"]
  BY <1>1, OnePhase, Phases
<1>3. PhaseOf(status[c]) = "new" /\ \A e \in W : PhaseOf(status[e]) # "new"
  BY <1>a, <1>b, <1>t, DoneIsComplete
<1>4. /\ [x \in Commands |-> queueOf'[x]] = [[x \in Commands |-> queueOf[x]] EXCEPT ![c] = q]
      /\ [x \in Commands |-> ticket'[x]] = [[x \in Commands |-> ticket[x]] EXCEPT ![c] = issued[q] + 1]
      /\ [x \in Commands |-> deps'[x]] = [[x \in Commands |-> deps[x]] EXCEPT ![c] = W]
  BY <1>a, <1>t DEF TypeOK, Work
<1>5. Order!Issue(c, q, W)
  BY <1>a, <1>b, <1>2, <1>3, <1>4 DEF Order!Issue
<1> QED BY <1>5, <1>b DEF Order!Next

(* Submit() and the completion of a read of no bytes start a command. *)
LEMMA StepStarts ==
  ASSUME IInv, Submit \/ CompleteAtOnce
  PROVE  Order!Next
<1> USE DEF Visible
<1>t. TypeOK
  BY DEF IInv
<1>a. /\ current \in Commands /\ queueOf[current] # None
      /\ status[current] = "queued" /\ waits[current] = {}
      /\ UNCHANGED <<queueOf, deps, ticket, issued>>
  BY CommandsAssumption DEF IInv, TypeOK, Held, InHand, Submit, CompleteAtOnce, commandVars,
     queueVars
<1>b. PICK s \in {"submitted", "complete"} : status' = [status EXCEPT ![current] = s]
  BY DEF Submit, CompleteAtOnce
<1>c. PICK p \in {"active", "done"} : PhaseOf(s) = p
  BY Phases
<1>1. /\ current \in Visible /\ status'[current] = s
      /\ \A f \in Visible : f # current => status'[f] = status[f]
  BY <1>a, <1>b, <1>t DEF TypeOK, Events, Work
<1>2. [f \in Visible |-> PhaseOf(status'[f])] =
        [[f \in Visible |-> PhaseOf(status[f])] EXCEPT ![current] = p]
  BY <1>1, <1>c, OnePhase
<1>3. /\ \A e \in deps[current] : e \in Visible /\ PhaseOf(status[e]) = "done"
      /\ \A b \in Commands :
           queueOf[b] = queueOf[current] /\ ticket[b] < ticket[current] =>
             PhaseOf(status[b]) = "done"
  <2>1. deps[current] \subseteq Visible
    BY <1>a, <1>t DEF TypeOK, Work
  <2> QED BY <2>1, <1>a, <1>t, EarlierComplete, DoneIsComplete
<1>4. PhaseOf(status[current]) = "issued"
  BY <1>a, Phases
<1>5. Order!Start(current, p)
  BY <1>a, <1>2, <1>3, <1>4 DEF Order!Start, Order!Earlier
<1> QED BY <1>5, <1>a DEF Order!Next

(* A visible event that completes finishes. *)
LEMMA StepFinishes ==
  ASSUME TypeOK, NEW e \in Visible, NEW s \in {"complete", "error"},
         status[e] \in {"submitted", "running"}, status' = [status EXCEPT ![e] = s],
         UNCHANGED <<queueOf, ticket, issued, deps>>
  PROVE  Order!Next
<1> USE DEF Visible
<1>1. status'[e] = s /\ \A f \in Visible : f # e => status'[f] = status[f]
  BY DEF TypeOK, Events, Work
<1>2. [f \in Visible |-> PhaseOf(status'[f])] =
        [[f \in Visible |-> PhaseOf(status[f])] EXCEPT ![e] = "done"]
  BY <1>1, OnePhase, Phases
<1>3. PhaseOf(status[e]) = "active"
  BY Phases
<1>4. Order!Finish(e)
  BY <1>2, <1>3 DEF Order!Finish
<1> QED BY <1>4 DEF Order!Next

(* A step that leaves the visible statuses in their phase is a stutter. *)
LEMMA StepStutters ==
  ASSUME TypeOK, NEW e \in Events, NEW s, status' = [status EXCEPT ![e] = s],
         e \in Visible => PhaseOf(s) = PhaseOf(status[e]),
         UNCHANGED <<queueOf, ticket, issued, deps>>
  PROVE  UNCHANGED Order!absVars
<1>1. \A f \in Visible : f \in Events
  BY DEF Visible, Events, Work
<1>2. \A f \in Visible : PhaseOf(status'[f]) = PhaseOf(status[f])
  BY <1>1 DEF TypeOK
<1> QED BY <1>2, Stutters

(* A user event is submitted from its creation on. *)
UserSubmitted == \A u \in UserEvents : Rank(status[u]) >= 2

LEMMA UserInitial == Init => UserSubmitted
  BY DEF Init, UserSubmitted, Events, Rank

LEMMA UserPreserved ==
  ASSUME IInv, UserSubmitted, [Next]_vars
  PROVE  UserSubmitted'
<1> SUFFICES ASSUME NEW u \in UserEvents PROVE Rank(status'[u]) >= 2
  BY DEF UserSubmitted
<1>1. u \in Events /\ Rank(status[u]) >= 2
  BY DEF UserSubmitted, Events
<1>2. status'[u] # status[u] => Rank(status[u]) < Rank(status'[u]) \/ Rank(status'[u]) = 4
  BY <1>1, StatusStep DEF StatusMoves
<1>3. Rank(status[u]) \in Nat /\ Rank(status'[u]) \in Nat
  BY DEF Rank
<1> QED BY <1>1, <1>2, <1>3

(* A clone is not visible. *)
LEMMA CloneInvisible == \A k \in Clones : k \in Events /\ k \notin Visible
  BY CommandsAssumption DEF Visible, Events, Work

(* Every step of a host thread is a step of CommandOrder or a stutter. *)
LEMMA HostOrderStep ==
  ASSUME IInv, UserSubmitted, NEW h \in Hosts, HostStep(h) \/ HostCall(h)
  PROVE  [Order!Next]_Order!absVars
<1> DEFINE Goal == Order!Next \/ UNCHANGED Order!absVars
<1> USE DEF commandVars, queueVars
<1>t. TypeOK
  BY DEF IInv
<1>0. UNCHANGED <<status, queueOf, ticket, issued, deps>> => Goal
  BY Stutters
<1>1. ASSUME NEW q \in Queues, NEW c \in Commands, NEW W \in WaitLists, NEW blocking \in BOOLEAN,
             Enqueue(h, q, c, W, blocking)
      PROVE  Goal
  BY <1>1, EnqueueIssues
<1>2. ASSUME NEW u \in UserEvents, NEW s \in Outcomes, SetStatus(h, u, s) PROVE Goal
  <2>1. /\ u \in Visible /\ u \in Events /\ s \in {"complete", "error"}
        /\ status' = [status EXCEPT ![u] = s]
        /\ UNCHANGED <<queueOf, ticket, issued, deps>>
    BY <1>2, BoundsAssumption DEF SetStatus, Visible, Events
  <2>2. status[u] \in {"submitted", "running", "complete", "error"}
    <3>1. status[u] \in {"none", "queued", "submitted", "running", "complete", "error"}
      BY <2>1, <1>t DEF TypeOK, Statuses
    <3>2. Rank(status[u]) >= 2
      BY DEF UserSubmitted
    <3> QED BY <3>1, <3>2 DEF Rank
  <2>3. CASE status[u] \in {"submitted", "running"}
    BY <2>1, <2>3, <1>t, StepFinishes
  <2>4. CASE status[u] \in {"complete", "error"}
    <3>1. PhaseOf(s) = PhaseOf(status[u])
      BY <2>1, <2>4, Phases
    <3> QED BY <2>1, <3>1, <1>t, StepStutters
  <2> QED BY <2>2, <2>3, <2>4
<1>3. CASE UNCHANGED <<status, queueOf, ticket, issued, deps>>
  BY <1>3, <1>0
<1>4. \/ \E q \in Queues, c \in Commands, W \in WaitLists, blocking \in BOOLEAN :
           Enqueue(h, q, c, W, blocking)
      \/ \E u \in UserEvents, s \in Outcomes : SetStatus(h, u, s)
      \/ UNCHANGED <<status, queueOf, ticket, issued, deps>>
  BY DEF HostStep, HostCall, Push, BeginWait, EndWait, SetUserEventStatus, HostInvoke, Flush
<1> QED BY <1>1, <1>2, <1>3, <1>4

(* Every step of the scheduler is a step of CommandOrder or a stutter. *)
LEMMA SchedulerOrderStep ==
  ASSUME IInv, Scheduler
  PROVE  [Order!Next]_Order!absVars
<1> DEFINE Goal == Order!Next \/ UNCHANGED Order!absVars
<1> USE DEF commandVars, queueVars
<1>t. TypeOK
  BY DEF IInv
<1>1. CASE \E k \in Clones, d \in Devices : CloneByCopy(k, d)
  <2>1. PICK k \in Clones :
          /\ status' = [status EXCEPT ![k] = "submitted"]
          /\ UNCHANGED <<queueOf, ticket, issued, deps>>
    BY <1>1 DEF CloneByCopy
  <2> QED BY <2>1, <1>t, CloneInvisible, StepStutters
<1>2. CASE \E r, w \in Clones, d \in Devices : CloneByReadWrite(r, w, d)
  <2>1. PICK r \in Clones, w \in Clones :
          /\ status' = [status EXCEPT ![r] = "submitted", ![w] = "queued"]
          /\ UNCHANGED <<queueOf, ticket, issued, deps>>
    BY <1>2 DEF CloneByReadWrite
  <2>2. \A e \in Visible : e \in Events /\ e # r /\ e # w
    BY CloneInvisible DEF Visible, Events, Work
  <2>3. \A e \in Visible : PhaseOf(status'[e]) = PhaseOf(status[e])
    BY <2>1, <2>2, <1>t DEF TypeOK
  <2> QED BY <2>1, <2>3, Stutters
<1>3. CASE Submit \/ CompleteAtOnce
  BY <1>3, StepStarts
<1>4. CASE UNCHANGED <<status, queueOf, ticket, issued, deps>>
  BY <1>4, Stutters
<1>5. \/ \E k \in Clones, d \in Devices : CloneByCopy(k, d)
      \/ \E r, w \in Clones, d \in Devices : CloneByReadWrite(r, w, d)
      \/ Submit \/ CompleteAtOnce
      \/ UNCHANGED <<status, queueOf, ticket, issued, deps>>
  BY DEF Scheduler, BeginPass, EndPass, PeekNothing, Peek, Unresolved, Resolve,
         EnqueueReadyQueue, SchedulerInvoke, Dequeue
<1> QED BY <1>1, <1>2, <1>3, <1>4, <1>5

(* Every step of an issuer is a step of CommandOrder or a stutter. *)
LEMMA IssuerOrderStep ==
  ASSUME IInv, NEW d \in Devices, Issuer(d)
  PROVE  [Order!Next]_Order!absVars
<1> DEFINE Goal == Order!Next \/ UNCHANGED Order!absVars
<1> USE DEF commandVars, queueVars
<1>t. TypeOK
  BY DEF IInv
<1>1. CASE TakeReady(d)
  <2>1. ready[d] \in Seq(Work) /\ ready[d] # <<>>
    BY <1>1, <1>t DEF TakeReady, TypeOK
  <2>2. Head(ready[d]) \in Events /\ status[Head(ready[d])] = "submitted"
    BY <2>1, TailFacts DEF IInv, InReady, Events
  <2>3. /\ status' = [status EXCEPT ![Head(ready[d])] = "running"]
        /\ UNCHANGED <<queueOf, ticket, issued, deps>>
    BY <1>1 DEF TakeReady
  <2> QED BY <2>2, <2>3, <1>t, Phases, StepStutters
<1>2. CASE \E s \in Outcomes : SetAsComplete(d, s)
  <2>1. PICK s \in Outcomes :
          /\ status' = [status EXCEPT ![executing[d]] = s]
          /\ UNCHANGED <<queueOf, ticket, issued, deps>>
    BY <1>2 DEF SetAsComplete
  <2>2. s \in {"complete", "error"}
    BY BoundsAssumption
  <2>3. executing[d] \in Work /\ status[executing[d]] = "running"
    BY <1>2, <1>t DEF IInv, TypeOK, Held, Issuing, SetAsComplete
  <2>4. CASE executing[d] \in Clones
    BY <2>1, <2>4, <1>t, CloneInvisible, StepStutters
  <2>5. CASE executing[d] \in Visible
    BY <2>1, <2>2, <2>3, <2>5, <1>t, StepFinishes
  <2> QED BY <2>3, <2>4, <2>5 DEF Work, Visible
<1>3. CASE RunCallbacks(d)
  <2> DEFINE w == callback[executing[d]]
  <2>1. CASE w = None
    BY <1>3, <2>1, Stutters DEF RunCallbacks
  <2>2. CASE w # None
    <3>1. /\ status' = [status EXCEPT ![w] = "submitted"]
          /\ executing[d] \in Work
          /\ UNCHANGED <<queueOf, ticket, issued, deps>>
      BY <1>3, <2>2, <1>t DEF RunCallbacks, IInv, TypeOK, Held
    <3>2. w \in Clones
      BY <2>2, <3>1, <1>t DEF TypeOK
    <3> QED BY <3>1, <3>2, <1>t, CloneInvisible, StepStutters
  <2> QED BY <2>1, <2>2
<1>4. CASE UNCHANGED <<status, queueOf, ticket, issued, deps>>
  BY <1>4, Stutters
<1>5. \/ TakeReady(d) \/ (\E s \in Outcomes : SetAsComplete(d, s)) \/ RunCallbacks(d)
      \/ UNCHANGED <<status, queueOf, ticket, issued, deps>>
  BY DEF Issuer, IssuerInvoke
<1> QED BY <1>1, <1>2, <1>3, <1>4, <1>5

LEMMA OrderStep ==
  ASSUME IInv, UserSubmitted, [Next]_vars
  PROVE  [Order!Next]_Order!absVars
<1>1. CASE UNCHANGED vars
  BY <1>1, Stutters DEF vars, commandVars, queueVars
<1> QED BY <1>1, HostOrderStep, SchedulerOrderStep, IssuerOrderStep DEF Next

(* Seen through the status of its events, the runtime behaves as the       *)
(* serial queues of CommandOrder: whatever the threads interleave, and     *)
(* wherever Progress() moves a queue, an application sees its commands     *)
(* start in the order it enqueued them.                                    *)
THEOREM Refinement == Spec => ImplementsOrder
<1>1. Init => UserSubmitted
  BY UserInitial
<1>2. IInv /\ UserSubmitted /\ [Next]_vars => UserSubmitted'
  BY UserPreserved
<1>3. IInv /\ UserSubmitted /\ [Next]_vars => [Order!Next]_Order!absVars
  BY OrderStep
<1> QED BY <1>1, <1>2, <1>3, OrderInitial, Invariance, PTL DEF Spec, ImplementsOrder, Order!Spec

-----------------------------------------------------------------------------
(* No missed wake-up: every step that gives a queue a command to submit    *)
(* posts the semaphore, is made by a thread that is going to post it, or   *)
(* happens in a pass that is still to visit the queue. *)

WakeInv == Followed /\ Visited /\ FlushedAreQueued /\ EnqueuedHaveQueues

(* What is on its way to post the semaphore goes on or has posted it; only *)
(* the beginning of a pass takes a post away. *)
LEMMA BusyStays ==
  ASSUME TypeOK, Busy, [Next]_vars, ~BeginPass
  PROVE  Busy'
<1>t. /\ posts \in Nat /\ ready \in [Devices -> Seq(Work)]
      /\ issuerAt \in [Devices -> {"wait", "execute", "callbacks", "invoke"}]
      /\ hostAt \in [Hosts -> HostPlaces]
  BY DEF TypeOK
<1>1. ASSUME posts' > 0 PROVE Busy'
  BY <1>1 DEF Busy
<1>2. ASSUME NEW d \in Devices, issuerAt'[d] # "wait" \/ ready'[d] # <<>> PROVE Busy'
  BY <1>2 DEF Busy
<1>3. ASSUME NEW h \in Hosts, hostAt'[h] = "invoke" PROVE Busy'
  BY <1>3 DEF Busy
<1>4. posts' = posts \/ posts' = posts + 1
  <2>1. ASSUME NEW h \in Hosts, HostStep(h) \/ HostCall(h)
        PROVE  posts' = posts \/ posts' = posts + 1
    BY <2>1 DEF HostStep, HostCall, Enqueue, Push, Flush, FlushQueue, BeginWait, EndWait,
                SetUserEventStatus, SetStatus, HostInvoke, InvokeScheduler
  <2>2. ASSUME Scheduler
        PROVE  posts' = posts \/ posts' = posts + 1
    BY <2>2 DEF Scheduler, EndPass, PeekNothing, Peek, CloneByCopy, CloneByReadWrite, Unresolved,
                Resolve, Submit, EnqueueReadyQueue, CompleteAtOnce, SchedulerInvoke, Dequeue,
                InvokeScheduler
  <2>3. ASSUME NEW d \in Devices, Issuer(d)
        PROVE  posts' = posts \/ posts' = posts + 1
    BY <2>3 DEF Issuer, TakeReady, SetAsComplete, RunCallbacks, IssuerInvoke, InvokeScheduler
  <2>4. CASE UNCHANGED vars
    BY <2>4 DEF vars
  <2> QED BY <2>1, <2>2, <2>3, <2>4 DEF Next
<1>5. ASSUME posts > 0 PROVE Busy'
  BY <1>1, <1>4, <1>5, <1>t
<1>6. ASSUME posts' = posts + 1 PROVE Busy'
  BY <1>1, <1>6, <1>t
<1>7. ASSUME NEW d \in Devices, issuerAt[d] # "wait" PROVE Busy'
  <2>1. CASE issuerAt'[d] = issuerAt[d]
    BY <2>1, <1>2, <1>7
  <2>2. ASSUME NEW f \in Devices, Issuer(f) PROVE Busy'
    <3>1. issuerAt'[f] # "wait" \/ posts' = posts + 1
      BY <2>2, <1>t DEF Issuer, TakeReady, SetAsComplete, RunCallbacks, IssuerInvoke, InvokeScheduler
    <3> QED BY <3>1, <1>2, <1>6
  <2>3. (\A f \in Devices : ~Issuer(f)) => issuerAt' = issuerAt
    BY DEF Next, HostStep, HostCall, Scheduler, vars, issuerVars, Enqueue, Push, Flush, BeginWait,
           EndWait, SetUserEventStatus, SetStatus, HostInvoke, EndPass, PeekNothing, Peek,
           CloneByCopy, CloneByReadWrite, Unresolved, Resolve, Submit, EnqueueReadyQueue,
           CompleteAtOnce, SchedulerInvoke, Dequeue
  <2> QED BY <2>1, <2>2, <2>3
<1>8. ASSUME NEW d \in Devices, ready[d] # <<>> PROVE Busy'
  <2>1. CASE ready'[d] = ready[d]
    BY <2>1, <1>2, <1>8
  <2>2. ASSUME NEW f \in Devices, TakeReady(f) PROVE Busy'
    <3>1. issuerAt'[f] = "execute"
      BY <2>2, <1>t DEF TakeReady
    <3> QED BY <3>1, <1>2
  <2>3. ASSUME NEW f, NEW x \in Work, ready' = [ready EXCEPT ![f] = Append(@, x)] PROVE Busy'
    <3>1. ready[d] \in Seq(Work)
      BY <1>t
    <3>2. ready'[d] # <<>>
      BY <2>3, <3>1, <1>t, <1>8, AppendFacts
    <3> QED BY <3>2, <1>2
  <2>4. ASSUME NEW f \in Devices, RunCallbacks(f) PROVE Busy'
    <3>1. issuerAt'[f] = "invoke"
      BY <2>4, <1>t DEF RunCallbacks
    <3> QED BY <3>1, <1>2
  <2>5. ASSUME EnqueueReadyQueue PROVE Busy'
    <3>1. ready'[d] # <<>>
      <4>1. /\ ready[d] \in Seq(Work)
            /\ ready'[d] = ready[d] \/ ready'[d] = Append(ready[d], current)
        BY <2>5, <1>t DEF EnqueueReadyQueue
      <4> QED BY <4>1, <1>8
    <3> QED BY <3>1, <1>2
  <2>6. \/ UNCHANGED ready
        \/ \E f \in Devices : TakeReady(f) \/ RunCallbacks(f)
        \/ EnqueueReadyQueue
        \/ \E f \in Devices, x \in Clones : ready' = [ready EXCEPT ![f] = Append(@, x)]
    BY DEF Next, HostStep, HostCall, Scheduler, Issuer, vars, Enqueue, Push, Flush, BeginWait,
           EndWait, SetUserEventStatus, SetStatus, HostInvoke, EndPass, PeekNothing, Peek,
           CloneByCopy, CloneByReadWrite, Unresolved, Resolve, Submit,
           CompleteAtOnce, SchedulerInvoke, Dequeue, SetAsComplete, IssuerInvoke
  <2> QED BY <2>1, <2>2, <2>3, <2>4, <2>5, <2>6 DEF Work
<1>9. ASSUME NEW h \in Hosts, hostAt[h] = "invoke" PROVE Busy'
  <2>1. CASE hostAt'[h] = hostAt[h]
    BY <2>1, <1>3, <1>9
  <2>2. CASE HostInvoke(h)
    BY <2>2, <1>6 DEF HostInvoke, InvokeScheduler
  <2>3. ASSUME NEW g \in Hosts, g # h, HostStep(g) \/ HostCall(g) PROVE hostAt'[h] = hostAt[h]
    BY <2>3, <1>t DEF HostStep, HostCall, hostVars, Enqueue, Push, Pushing, Flush, BeginWait,
           EndWait, SetUserEventStatus, SetStatus, HostInvoke
  <2>4. HostStep(h) \/ HostCall(h) => HostInvoke(h) \/ UNCHANGED hostAt
    BY <1>9 DEF HostStep, HostCall, hostVars, Enqueue, Push, Pushing, Flush, BeginWait,
           EndWait, SetUserEventStatus, SetStatus
  <2>5. Scheduler \/ (\E d \in Devices : Issuer(d)) \/ UNCHANGED vars => UNCHANGED hostAt
    BY DEF Scheduler, Issuer, vars, hostVars, EndPass, PeekNothing, Peek,
           CloneByCopy, CloneByReadWrite, Unresolved, Resolve, Submit, EnqueueReadyQueue,
           CompleteAtOnce, SchedulerInvoke, Dequeue, TakeReady, SetAsComplete, RunCallbacks,
           IssuerInvoke
  <2> QED BY <2>1, <2>2, <2>3, <2>4, <2>5 DEF Next
<1> QED BY <1>5, <1>7, <1>8, <1>9 DEF Busy

(* A step after which a post is there or on its way.                       *)
LEMMA WakeBusy ==
  ASSUME Busy', FlushedAreQueued', EnqueuedHaveQueues'
  PROVE  WakeInv'
  BY DEF WakeInv, Followed, Visited

(* A step that gives no queue a command to peek, leaves none behind, and   *)
(* does not enter the places Followed is about. *)
LEMMA WakeFrame ==
  ASSUME WakeInv, FlushedAreQueued', EnqueuedHaveQueues', Busy => Busy',
         schedAt' = "dequeue" => schedAt = "dequeue" \/ Busy',
         schedAt' = "resolve" => (schedAt = "resolve" /\ UNCHANGED <<waits, current>>)
                                   \/ waits'[current'] = {},
         schedAt = "invoke" => schedAt' = "invoke",
         schedAt # "wait" => schedAt' # "wait",
         \A q \in Queues :
           /\ q \in todo => q \in todo' \/ ~Peekable(q)'
           /\ Peekable(q)' /\ Head(pending'[q]) \in flushed' =>
                Peekable(q) /\ Head(pending[q]) \in flushed
  PROVE  WakeInv'
<1>1. Followed'
  BY DEF WakeInv, Followed
<1>2. Visited'
  BY DEF WakeInv, Visited
<1> QED BY <1>1, <1>2 DEF WakeInv

(* A command that has been enqueued keeps its queue. *)
LEMMA QueuesStay ==
  ASSUME IInv, EnqueuedHaveQueues, [Next]_vars
  PROVE  EnqueuedHaveQueues'
<1> USE CommandsAssumption DEF Events, Work
<1>t. /\ status \in [Events -> Statuses] /\ queueOf \in [Work -> Queues \cup {None}]
      /\ blockedOn \in [Hosts -> Commands \cup UserEvents \cup {None}]
      /\ executing \in [Devices -> Work \cup {None}]
      /\ issuerAt \in [Devices -> {"wait", "execute", "callbacks", "invoke"}]
      /\ ready \in [Devices -> Seq(Work)] /\ current \in Commands \cup {None}
      /\ callback \in [Work -> Clones \cup {None}]
      /\ Held /\ InReady /\ Issuing /\ InHand
  BY DEF IInv, TypeOK
<1>n. \A c \in Commands : c \notin Clones /\ c \notin UserEvents /\ c # None
  OBVIOUS
<1>1. ASSUME NEW h \in Hosts, NEW q \in Queues, NEW c \in Commands, NEW W,
             NEW blocking \in BOOLEAN, Enqueue(h, q, c, W, blocking)
      PROVE  EnqueuedHaveQueues'
  <2>1. /\ status' = [status EXCEPT ![c] = "queued"] /\ queueOf' = [queueOf EXCEPT ![c] = q]
        /\ blockedOn' = [blockedOn EXCEPT ![h] = c]
        /\ q # None
    BY <1>1 DEF Enqueue
  <2> QED BY <2>1, <1>t DEF EnqueuedHaveQueues
<1>2. ASSUME UNCHANGED queueOf,
             \A c \in Commands : status'[c] # "none" => status[c] # "none",
             \A h \in Hosts : blockedOn'[h] \in Commands =>
               blockedOn'[h] = blockedOn[h] \/ status[blockedOn'[h]] # "none"
      PROVE  EnqueuedHaveQueues'
  BY <1>2 DEF EnqueuedHaveQueues
<1>3. ASSUME UNCHANGED <<status, queueOf>>, NEW h \in Hosts, NEW e \in Events \cup {None},
             blockedOn' = [blockedOn EXCEPT ![h] = e],
             e \in Commands => status[e] # "none" \/ blockedOn[h] = e
      PROVE  EnqueuedHaveQueues'
  BY <1>3, <1>2, <1>t
<1>4. ASSUME NEW h \in Hosts, HostStep(h) \/ HostCall(h) PROVE EnqueuedHaveQueues'
  <2>1. ASSUME NEW e \in Commands \cup UserEvents, BeginWait(h, e) PROVE EnqueuedHaveQueues'
    <3>1. /\ UNCHANGED <<status, queueOf>>
          /\ \/ blockedOn' = [blockedOn EXCEPT ![h] = None]
             \/ blockedOn' = [blockedOn EXCEPT ![h] = e]
          /\ status[e] # "none" \/ blockedOn[h] = e
      BY <2>1 DEF BeginWait, Known, commandVars
    <3> QED BY <3>1, <1>3
  <2>2. ASSUME EndWait(h) PROVE EnqueuedHaveQueues'
    <3>1. UNCHANGED <<status, queueOf>> /\ blockedOn' = [blockedOn EXCEPT ![h] = None]
      BY <2>2 DEF EndWait, commandVars
    <3> QED BY <3>1, <1>3
  <2>3. ASSUME NEW u \in UserEvents, NEW s \in Outcomes, SetStatus(h, u, s)
        PROVE  EnqueuedHaveQueues'
    <3>1. /\ status' = [status EXCEPT ![u] = s] /\ UNCHANGED queueOf
          /\ blockedOn' = [blockedOn EXCEPT ![h] = None]
      BY <2>3 DEF SetStatus, commandVars
    <3>2. \A c \in Commands : status'[c] = status[c]
      BY <3>1, <1>t, <1>n
    <3>3. \A g \in Hosts : blockedOn'[g] \in Commands => blockedOn'[g] = blockedOn[g]
      BY <3>1, <1>t, <1>n
    <3> QED BY <3>1, <3>2, <3>3, <1>2
  <2>4. ASSUME NEW u \in UserEvents, SetUserEventStatus(h, u) PROVE EnqueuedHaveQueues'
    <3>1. UNCHANGED <<status, queueOf>> /\ blockedOn' = [blockedOn EXCEPT ![h] = u]
      BY <2>4 DEF SetUserEventStatus, commandVars
    <3> QED BY <3>1, <1>3, <1>n
  <2>5. ASSUME HostInvoke(h) \/ (\E q \in Queues : Flush(h, q)) PROVE EnqueuedHaveQueues'
    <3>1. UNCHANGED <<status, queueOf, blockedOn>>
      BY <2>5 DEF HostInvoke, Flush, commandVars, hostVars
    <3> QED BY <3>1, <1>2
  <2>6. ASSUME Push(h) PROVE EnqueuedHaveQueues'
    <3>1. /\ UNCHANGED <<status, queueOf>>
          /\ blockedOn' = blockedOn \/ blockedOn' = [blockedOn EXCEPT ![h] = None]
      BY <2>6 DEF Push, commandVars
    <3> QED BY <3>1, <1>2, <1>3
  <2> QED BY <1>4, <1>1, <2>1, <2>2, <2>3, <2>4, <2>5, <2>6 DEF HostStep, HostCall
<1>5. ASSUME UNCHANGED <<queueOf, blockedOn>>,
             \A c \in Commands : status'[c] # status[c] => status[c] # "none"
      PROVE  EnqueuedHaveQueues'
  BY <1>5, <1>2
<1>6. ASSUME Scheduler PROVE EnqueuedHaveQueues'
  <2>1. UNCHANGED <<queueOf, blockedOn>>
    BY <1>6 DEF Scheduler, commandVars, hostVars, BeginPass, EndPass, PeekNothing, Peek,
           CloneByCopy, CloneByReadWrite, Unresolved, Resolve, Submit, EnqueueReadyQueue,
           CompleteAtOnce, SchedulerInvoke, Dequeue
  <2>2. ASSUME NEW d \in Devices, NEW k \in Clones, CloneByCopy(k, d)
        PROVE  \A c \in Commands : status'[c] = status[c]
    BY <2>2, <1>t, <1>n DEF CloneByCopy
  <2>3. ASSUME NEW d \in Devices, NEW r \in Clones, NEW w \in Clones, CloneByReadWrite(r, w, d)
        PROVE  \A c \in Commands : status'[c] = status[c]
    BY <2>3, <1>t, <1>n DEF CloneByReadWrite
  <2>4. ASSUME Submit \/ CompleteAtOnce
        PROVE  \A c \in Commands : status'[c] # status[c] => status[c] # "none"
    <3>1. status[current] = "queued"
      BY <2>4, <1>t DEF Submit, CompleteAtOnce, InHand
    <3>2. \A c \in Commands : c # current => status'[c] = status[c]
      BY <2>4, <1>t DEF Submit, CompleteAtOnce
    <3> QED BY <3>1, <3>2
  <2>5. \/ UNCHANGED status \/ Submit \/ CompleteAtOnce
        \/ \E d \in Devices : \/ \E k \in Clones : CloneByCopy(k, d)
                               \/ \E r, w \in Clones : CloneByReadWrite(r, w, d)
    BY <1>6 DEF Scheduler, BeginPass, EndPass, PeekNothing, Peek, Unresolved, Resolve,
           EnqueueReadyQueue, SchedulerInvoke, Dequeue
  <2> QED BY <2>1, <2>2, <2>3, <2>4, <2>5, <1>5
<1>7. ASSUME NEW d \in Devices, Issuer(d) PROVE EnqueuedHaveQueues'
  <2>1. UNCHANGED <<queueOf, blockedOn>>
    BY <1>7 DEF Issuer, commandVars, hostVars, TakeReady, SetAsComplete, RunCallbacks, IssuerInvoke
  <2>2. ASSUME TakeReady(d) PROVE \A c \in Commands : status'[c] # status[c] => status[c] # "none"
    <3>1. ready[d] \in Seq(Work) /\ ready[d] # <<>>
      BY <2>2, <1>t DEF TakeReady
    <3>2. 1 \in DOMAIN ready[d] /\ Head(ready[d]) = ready[d][1]
      BY <3>1
    <3>3. status[Head(ready[d])] = "submitted"
      BY <3>2, <1>t DEF InReady
    <3>4. \A c \in Commands : c # Head(ready[d]) => status'[c] = status[c]
      BY <2>2, <1>t DEF TakeReady
    <3> QED BY <3>3, <3>4
  <2>3. ASSUME NEW s \in Outcomes, SetAsComplete(d, s)
        PROVE  \A c \in Commands : status'[c] # status[c] => status[c] # "none"
    <3>1. status[executing[d]] = "running"
      BY <2>3, <1>t DEF SetAsComplete, Issuing
    <3>2. \A c \in Commands : c # executing[d] => status'[c] = status[c]
      BY <2>3, <1>t DEF SetAsComplete
    <3> QED BY <3>1, <3>2
  <2>4. ASSUME RunCallbacks(d) PROVE \A c \in Commands : status'[c] = status[c]
    <3>1. executing[d] \in Work
      BY <2>4, <1>t DEF RunCallbacks, Held
    <3>2. callback[executing[d]] \in Clones \cup {None}
      BY <3>1, <1>t
    <3> QED BY <2>4, <3>2, <1>t, <1>n DEF RunCallbacks
  <2>5. IssuerInvoke(d) => UNCHANGED status
    BY DEF IssuerInvoke
  <2> QED BY <1>7, <2>1, <2>2, <2>3, <2>4, <2>5, <1>5 DEF Issuer
<1>8. UNCHANGED vars => EnqueuedHaveQueues'
  BY <1>2 DEF vars, commandVars, hostVars
<1> QED BY <1>4, <1>6, <1>7, <1>8 DEF Next

(* Nothing is queued at first. *)
LEMMA WakeInitial == Init => WakeInv
<1> SUFFICES ASSUME Init PROVE WakeInv
  OBVIOUS
<1>1. \A c \in Commands : status[c] = "none"
  BY CommandsAssumption DEF Init, Events, Work
<1>2. EnqueuedHaveQueues
  BY <1>1, CommandsAssumption DEF Init, EnqueuedHaveQueues, Events, Work
<1>3. \A q \in Queues : ~Peekable(q)
  BY DEF Init, Peekable
<1>4. Followed /\ Visited /\ FlushedAreQueued
  BY <1>3 DEF Init, Followed, Visited, FlushedAreQueued, Pushing
<1> QED BY <1>2, <1>4 DEF WakeInv

(* No new command can be peeked where heads and their waits are the same   *)
(* and no event completes. *)
LEMMA PeekFrame ==
  ASSUME TypeOK, NEW q \in Queues, pending'[q] = pending[q],
         pending[q] # <<>> => waits[Head(pending[q])] \subseteq waits'[Head(pending[q])],
         \A e \in Events : IsComplete(e)' => IsComplete(e),
         Peekable(q)'
  PROVE  Peekable(q)
<1>1. pending[q] \in Seq(Commands) /\ pending[q] # <<>>
  BY DEF TypeOK, Peekable
<1>2. Head(pending[q]) \in Work
  BY <1>1, TailFacts DEF Work
<1>3. waits[Head(pending[q])] \subseteq Events
  BY <1>2 DEF TypeOK
<1> QED BY <1>1, <1>3 DEF Peekable, IsExecutable

(* An append behind a queue's head gives the scheduler nothing to do, and  *)
(* an append to an empty queue nothing that has been flushed; a flush and  *)
(* the completion of a user event post. *)
LEMMA WakeHost ==
  ASSUME IInv, WakeInv, EnqueuedHaveQueues', NEW h \in Hosts, HostStep(h) \/ HostCall(h)
  PROVE  WakeInv'
<1> USE CommandsAssumption DEF Events, Work
<1>t. /\ TypeOK /\ posts \in Nat /\ FlushedAreQueued /\ EnqueuedHaveQueues /\ Rings
      /\ status \in [Events -> Statuses] /\ queueOf \in [Work -> Queues \cup {None}]
      /\ pending \in [Queues -> Seq(Commands)] /\ waits \in [Work -> SUBSET Events]
      /\ hostAt \in [Hosts -> HostPlaces]
      /\ blockedOn \in [Hosts -> Commands \cup UserEvents \cup {None}]
      /\ flushed \subseteq Commands /\ AtRing
  BY DEF IInv, TypeOK, WakeInv
<1>b. Busy => Busy'
  <2>1. Next /\ ~BeginPass
    <3>1. Next
      BY DEF Next
    <3>2. BeginPass => UNCHANGED hostVars /\ posts' = posts - 1
      BY DEF BeginPass
    <3>3. posts' = posts \/ posts' = posts + 1
      BY DEF HostStep, HostCall, Enqueue, Push, Flush, FlushQueue, BeginWait, EndWait,
             SetUserEventStatus, SetStatus, HostInvoke, InvokeScheduler
    <3> QED BY <3>1, <3>2, <3>3, <1>t
  <2> QED BY <2>1, <1>t, BusyStays
<1>f. ASSUME UNCHANGED <<queueOf, flushed>>,
             \A g \in Hosts : Pushing(g)' => Pushing(g) /\ blockedOn'[g] = blockedOn[g]
      PROVE  FlushedAreQueued'
  BY <1>f, <1>t DEF FlushedAreQueued
<1>1. ASSUME NEW q \in Queues, NEW c \in Commands, NEW W \in WaitLists,
             NEW blocking \in BOOLEAN, Enqueue(h, q, c, W, blocking)
      PROVE  WakeInv'
  <2>a. /\ status[c] = "none" /\ status' = [status EXCEPT ![c] = "queued"]
        /\ waits' = [waits EXCEPT ![c] = WaitEvents(q, W)]
        /\ queueOf' = [queueOf EXCEPT ![c] = q]
        /\ UNCHANGED <<pending, flushed, posts, schedAt, todo, current>>
        /\ \A g \in Hosts : blockedOn'[g] = IF g = h THEN c ELSE blockedOn[g]
        /\ \A g \in Hosts : g # h => hostAt'[g] = hostAt[g]
    BY <1>1, <1>t DEF Enqueue, schedVars
  <2>b. \A e \in Events : e # c => status'[e] = status[e]
    BY <2>a, <1>t
  <2>c. status'[c] = "queued" /\ queueOf[c] = None
    BY <2>a, <1>t DEF Rings
  <2>2. c \notin flushed
    BY <2>c, <1>t DEF FlushedAreQueued
  <2>1. FlushedAreQueued'
    <3>1. \A x \in flushed : queueOf'[x] # None
      BY <2>a, <1>t DEF FlushedAreQueued
    <3>2. \A g \in Hosts : Pushing(g)' => blockedOn'[g] \notin flushed
      BY <2>a, <2>2, <1>t DEF FlushedAreQueued, Pushing
    <3> QED BY <3>1, <3>2, <2>a DEF FlushedAreQueued
  <2>3. \A e \in Events : IsComplete(e)' => IsComplete(e)
    BY <2>b, <2>c DEF IsComplete
  <2>4. ASSUME NEW p \in Queues, Peekable(p)' PROVE Peekable(p)
    <3>1. pending[p] \in Seq(Commands) /\ pending[p] # <<>>
      BY <2>4, <2>a, <1>t DEF Peekable
    <3>2. Head(pending[p]) \in Commands /\ queueOf[Head(pending[p])] = p
      BY <3>1, <1>t, TailFacts DEF Rings
    <3>3. waits'[Head(pending[p])] = waits[Head(pending[p])]
      BY <3>2, <2>c, <2>a, <1>t
    <3> QED BY <3>3, <2>3, <2>4, <2>a, <1>t, PeekFrame
  <2>5. schedAt = "resolve" => current # None /\ current # c
    BY <2>c, <1>t DEF IInv, Held
  <2>6. Followed'
    <3>1. schedAt = "resolve" => waits'[current] = waits[current]
      <4>1. current \in Commands \cup {None}
        BY <1>t DEF TypeOK
      <4> QED BY <4>1, <2>5, <2>a, <1>t
    <3> QED BY <3>1, <2>a, <1>b DEF WakeInv, Followed
  <2>7. Visited'
    BY <2>4, <2>a, <1>b DEF WakeInv, Visited
  <2> QED BY <2>1, <2>6, <2>7 DEF WakeInv
<1>1a. ASSUME Push(h) PROVE WakeInv'
  <2> DEFINE c == blockedOn[h]
             q == queueOf[c]
  <2>a. /\ pending' = [pending EXCEPT ![q] = Append(@, c)]
        /\ UNCHANGED <<status, waits, queueOf, flushed, posts, schedAt, todo, current>>
    BY <1>1a DEF Push, schedVars, commandVars
  <2>b. c \in Commands /\ q \in Queues /\ c \notin flushed
    BY <1>1a, <1>t DEF Push, AtRing, FlushedAreQueued
  <2>1. FlushedAreQueued'
    <3>1. /\ hostAt' = [hostAt EXCEPT ![h] = "blocking"] \/ hostAt' = [hostAt EXCEPT ![h] = "idle"]
          /\ blockedOn' = blockedOn \/ blockedOn' = [blockedOn EXCEPT ![h] = None]
      BY <1>1a DEF Push
    <3>2. \A g \in Hosts : Pushing(g)' => Pushing(g) /\ blockedOn'[g] = blockedOn[g]
      BY <3>1, <1>t DEF Pushing
    <3> QED BY <3>2, <2>a, <1>f
  <2> HIDE DEF c, q
  <2>4. ASSUME NEW p \in Queues, Peekable(p)', Head(pending'[p]) \in flushed'
        PROVE  Peekable(p) /\ Head(pending[p]) \in flushed
    <3>1. pending[p] \in Seq(Commands)
      BY <1>t
    <3>2. p # q => pending'[p] = pending[p]
      BY <2>a, <1>t
    <3>3. p = q => pending'[p] = Append(pending[p], c)
      BY <2>a, <1>t
    <3>4. pending[p] # <<>>
      <4>1. CASE p = q /\ pending[p] = <<>>
        <5>1. Head(pending'[p]) = c
          BY <4>1, <3>3
        <5> QED BY <5>1, <2>b, <2>4, <2>a
      <4> QED BY <4>1, <3>2, <2>4 DEF Peekable
    <3>5. Head(pending'[p]) = Head(pending[p])
      <4>1. CASE p = q
        BY <4>1, <2>b, <3>1, <3>3, <3>4, AppendFacts
      <4> QED BY <4>1, <3>2
    <3>6. Peekable(p)
      BY <3>4, <3>5, <2>4, <2>a DEF Peekable, IsExecutable, IsComplete
    <3> QED BY <3>5, <3>6, <2>4, <2>a
  <2>6. Followed'
    BY <2>a, <1>b DEF WakeInv, Followed
  <2>7. Visited'
    BY <2>4, <2>a, <1>b DEF WakeInv, Visited
  <2> QED BY <2>1, <2>6, <2>7 DEF WakeInv
<1>2. ASSUME NEW q \in Queues, FlushQueue(q), UNCHANGED queueOf,
             \A g \in Hosts : Pushing(g)' => Pushing(g) /\ blockedOn'[g] = blockedOn[g]
      PROVE  WakeInv'
  <2>1. posts' = posts + 1 /\ flushed' = flushed \cup InRing(q)
    BY <1>2 DEF FlushQueue, InvokeScheduler
  <2>2. Busy'
    BY <2>1, <1>t DEF Busy
  <2>3. \A x \in InRing(q) : queueOf[x] = q
    BY <1>t DEF InRing, Rings
  <2>4. \A g \in Hosts : Pushing(g) => blockedOn[g] \notin flushed /\ blockedOn[g] \notin InRing(q)
    BY <2>3, <1>t DEF FlushedAreQueued, AtRing
  <2>5. \A x \in flushed' : queueOf[x] # None
    BY <2>1, <2>3, <1>t DEF FlushedAreQueued
  <2>6. FlushedAreQueued'
    BY <2>1, <2>4, <2>5, <1>2 DEF FlushedAreQueued
  <2> QED BY <2>2, <2>6, WakeBusy
<1>3. ASSUME UNCHANGED <<status, waits, queueOf, pending, flushed, schedVars>>,
             \A g \in Hosts : Pushing(g)' => Pushing(g) /\ blockedOn'[g] = blockedOn[g]
      PROVE  WakeInv'
  <2>1. FlushedAreQueued'
    BY <1>3, <1>f
  <2>2. \A q \in Queues : Peekable(q)' => Peekable(q)
    BY <1>3 DEF Peekable, IsExecutable, IsComplete
  <2> QED BY <2>1, <2>2, <1>3, <1>b DEF WakeInv, Followed, Visited, schedVars
<1>4. ASSUME NEW u \in UserEvents, NEW s \in Outcomes, SetStatus(h, u, s) PROVE WakeInv'
  <2>1. hostAt'[h] = "invoke" /\ UNCHANGED <<queueOf, flushed>>
    BY <1>4, <1>t DEF SetStatus, commandVars, queueVars
  <2>2. Busy'
    BY <2>1 DEF Busy
  <2>3. \A g \in Hosts : Pushing(g)' => Pushing(g) /\ blockedOn'[g] = blockedOn[g]
    BY <1>4, <1>t DEF SetStatus, Pushing
  <2> QED BY <2>1, <2>2, <2>3, <1>f, WakeBusy
<1>5. ASSUME NEW e \in Commands \cup UserEvents, BeginWait(h, e) PROVE WakeInv'
  <2>1. UNCHANGED <<status, waits, queueOf, pending, schedVars>>
    BY <1>5 DEF BeginWait, commandVars
  <2>2. UNCHANGED flushed \/ (e \in Commands /\ FlushQueue(queueOf[e]))
    BY <1>5 DEF BeginWait
  <2>p. \A g \in Hosts : Pushing(g)' => Pushing(g) /\ blockedOn'[g] = blockedOn[g]
    BY <1>5, <1>t DEF BeginWait, Pushing
  <2>3. CASE UNCHANGED flushed
    BY <2>1, <2>p, <2>3, <1>3
  <2>4. CASE e \in Commands /\ FlushQueue(queueOf[e])
    <3>1. CASE queueOf[e] \in Queues
      BY <3>1, <2>1, <2>p, <2>4, <1>2
    <3>2. CASE queueOf[e] = None
      <4>1. status[e] # "none" \/ blockedOn[h] = e
        BY <1>5 DEF BeginWait, Known
      <4> QED BY <4>1, <3>2, <2>4, <1>t DEF EnqueuedHaveQueues
    <3> QED BY <3>1, <3>2, <2>4, <1>t
  <2> QED BY <2>2, <2>3, <2>4
<1>6. ASSUME EndWait(h) \/ HostInvoke(h) PROVE WakeInv'
  <2>1. \A g \in Hosts : Pushing(g)' => Pushing(g) /\ blockedOn'[g] = blockedOn[g]
    BY <1>6, <1>t DEF EndWait, HostInvoke, Pushing
  <2> QED BY <1>6, <2>1, <1>3 DEF EndWait, HostInvoke, commandVars, queueVars
<1>7. ASSUME NEW q \in Queues, Flush(h, q) PROVE WakeInv'
  <2>1. \A g \in Hosts : Pushing(g)' => Pushing(g) /\ blockedOn'[g] = blockedOn[g]
    BY <1>7 DEF Flush, Pushing, hostVars
  <2> QED BY <1>7, <2>1, <1>2 DEF Flush, commandVars
<1>8. ASSUME NEW u \in UserEvents, SetUserEventStatus(h, u) PROVE WakeInv'
  <2>1. \A g \in Hosts : Pushing(g)' => Pushing(g) /\ blockedOn'[g] = blockedOn[g]
    BY <1>8, <1>t DEF SetUserEventStatus, Pushing
  <2> QED BY <1>8, <2>1, <1>3 DEF SetUserEventStatus, commandVars, queueVars
<1> QED BY <1>1, <1>1a, <1>4, <1>5, <1>6, <1>7, <1>8 DEF HostStep, HostCall

(* A pass skips a queue only when it cannot be peeked, or after it has     *)
(* given work to a device, whose issuer is going to post. *)
LEMMA WakeScheduler ==
  ASSUME IInv, Directed, WakeInv, EnqueuedHaveQueues', Scheduler
  PROVE  WakeInv'
<1> USE CommandsAssumption DEF Events, Work
<1>t. /\ TypeOK /\ posts \in Nat /\ FlushedAreQueued /\ Rings /\ Held /\ InHand /\ Followed
      /\ status \in [Events -> Statuses] /\ queueOf \in [Work -> Queues \cup {None}]
      /\ pending \in [Queues -> Seq(Commands)] /\ waits \in [Work -> SUBSET Events]
      /\ ready \in [Devices -> Seq(Work)] /\ current \in Commands \cup {None}
      /\ todo \subseteq Queues /\ bound \in [Work -> Devices \cup {None}]
  BY DEF IInv, TypeOK, WakeInv
<1>f. FlushedAreQueued'
  <2>1. UNCHANGED <<queueOf, flushed, hostAt, blockedOn>>
    BY DEF Scheduler, commandVars, queueVars, hostVars, BeginPass, EndPass, PeekNothing, Peek,
           CloneByCopy, CloneByReadWrite, Unresolved, Resolve, Submit, EnqueueReadyQueue,
           CompleteAtOnce, SchedulerInvoke, Dequeue
  <2> QED BY <2>1, <1>t DEF FlushedAreQueued, Pushing
<1>b. Busy /\ ~BeginPass => Busy'
  <2>1. Next
    BY DEF Next
  <2> QED BY <2>1, <1>t, BusyStays
<1>c. Busy' => WakeInv'
  BY <1>f, WakeBusy
<1>1. ASSUME BeginPass PROVE WakeInv'
  BY <1>1, <1>f DEF BeginPass, WakeInv, Followed, Visited
<1>2. ASSUME EndPass PROVE WakeInv'
  <2>1. \A q \in Queues : Peekable(q)' /\ Head(pending'[q]) \in flushed' =>
                            Peekable(q) /\ Head(pending[q]) \in flushed
    BY <1>2 DEF EndPass, queueVars, Peekable, IsExecutable, IsComplete
  <2>2. ~BeginPass /\ schedAt = "scan" /\ todo = {} /\ schedAt' = "wait"
    BY <1>2 DEF EndPass, BeginPass
  <2> QED BY <2>1, <2>2, <1>b, <1>f DEF WakeInv, Followed, Visited
<1>3. ASSUME NEW q \in Queues, PeekNothing(q) PROVE WakeInv'
  <2>1. \A p \in Queues : Peekable(p)' <=> Peekable(p)
    BY <1>3 DEF PeekNothing, queueVars, Peekable, IsExecutable, IsComplete
  <2>2. /\ ~Peekable(q) /\ todo' = todo \ {q} /\ UNCHANGED <<pending, flushed, schedAt>>
        /\ schedAt = "scan"
    BY <1>3 DEF PeekNothing, queueVars
  <2>3. ~BeginPass
    BY <1>3 DEF PeekNothing, BeginPass
  <2> QED BY <2>1, <2>2, <2>3, <1>b, <1>f, WakeFrame
<1>4. ASSUME NEW q \in Queues, Peek(q) PROVE WakeInv'
  <2>1. /\ schedAt = "scan" /\ q \in todo /\ Peekable(q) /\ schedAt' = "resolve"
        /\ waits' = [waits EXCEPT ![Head(pending[q])] = {}] /\ current' = Head(pending[q])
        /\ UNCHANGED <<status, pending, flushed, todo>>
    BY <1>4 DEF Peek, queueVars
  <2>2. ~BeginPass
    BY <2>1 DEF BeginPass
  <2>3. pending[q] \in Seq(Commands) /\ pending[q] # <<>>
    BY <2>1, <1>t DEF Peekable
  <2>4. Head(pending[q]) \in Commands /\ queueOf[Head(pending[q])] = q
    BY <2>3, <1>t, TailFacts DEF Rings
  <2>5. waits'[current'] = {}
    BY <2>1, <2>4, <1>t
  <2>6. ASSUME NEW p \in Queues, Peekable(p)' PROVE Peekable(p)
    <3>1. CASE p = q
      BY <3>1, <2>1
    <3>2. CASE p # q
      <4>1. pending[p] \in Seq(Commands) /\ pending[p] # <<>>
        BY <2>6, <2>1, <1>t DEF Peekable
      <4>2. Head(pending[p]) \in Commands /\ queueOf[Head(pending[p])] = p
        BY <4>1, <1>t, TailFacts DEF Rings
      <4>3. waits'[Head(pending[p])] = waits[Head(pending[p])]
        BY <4>2, <2>4, <3>2, <2>1, <1>t
      <4>4. \A e \in Events : IsComplete(e)' => IsComplete(e)
        BY <2>1 DEF IsComplete
      <4> QED BY <4>3, <4>4, <2>1, <2>6, <1>t, PeekFrame
    <3> QED BY <3>1, <3>2
  <2> QED BY <2>1, <2>2, <2>5, <2>6, <1>b, <1>f, WakeFrame
<1>5. ASSUME NEW d \in Devices, NEW k \in Clones, CloneByCopy(k, d) PROVE WakeInv'
  <2>1. ready'[d] # <<>>
    BY <1>5, <1>t, AppendFacts DEF CloneByCopy
  <2>2. Busy'
    BY <2>1 DEF Busy
  <2> QED BY <2>2, <1>c
<1>6. ASSUME NEW d \in Devices, NEW r \in Clones, NEW w \in Clones, CloneByReadWrite(r, w, d)
      PROVE  WakeInv'
  <2>1. ready' = [ready EXCEPT ![d] = Append(@, r)] /\ r \in Work /\ ready[d] \in Seq(Work)
    BY <1>6, <1>t DEF CloneByReadWrite
  <2>3. ready'[d] = Append(ready[d], r)
    BY <2>1, <1>t
  <2>4. ready'[d] # <<>>
    BY <2>1, <2>3, AppendFacts
  <2>2. Busy'
    BY <2>4 DEF Busy
  <2> QED BY <2>2, <1>c
<1>7. ASSUME NEW d \in Devices, NEW next \in {"submit", "complete"}, Resolve(d, next)
      PROVE  WakeInv'
  <2>1. /\ schedAt = "resolve" /\ schedAt' \in {"submit", "complete"}
        /\ UNCHANGED <<status, waits, pending, flushed, todo>>
    BY <1>7 DEF Resolve, queueVars
  <2>2. ~BeginPass
    BY <2>1 DEF BeginPass
  <2>3. \A p \in Queues : Peekable(p)' => Peekable(p)
    BY <2>1 DEF Peekable, IsExecutable, IsComplete
  <2> QED BY <2>1, <2>2, <2>3, <1>b, <1>f, WakeFrame
<1>8. ASSUME NEW again \in BOOLEAN, Unresolved(again) PROVE WakeInv'
  <2>1. schedAt = "resolve" /\ waits[current] # {}
    BY <1>8 DEF Unresolved
  <2>2. Busy /\ ~BeginPass
    BY <2>1, <1>t DEF Followed, BeginPass
  <2> QED BY <2>2, <1>b, <1>c
<1>9. ASSUME Submit PROVE WakeInv'
  <2>1. /\ schedAt = "submit" /\ schedAt' = "push"
        /\ status' = [status EXCEPT ![current] = "submitted"]
        /\ UNCHANGED <<waits, pending, flushed, todo>>
    BY <1>9 DEF Submit, queueVars
  <2>2. ~BeginPass
    BY <2>1 DEF BeginPass
  <2>3. \A e \in Events : IsComplete(e)' => IsComplete(e)
    BY <2>1, <1>t DEF IsComplete
  <2>4. \A p \in Queues : Peekable(p)' => Peekable(p)
    BY <2>1, <2>3, <1>t, PeekFrame
  <2> QED BY <2>1, <2>2, <2>4, <1>b, <1>f, WakeFrame
<1>10. ASSUME EnqueueReadyQueue PROVE WakeInv'
  <2>1. current \in Commands
    BY <1>10, <1>t DEF EnqueueReadyQueue, Held
  <2>2. bound[current] \in Devices
    BY <1>10 DEF EnqueueReadyQueue, Directed
  <2>3. ready[bound[current]] \in Seq(Work) /\ current \in Work
    BY <2>1, <2>2, <1>t
  <2>4. ready'[bound[current]] = Append(ready[bound[current]], current)
    BY <1>10, <2>2, <1>t DEF EnqueueReadyQueue
  <2>5. ready'[bound[current]] # <<>>
    BY <2>3, <2>4, AppendFacts
  <2>6. Busy'
    BY <2>5, <2>2 DEF Busy
  <2> QED BY <2>6, <1>c
<1>11. ASSUME CompleteAtOnce PROVE WakeInv'
  BY <1>11, <1>f DEF CompleteAtOnce, WakeInv, Followed, Visited
<1>12. ASSUME SchedulerInvoke PROVE WakeInv'
  <2>1. posts' = posts + 1
    BY <1>12 DEF SchedulerInvoke, InvokeScheduler
  <2>2. Busy'
    BY <2>1, <1>t DEF Busy
  <2> QED BY <2>2, <1>c
<1>13. ASSUME Dequeue PROVE WakeInv'
  <2>1. Busy /\ ~BeginPass
    BY <1>13, <1>t DEF Dequeue, Followed, BeginPass
  <2> QED BY <2>1, <1>b, <1>c
<1> QED BY <1>1, <1>2, <1>3, <1>4, <1>5, <1>6, <1>7, <1>8, <1>9, <1>10, <1>11, <1>12, <1>13
        DEF Scheduler

(* An issuer that is not waiting is going to post. *)
LEMMA WakeIssuer ==
  ASSUME IInv, WakeInv, EnqueuedHaveQueues', NEW d \in Devices, Issuer(d)
  PROVE  WakeInv'
<1>t. /\ posts \in Nat /\ FlushedAreQueued
      /\ issuerAt \in [Devices -> {"wait", "execute", "callbacks", "invoke"}]
  BY DEF IInv, TypeOK, WakeInv
<1>1. FlushedAreQueued'
  <2>1. UNCHANGED <<queueOf, flushed, hostAt, blockedOn>>
    BY DEF Issuer, commandVars, queueVars, hostVars, TakeReady, SetAsComplete, RunCallbacks, IssuerInvoke
  <2> QED BY <2>1, <1>t DEF FlushedAreQueued, Pushing
<1>2. issuerAt'[d] # "wait" \/ posts' = posts + 1
  BY <1>t DEF Issuer, TakeReady, SetAsComplete, RunCallbacks, IssuerInvoke, InvokeScheduler
<1>3. Busy'
  BY <1>2, <1>t DEF Busy
<1> QED BY <1>1, <1>3, WakeBusy

(* Every step preserves WakeInv. *)
LEMMA WakePreserved ==
  ASSUME IInv, CustodyInv, WakeInv, [Next]_vars
  PROVE  WakeInv'
<1>1. EnqueuedHaveQueues'
  BY QueuesStay DEF WakeInv
<1>2. ASSUME UNCHANGED vars PROVE WakeInv'
  BY <1>2 DEF vars, commandVars, queueVars, schedVars, issuerVars, hostVars, WakeInv, Followed,
       Visited, FlushedAreQueued, Pushing, EnqueuedHaveQueues, Busy, Peekable, IsExecutable, IsComplete
<1> QED BY <1>1, <1>2, WakeHost, WakeScheduler, WakeIssuer DEF Next, CustodyInv

(* When nothing is going to wake the scheduler, no queue is left. *)
LEMMA WakeFollows == WakeInv => NoLostWakeup
  BY DEF WakeInv, Visited, NoLostWakeup, Asleep, Busy

(* No wake-up is lost: the scheduler never sleeps over a flushed command   *)
(* that could be submitted, whatever the threads do meanwhile.             *)
THEOREM NeverOversleeps == Spec => []NoLostWakeup
<1>1. Spec => []IInv
  BY Invariance
<1>2. IInv /\ CustodyInv /\ [Next]_vars => CustodyInv'
  BY CustodyPreserved
<1>3. IInv /\ CustodyInv /\ WakeInv /\ [Next]_vars => WakeInv'
  BY WakePreserved
<1> QED BY <1>1, <1>2, <1>3, CustodyInitial, WakeInitial, WakeFollows, PTL DEF Spec

=============================================================================
