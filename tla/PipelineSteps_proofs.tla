------------------------ MODULE PipelineSteps_proofs ------------------------
(***************************************************************************)
(* Facts about sequences; the proof that every step of CommandPipeline     *)
(* keeps TypeOK; and that every step that changes what the parts of IInv   *)
(* are about keeps them: one lemma per action, one step of its proof per   *)
(* part.  TypeOK alone is not inductive: that the scheduler and the        *)
(* issuers hold a command when they work on one is Held.                   *)
(***************************************************************************)
EXTENDS CommandPipelineInv, TLAPS

(* Appending to a sequence keeps its elements, and its head. *)
LEMMA AppendFacts ==
  ASSUME NEW S, NEW s \in Seq(S), NEW x \in S
  PROVE  /\ Append(s, x) \in Seq(S)
         /\ Append(s, x) # <<>>
         /\ DOMAIN s = 1 .. Len(s)
         /\ Len(s) \in Nat
         /\ DOMAIN Append(s, x) = 1 .. Len(s) + 1
         /\ \A i \in DOMAIN s : Append(s, x)[i] = s[i]
         /\ Append(s, x)[Len(s) + 1] = x
         /\ s # <<>> => Head(Append(s, x)) = Head(s)
<1>1. /\ Append(s, x) \in Seq(S)
      /\ DOMAIN s = 1 .. Len(s)
      /\ Len(s) \in Nat
      /\ Len(Append(s, x)) = Len(s) + 1
      /\ \A i \in 1 .. Len(s) : Append(s, x)[i] = s[i]
      /\ Append(s, x)[Len(s) + 1] = x
  OBVIOUS
<1>2. DOMAIN Append(s, x) = 1 .. Len(s) + 1
  BY <1>1
<1>3. Append(s, x) # <<>>
  BY <1>1
<1>4. s # <<>> => Head(Append(s, x)) = Head(s)
  BY <1>1, <1>3
<1> QED BY <1>1, <1>2, <1>3, <1>4

(* Taking the head off a sequence shifts the others by one. *)
LEMMA TailFacts ==
  ASSUME NEW S, NEW s \in Seq(S), s # <<>>
  PROVE  /\ Tail(s) \in Seq(S)
         /\ Head(s) \in S
         /\ 1 \in DOMAIN s /\ s[1] = Head(s)
         /\ \A i \in DOMAIN Tail(s) : i + 1 \in DOMAIN s /\ i + 1 # 1 /\ Tail(s)[i] = s[i + 1]
         /\ \A i, j \in DOMAIN Tail(s) : i + 1 = j + 1 => i = j
  OBVIOUS

(* The initial values are of their types. *)
LEMMA TypeInitial == Init => TypeOK
  BY CommandsAssumption DEF Init, TypeOK, Statuses, Events, Work, HostPlaces

(* Every step keeps the types, one step of the proof per action and per    *)
(* variable that the action changes.                                       *)
LEMMA TypePreserved == TypeOK /\ AtRing /\ Held /\ [Next]_vars => TypeOK'
<1> SUFFICES ASSUME TypeOK, AtRing, Held, [Next]_vars PROVE TypeOK'
  OBVIOUS
<1> USE CommandsAssumption, BoundsAssumption DEF InvokeScheduler, WaitEvents
<1>1. CASE Next
  <2>1. ASSUME NEW h \in Hosts, NEW q \in Queues, NEW c \in Commands, NEW W \in WaitLists,
              NEW blocking \in BOOLEAN, Enqueue(h, q, c, W, blocking)
        PROVE  TypeOK'
    <3>1. status' \in [Events -> Statuses]
      BY <2>1 DEF TypeOK, Enqueue, Statuses, Events, Work
    <3>2. waits' \in [Work -> SUBSET Events]
      BY <2>1 DEF TypeOK, Enqueue, Events, Work, WaitLists
    <3>3. last' \in [Queues -> Commands \cup {None}]
      BY <2>1 DEF TypeOK, Enqueue
    <3>5. queueOf' \in [Work -> Queues \cup {None}]
      BY <2>1 DEF TypeOK, Enqueue
    <3>6. bound' \in [Work -> Devices \cup {None}]
      BY <2>1 DEF TypeOK, Enqueue, Work
    <3>7. deps' \in [Work -> SUBSET (Commands \cup UserEvents)]
      BY <2>1 DEF TypeOK, Enqueue, WaitLists
    <3>8. issued' \in [Queues -> Nat]
      BY <2>1 DEF TypeOK, Enqueue
    <3>9. ticket' \in [Work -> Nat]
      BY <2>1 DEF TypeOK, Enqueue, Work
    <3>10. hostAt' \in [Hosts -> HostPlaces]
      BY <2>1 DEF TypeOK, Enqueue, HostPlaces
    <3>11. blockedOn' \in [Hosts -> Commands \cup UserEvents \cup {None}]
      BY <2>1 DEF TypeOK, Enqueue
    <3> QED BY <2>1, <3>1, <3>2, <3>3, <3>5, <3>6, <3>7, <3>8, <3>9, <3>10, <3>11 DEF TypeOK, Enqueue, FlushQueue, commandVars, bindVars, queueVars, schedVars, issuerVars, hostVars
  <2>1a. ASSUME NEW h \in Hosts, Push(h)
         PROVE  TypeOK'
    <3> DEFINE c == blockedOn[h]
               q == queueOf[c]
    <3>1. pending' \in [Queues -> Seq(Commands)]
      <4>1. /\ pending \in [Queues -> Seq(Commands)]
            /\ pending' = [pending EXCEPT ![q] = Append(@, c)]
            /\ c \in Commands
        BY <2>1a DEF Push, AtRing, TypeOK
      <4> QED BY <4>1, AppendFacts
    <3>2. /\ hostAt' = [hostAt EXCEPT ![h] = "blocking"] \/ hostAt' = [hostAt EXCEPT ![h] = "idle"]
          /\ blockedOn' = blockedOn \/ blockedOn' = [blockedOn EXCEPT ![h] = None]
      BY <2>1a DEF Push
    <3>3. hostAt' \in [Hosts -> HostPlaces]
      BY <3>2 DEF TypeOK, HostPlaces
    <3>4. blockedOn' \in [Hosts -> Commands \cup UserEvents \cup {None}]
      BY <3>2 DEF TypeOK
    <3> QED BY <2>1a, <3>1, <3>3, <3>4 DEF TypeOK, Push, commandVars, bindVars, queueVars, schedVars, issuerVars
  <2>2. ASSUME NEW h \in Hosts, NEW q \in Queues, Flush(h, q)
        PROVE  TypeOK'
    <3>1. device' \in [Queues -> Devices]
      BY <2>2 DEF TypeOK, Flush, FlushQueue
    <3>2. posts' \in Nat
      BY <2>2 DEF TypeOK, Flush, FlushQueue
    <3>3. flushed' \subseteq Commands
      BY <2>2 DEF TypeOK, Flush, FlushQueue, InRing
    <3> QED BY <2>2, <3>1, <3>2, <3>3 DEF TypeOK, Flush, FlushQueue, commandVars, bindVars, queueVars, schedVars, issuerVars, hostVars
  <2>3. ASSUME NEW h \in Hosts, NEW e \in Commands \cup UserEvents, BeginWait(h, e)
        PROVE  TypeOK'
    <3>1. hostAt' \in [Hosts -> HostPlaces]
      BY <2>3 DEF TypeOK, BeginWait, HostPlaces
    <3>2. blockedOn' \in [Hosts -> Commands \cup UserEvents \cup {None}]
      <4>1. blockedOn' = [blockedOn EXCEPT ![h] = None] \/ blockedOn' = [blockedOn EXCEPT ![h] = e]
        BY <2>3 DEF BeginWait
      <4>2. blockedOn \in [Hosts -> Commands \cup UserEvents \cup {None}]
        BY DEF TypeOK
      <4> QED BY <4>1, <4>2
    <3>3. device' \in [Queues -> Devices]
      BY <2>3 DEF TypeOK, BeginWait, FlushQueue
    <3>4. posts' \in Nat
      BY <2>3 DEF TypeOK, BeginWait, FlushQueue
    <3>5. flushed' \subseteq Commands
      BY <2>3 DEF TypeOK, BeginWait, FlushQueue, InRing
    <3> QED BY <2>3, <3>1, <3>2, <3>3, <3>4, <3>5 DEF TypeOK, BeginWait, FlushQueue, commandVars, bindVars, queueVars, schedVars, issuerVars, hostVars
  <2>4. ASSUME NEW h \in Hosts, EndWait(h)
        PROVE  TypeOK'
    <3>1. hostAt' \in [Hosts -> HostPlaces]
      BY <2>4 DEF TypeOK, EndWait, HostPlaces
    <3>2. blockedOn' \in [Hosts -> Commands \cup UserEvents \cup {None}]
      BY <2>4 DEF TypeOK, EndWait
    <3> QED BY <2>4, <3>1, <3>2 DEF TypeOK, EndWait, FlushQueue, commandVars, bindVars, queueVars, schedVars, issuerVars, hostVars
  <2>5. ASSUME NEW h \in Hosts, NEW u \in UserEvents, NEW s \in Outcomes, SetStatus(h, u, s)
        PROVE  TypeOK'
    <3>1. status' \in [Events -> Statuses]
      BY <2>5 DEF TypeOK, SetStatus, Statuses, Events, Work
    <3>2. hostAt' \in [Hosts -> HostPlaces]
      BY <2>5 DEF TypeOK, SetStatus, HostPlaces
    <3>3. blockedOn' \in [Hosts -> Commands \cup UserEvents \cup {None}]
      BY <2>5 DEF TypeOK, SetStatus
    <3> QED BY <2>5, <3>1, <3>2, <3>3 DEF TypeOK, SetStatus, FlushQueue, commandVars, bindVars, queueVars, schedVars, issuerVars, hostVars
  <2>5a. ASSUME NEW h \in Hosts, NEW u \in UserEvents, SetUserEventStatus(h, u)
         PROVE  TypeOK'
    <3>1. hostAt' \in [Hosts -> HostPlaces]
      BY <2>5a DEF TypeOK, SetUserEventStatus, HostPlaces
    <3>2. blockedOn' \in [Hosts -> Commands \cup UserEvents \cup {None}]
      BY <2>5a DEF TypeOK, SetUserEventStatus
    <3> QED BY <2>5a, <3>1, <3>2 DEF TypeOK, SetUserEventStatus, FlushQueue, commandVars, bindVars, queueVars, schedVars, issuerVars, hostVars
  <2>6. ASSUME NEW h \in Hosts, HostInvoke(h)
        PROVE  TypeOK'
    <3>1. hostAt' \in [Hosts -> HostPlaces]
      BY <2>6 DEF TypeOK, HostInvoke, HostPlaces
    <3>2. posts' \in Nat
      BY <2>6 DEF TypeOK, HostInvoke
    <3> QED BY <2>6, <3>1, <3>2 DEF TypeOK, HostInvoke, FlushQueue, commandVars, bindVars, queueVars, schedVars, issuerVars, hostVars
  <2>7. ASSUME BeginPass
        PROVE  TypeOK'
    <3>1. posts' \in Nat
      BY <2>7 DEF TypeOK, BeginPass
    <3> QED BY <2>7, <3>1 DEF TypeOK, BeginPass, FlushQueue, commandVars, bindVars, queueVars, schedVars, issuerVars, hostVars
  <2>8. ASSUME EndPass
        PROVE  TypeOK'
    <3> QED BY <2>8 DEF TypeOK, EndPass, FlushQueue, commandVars, bindVars, queueVars, schedVars, issuerVars, hostVars
  <2>9. ASSUME NEW q \in Queues, PeekNothing(q)
        PROVE  TypeOK'
    <3> QED BY <2>9 DEF TypeOK, PeekNothing, FlushQueue, commandVars, bindVars, queueVars, schedVars, issuerVars, hostVars
  <2>10. ASSUME NEW q \in Queues, Peek(q)
        PROVE  TypeOK'
    <3>1. waits' \in [Work -> SUBSET Events]
      BY <2>10 DEF TypeOK, Peek, Events, Work
    <3>2. bound' \in [Work -> Devices \cup {None}]
      BY <2>10 DEF TypeOK, Peek, Work
    <3>3. current' \in Commands \cup {None}
      BY <2>10 DEF TypeOK, Peek, Peekable
    <3> QED BY <2>10, <3>1, <3>2, <3>3 DEF TypeOK, Peek, FlushQueue, commandVars, bindVars, queueVars, schedVars, issuerVars, hostVars
  <2>11. ASSUME NEW k \in Clones, NEW d \in Devices, CloneByCopy(k, d)
        PROVE  TypeOK'
    <3>1. status' \in [Events -> Statuses]
      BY <2>11 DEF TypeOK, CloneByCopy, Statuses, Events, Work
    <3>2. ready' \in [Devices -> Seq(Work)]
      BY <2>11 DEF TypeOK, CloneByCopy, Work
    <3>3. waits' \in [Work -> SUBSET Events]
      <4>1. waits[current] \cup {k} \in SUBSET Events
        BY <2>11 DEF TypeOK, Held, CloneByCopy, Events, Work
      <4> QED BY <2>11, <4>1 DEF TypeOK, CloneByCopy
    <3>4. bound' \in [Work -> Devices \cup {None}]
      BY <2>11 DEF TypeOK, CloneByCopy, Work
    <3> QED BY <2>11, <3>1, <3>2, <3>3, <3>4 DEF TypeOK, CloneByCopy, FlushQueue, commandVars, bindVars, queueVars, schedVars, issuerVars, hostVars
  <2>12. ASSUME NEW r \in Clones, NEW w \in Clones, NEW d \in Devices, CloneByReadWrite(r, w, d)
        PROVE  TypeOK'
    <3>1. status' \in [Events -> Statuses]
      BY <2>12 DEF TypeOK, CloneByReadWrite, Statuses, Events, Work
    <3>2. callback' \in [Work -> Clones \cup {None}]
      BY <2>12 DEF TypeOK, CloneByReadWrite
    <3>3. ready' \in [Devices -> Seq(Work)]
      BY <2>12 DEF TypeOK, CloneByReadWrite, Work
    <3>4. waits' \in [Work -> SUBSET Events]
      <4>1. waits[current] \cup {w} \in SUBSET Events
        BY <2>12 DEF TypeOK, Held, CloneByReadWrite, Events, Work
      <4> QED BY <2>12, <4>1 DEF TypeOK, CloneByReadWrite
    <3>5. bound' \in [Work -> Devices \cup {None}]
      <4>1. current \in Work
        BY <2>12 DEF TypeOK, Held, CloneByReadWrite, Work
      <4> QED BY <2>12, <4>1 DEF TypeOK, CloneByReadWrite, Work
    <3> QED BY <2>12, <3>1, <3>2, <3>3, <3>4, <3>5 DEF TypeOK, CloneByReadWrite, FlushQueue, commandVars, bindVars, queueVars, schedVars, issuerVars, hostVars
  <2>13. ASSUME NEW again \in BOOLEAN, Unresolved(again)
        PROVE  TypeOK'
    <3>1. resolved' \in [Work -> BOOLEAN]
      BY <2>13 DEF TypeOK, Unresolved
    <3> QED BY <2>13, <3>1 DEF TypeOK, Unresolved, FlushQueue, commandVars, bindVars, queueVars, schedVars, issuerVars, hostVars
  <2>14. ASSUME NEW d \in Devices, NEW next \in {"submit", "complete"}, Resolve(d, next)
        PROVE  TypeOK'
    <3>1. resolved' \in [Work -> BOOLEAN]
      BY <2>14 DEF TypeOK, Resolve
    <3>2. bound' \in [Work -> Devices \cup {None}]
      BY <2>14 DEF TypeOK, Resolve, Work
    <3> QED BY <2>14, <3>1, <3>2 DEF TypeOK, Resolve, FlushQueue, commandVars, bindVars, queueVars, schedVars, issuerVars, hostVars
  <2>15. ASSUME Submit
        PROVE  TypeOK'
    <3>1. status' \in [Events -> Statuses]
      BY <2>15 DEF TypeOK, Submit, Statuses, Events, Work
    <3> QED BY <2>15, <3>1 DEF TypeOK, Submit, FlushQueue, commandVars, bindVars, queueVars, schedVars, issuerVars, hostVars
  <2>16. ASSUME EnqueueReadyQueue
        PROVE  TypeOK'
    <3>1. ready' \in [Devices -> Seq(Work)]
      <4>1. current \in Work
        BY <2>16 DEF TypeOK, Held, EnqueueReadyQueue, Work
      <4>2. \A f \in Devices : Append(ready[f], current) \in Seq(Work)
        BY <4>1, AppendFacts DEF TypeOK
      <4> QED BY <2>16, <4>2 DEF TypeOK, EnqueueReadyQueue
    <3> QED BY <2>16, <3>1 DEF TypeOK, EnqueueReadyQueue, FlushQueue, commandVars, bindVars, queueVars, schedVars, issuerVars, hostVars
  <2>17. ASSUME CompleteAtOnce
        PROVE  TypeOK'
    <3>1. status' \in [Events -> Statuses]
      BY <2>17 DEF TypeOK, CompleteAtOnce, Statuses, Events, Work
    <3> QED BY <2>17, <3>1 DEF TypeOK, CompleteAtOnce, FlushQueue, commandVars, bindVars, queueVars, schedVars, issuerVars, hostVars
  <2>18. ASSUME SchedulerInvoke
        PROVE  TypeOK'
    <3>1. posts' \in Nat
      BY <2>18 DEF TypeOK, SchedulerInvoke
    <3>2. bound' \in [Work -> Devices \cup {None}]
      BY <2>18 DEF TypeOK, SchedulerInvoke, Work
    <3> QED BY <2>18, <3>1, <3>2 DEF TypeOK, SchedulerInvoke, FlushQueue, commandVars, bindVars, queueVars, schedVars, issuerVars, hostVars
  <2>19. ASSUME Dequeue
        PROVE  TypeOK'
    <3>1. pending' \in [Queues -> Seq(Commands)]
      <4>1. queueOf[current] \in Queues /\ pending[queueOf[current]] # <<>>
        BY <2>19 DEF TypeOK, Held, Dequeue
      <4>2. Tail(pending[queueOf[current]]) \in Seq(Commands)
        BY <4>1, TailFacts DEF TypeOK
      <4> QED BY <2>19, <4>1, <4>2 DEF TypeOK, Dequeue
    <3> QED BY <2>19, <3>1 DEF TypeOK, Dequeue, FlushQueue, commandVars, bindVars, queueVars, schedVars, issuerVars, hostVars
  <2>20. ASSUME NEW d \in Devices, TakeReady(d)
        PROVE  TypeOK'
    <3>1. executing' \in [Devices -> Work \cup {None}]
      BY <2>20 DEF TypeOK, TakeReady, Work
    <3>2. ready' \in [Devices -> Seq(Work)]
      BY <2>20 DEF TypeOK, TakeReady, Work
    <3>3. status' \in [Events -> Statuses]
      BY <2>20 DEF TypeOK, TakeReady, Statuses, Events, Work
    <3>4. issuerAt' \in [Devices -> {"wait", "execute", "callbacks", "invoke"}]
      BY <2>20 DEF TypeOK, TakeReady
    <3> QED BY <2>20, <3>1, <3>2, <3>3, <3>4 DEF TypeOK, TakeReady, FlushQueue, commandVars, bindVars, queueVars, schedVars, issuerVars, hostVars
  <2>21. ASSUME NEW d \in Devices, NEW s \in Outcomes, SetAsComplete(d, s)
        PROVE  TypeOK'
    <3>1. status' \in [Events -> Statuses]
      BY <2>21 DEF TypeOK, SetAsComplete, Statuses, Events, Work
    <3>2. issuerAt' \in [Devices -> {"wait", "execute", "callbacks", "invoke"}]
      BY <2>21 DEF TypeOK, SetAsComplete
    <3> QED BY <2>21, <3>1, <3>2 DEF TypeOK, SetAsComplete, FlushQueue, commandVars, bindVars, queueVars, schedVars, issuerVars, hostVars
  <2>22. ASSUME NEW d \in Devices, RunCallbacks(d)
        PROVE  TypeOK'
    <3>1. status' \in [Events -> Statuses]
      BY <2>22, SMTT(20) DEF TypeOK, RunCallbacks, Statuses, Events, Work
    <3>2. ready' \in [Devices -> Seq(Work)]
      <4>1. executing[d] \in Work /\ callback[executing[d]] \in Work \cup {None}
        BY <2>22 DEF TypeOK, Held, RunCallbacks, Work
      <4>2. CASE callback[executing[d]] = None
        BY <2>22, <4>2 DEF TypeOK, RunCallbacks
      <4>3. CASE callback[executing[d]] # None
        <5> DEFINE w == callback[executing[d]]
        <5>1. ready' = [ready EXCEPT ![bound[w]] = Append(@, w)] /\ w \in Work
          BY <2>22, <4>1, <4>3 DEF RunCallbacks
        <5> HIDE DEF w
        <5>2. \A f \in Devices : Append(ready[f], w) \in Seq(Work)
          BY <5>1, AppendFacts DEF TypeOK
        <5> QED BY <5>1, <5>2 DEF TypeOK
      <4> QED BY <4>2, <4>3
    <3>3. issuerAt' \in [Devices -> {"wait", "execute", "callbacks", "invoke"}]
      BY <2>22 DEF TypeOK, RunCallbacks
    <3> QED BY <2>22, <3>1, <3>2, <3>3 DEF TypeOK, RunCallbacks, FlushQueue, commandVars, bindVars, queueVars, schedVars, issuerVars, hostVars
  <2>23. ASSUME NEW d \in Devices, IssuerInvoke(d)
        PROVE  TypeOK'
    <3>1. posts' \in Nat
      BY <2>23 DEF TypeOK, IssuerInvoke
    <3>2. issuerAt' \in [Devices -> {"wait", "execute", "callbacks", "invoke"}]
      BY <2>23 DEF TypeOK, IssuerInvoke
    <3>3. executing' \in [Devices -> Work \cup {None}]
      BY <2>23 DEF TypeOK, IssuerInvoke, Work
    <3>4. bound' \in [Work -> Devices \cup {None}]
      BY <2>23 DEF TypeOK, IssuerInvoke, Work
    <3>5. callback' \in [Work -> Clones \cup {None}]
      BY <2>23 DEF TypeOK, IssuerInvoke
    <3> QED BY <2>23, <3>1, <3>2, <3>3, <3>4, <3>5 DEF TypeOK, IssuerInvoke, FlushQueue, commandVars, bindVars, queueVars, schedVars, issuerVars, hostVars
  <2> QED
    BY <1>1, <2>1, <2>1a, <2>2, <2>3, <2>4, <2>5, <2>5a, <2>6, <2>7, <2>8, <2>9, <2>10, <2>11, <2>12, <2>13, <2>14, <2>15, <2>16, <2>17, <2>18, <2>19, <2>20, <2>21, <2>22, <2>23
    DEF Next, HostStep, HostCall, Scheduler, Issuer
<1>2. CASE UNCHANGED vars
  BY <1>2 DEF vars, TypeOK, commandVars, bindVars, queueVars, schedVars, issuerVars, hostVars
<1> QED
  BY <1>1, <1>2

-----------------------------------------------------------------------------
Parts ==
  /\ Held /\ Rings /\ InReady /\ Issuing /\ Chained /\ InHand
  /\ Numbered /\ StillWaits
  /\ InOrderExecution /\ WaitListRespected

(* EnqueueReadyQueue(): a command that is in no ready queue enters one. *)
LEMMA ReadyAppend ==
  ASSUME TypeOK, InReady,
         NEW d, NEW x \in Work, ready' = [ready EXCEPT ![d] = Append(@, x)],
         \A f \in Devices : \A i \in DOMAIN ready[f] :
           ready[f][i] # x /\ status'[ready[f][i]] = "submitted",
         status'[x] = "submitted"
  PROVE  InReady'
<1>t. ready \in [Devices -> Seq(Work)]
  BY DEF TypeOK
<1>1. ASSUME NEW f \in Devices
      PROVE  \A i \in DOMAIN ready'[f] :
               \/ i \in DOMAIN ready[f] /\ ready'[f][i] = ready[f][i]
               \/ f = d /\ i = Len(ready[f]) + 1 /\ ready'[f][i] = x
  <2>1. ready[f] \in Seq(Work)
    BY <1>t
  <2>2. CASE f = d
    BY <2>1, <2>2, <1>t, AppendFacts
  <2>3. CASE f # d
    BY <2>3, <1>t
  <2> QED BY <2>2, <2>3
<1> QED BY <1>1 DEF InReady

(* The heart of the argument: a queued command with no event left to wait  *)
(* for has all its predecessors complete, not only the last one, because   *)
(* the predecessor it waited for has itself started.                       *)
LEMMA EarlierComplete ==
  ASSUME IInv, NEW c \in Commands, status[c] = "queued", waits[c] = {}, queueOf[c] # None
  PROVE  /\ \A e \in deps[c] : IsComplete(e)
         /\ \A b \in Commands :
              queueOf[b] = queueOf[c] /\ ticket[b] < ticket[c] => IsComplete(b)
<1>1. \A e \in deps[c] : IsComplete(e)
  BY DEF IInv, StillWaits
<1>2. ASSUME NEW b \in Commands, queueOf[b] = queueOf[c], ticket[b] < ticket[c]
      PROVE  IsComplete(b)
  <2>t. /\ \A x \in Commands : ticket[x] \in Nat /\ queueOf[x] \in Queues \cup {None}
        /\ \A q \in Queues : issued[q] \in Nat
    BY DEF IInv, TypeOK, Work
  <2>1. ticket[c] - 1 \in 1 .. issued[queueOf[c]]
    BY <1>2, <2>t DEF IInv, Numbered
  <2>2. PICK p \in Commands : queueOf[p] = queueOf[c] /\ ticket[p] = ticket[c] - 1
    BY <2>1, <2>t DEF IInv, Numbered
  <2>3. IsComplete(p)
    BY <2>2, <2>t DEF IInv, StillWaits
  <2>4. Started(p)
    BY <2>3 DEF IsComplete, Started
  <2>5. CASE ticket[b] = ticket[p]
    BY <2>2, <2>3, <2>5, <1>2 DEF IInv, Numbered
  <2>6. CASE ticket[b] < ticket[p]
    BY <2>2, <2>4, <2>6, <1>2 DEF IInv, InOrderExecution
  <2> QED BY <2>2, <2>5, <2>6, <2>t, <1>2
<1> QED BY <1>1, <1>2

(* A step that changes the status of clones only. *)
LEMMA CommandFrame ==
  ASSUME TypeOK, UNCHANGED <<queueOf, ticket, issued, deps, last>>,
         \A e \in Commands \cup UserEvents : status'[e] = status[e]
  PROVE  /\ InOrderExecution => InOrderExecution'
         /\ WaitListRespected => WaitListRespected'
         /\ StillWaits /\ (\A c \in Commands : waits[c] \subseteq waits'[c]) => StillWaits'
         /\ Numbered => Numbered'
<1>1. InOrderExecution => InOrderExecution'
  BY DEF InOrderExecution, Started, IsComplete
<1>2. \A c \in Commands : deps[c] \subseteq Commands \cup UserEvents
  BY DEF TypeOK, Work
<1>3. WaitListRespected => WaitListRespected'
  BY <1>2 DEF WaitListRespected, Started, IsComplete
<1>4. StillWaits /\ (\A c \in Commands : waits[c] \subseteq waits'[c]) => StillWaits'
  BY <1>2 DEF StillWaits, IsComplete
<1>5. Numbered => Numbered'
  BY DEF Numbered
<1> QED BY <1>1, <1>3, <1>4, <1>5

(* Starting such a command keeps the order.                                *)
LEMMA CommandStarts ==
  ASSUME IInv, NEW c \in Commands, NEW s \in Statuses,
         status[c] = "queued", waits[c] = {}, queueOf[c] # None,
         status' = [status EXCEPT ![c] = s],
         UNCHANGED <<queueOf, ticket, deps>>
  PROVE  /\ InOrderExecution'
         /\ WaitListRespected'
<1>t. status \in [Events -> Statuses] /\ \A x \in Commands : deps[x] \subseteq Events /\ x \in Events
  BY DEF IInv, TypeOK, Events, Work
<1>1. \A e \in Events : e # c => status'[e] = status[e]
  BY <1>t
<1>2. \A e \in Events : IsComplete(e) => e # c
  BY DEF IsComplete
<1>3. InOrderExecution'
  BY <1>1, <1>2, <1>t, EarlierComplete DEF IInv, InOrderExecution, Started, IsComplete
<1>4. WaitListRespected'
  BY <1>1, <1>2, <1>t, EarlierComplete DEF IInv, WaitListRespected, Started, IsComplete
<1> QED BY <1>3, <1>4

(* A step that leaves the clones' statuses and the issuers alone.          *)
LEMMA ChainedFrame ==
  ASSUME TypeOK, Chained, UNCHANGED <<callback, executing, issuerAt>>,
         \A k \in Clones : status[k] # "none" => status'[k] = status[k]
  PROVE  Chained'
<1>1. \A r \in Work : callback[r] \in Clones \cup {None}
  BY DEF TypeOK
<1> QED BY <1>1 DEF Chained

-----------------------------------------------------------------------------
(* Enqueue() up to the ring: the new command has the next number.          *)
LEMMA EnqueuePreserves ==
  ASSUME IInv, NEW h \in Hosts, NEW q \in Queues, NEW c \in Commands,
         NEW W \in WaitLists, NEW blocking \in BOOLEAN,
         Enqueue(h, q, c, W, blocking)
  PROVE  Parts'
<1> USE CommandsAssumption, BoundsAssumption DEF Events, Work, WaitEvents
<1>a. /\ queueOf[c] = None
      /\ queueOf' = [queueOf EXCEPT ![c] = q]
      /\ status' = [status EXCEPT ![c] = "queued"]
      /\ UNCHANGED <<pending, current, schedAt, issuerAt, executing>>
      /\ c \in Work
  BY DEF Enqueue, IInv, Rings, schedVars, issuerVars
<1>t. /\ pending \in [Queues -> Seq(Commands)]
      /\ queueOf \in [Work -> Queues \cup {None}]
      /\ current \in Commands \cup {None}
      /\ status \in [Events -> Statuses]
  BY DEF IInv, TypeOK
<1>1. Held'
  <2>1. current # None => current # c
    BY <1>a DEF IInv, Held
  <2>2. current # None => queueOf'[current] = queueOf[current]
    BY <2>1, <1>a, <1>t
  <2> QED BY <1>a, <2>2 DEF IInv, Held
<1>2. Rings'
  <2>1. \A x \in Work : status'[x] = "none" => queueOf'[x] = None
    BY <1>a, <1>t DEF IInv, Rings
  <2>2. \A x \in Queues : \A j \in DOMAIN pending[x] :
          pending[x][j] \in Work /\ pending[x][j] # c
    BY <1>a, <1>t DEF IInv, Rings
  <2> QED BY <2>1, <2>2, <1>a, <1>t DEF IInv, Rings
<1>3. InReady'
  BY DEF IInv, TypeOK, InReady, Enqueue, Numbered, Rings, schedVars, issuerVars, hostVars
<1>4. Issuing'
  BY DEF IInv, TypeOK, Issuing, Enqueue, IsComplete, Numbered, Rings, schedVars, issuerVars,
     hostVars
<1>5. Chained'
  <2>1. UNCHANGED callback /\ \A k \in Clones : status'[k] = status[k]
    BY <1>a, <1>t DEF Enqueue
  <2> QED BY <2>1, <1>a, ChainedFrame DEF IInv
<1>6. InHand'
  BY DEF IInv, TypeOK, InHand, Enqueue, Started, Numbered, Rings, schedVars, issuerVars,
     hostVars
<1>7. Numbered'
  <2>1. /\ issued \in [Queues -> Nat] /\ issued' = [issued EXCEPT ![q] = @ + 1]
        /\ ticket \in [Work -> Nat] /\ ticket' = [ticket EXCEPT ![c] = issued[q] + 1]
        /\ last \in [Queues -> Commands \cup {None}] /\ last' = [last EXCEPT ![q] = c]
    BY DEF IInv, TypeOK, Enqueue
  <2>2. /\ \A x \in Queues : issued'[x] = IF x = q THEN issued[q] + 1 ELSE issued[x]
        /\ \A x \in Queues : last'[x] = IF x = q THEN c ELSE last[x]
        /\ \A b \in Commands : ticket'[b] = IF b = c THEN issued[q] + 1 ELSE ticket[b]
        /\ \A b \in Commands : queueOf'[b] = IF b = c THEN q ELSE queueOf[b]
        /\ \A b \in Commands : queueOf[b] \in Queues \cup {None}
        /\ issued[q] \in Nat
    BY <2>1, <1>a, <1>t
  <2>3. Numbered
    BY DEF IInv
  <2>4. \A b \in Commands : queueOf'[b] # None => ticket'[b] \in 1 .. issued'[queueOf'[b]]
    BY <2>1, <2>2, <2>3 DEF Numbered
  <2>5. \A a, b \in Commands :
          queueOf'[a] # None /\ queueOf'[a] = queueOf'[b] /\ ticket'[a] = ticket'[b] => a = b
    BY <2>1, <2>2, <2>3 DEF Numbered
  <2>6. \A x \in Queues : \A n \in 1 .. issued'[x] :
          \E b \in Commands : queueOf'[b] = x /\ ticket'[b] = n
    <3> SUFFICES ASSUME NEW x \in Queues, NEW n \in 1 .. issued'[x]
                 PROVE  \E b \in Commands : queueOf'[b] = x /\ ticket'[b] = n
      OBVIOUS
    <3>1. CASE x = q /\ n = issued[q] + 1
      BY <2>2, <3>1
    <3>2. CASE ~(x = q /\ n = issued[q] + 1)
      <4>1. issued[x] \in Nat /\ n \in 1 .. issued[x]
        BY <2>1, <2>2, <3>2
      <4>2. PICK b \in Commands : queueOf[b] = x /\ ticket[b] = n
        BY <2>3, <4>1 DEF Numbered
      <4> QED BY <1>a, <2>2, <4>2
    <3> QED BY <3>1, <3>2
  <2>7. \A x \in Queues :
          /\ last'[x] = None <=> issued'[x] = 0
          /\ last'[x] # None => queueOf'[last'[x]] = x /\ ticket'[last'[x]] = issued'[x]
    BY <2>1, <2>2, <2>3, <1>a DEF Numbered
  <2> QED BY <2>4, <2>5, <2>6, <2>7 DEF Numbered
<1>8. StillWaits'
  <2>0. /\ status[c] = "none"
        /\ waits' = [waits EXCEPT ![c] = IF last[q] = None THEN W ELSE W \cup {last[q]}]
        /\ deps' = [deps EXCEPT ![c] = W]
        /\ ticket' = [ticket EXCEPT ![c] = issued[q] + 1]
    BY DEF Enqueue
  <2>t. TypeOK
    BY DEF IInv
  <2>1. \A e \in Events : IsComplete(e) => e # c /\ IsComplete(e)'
    BY <2>0, <1>a, <2>t DEF TypeOK, IsComplete
  <2>2. ASSUME NEW x \in Commands, status'[x] = "queued", x # c
        PROVE  /\ \A e \in deps'[x] : e \in waits'[x] \/ IsComplete(e)'
               /\ \A b \in Commands : queueOf'[b] = queueOf'[x] /\ ticket'[x] = ticket'[b] + 1 =>
                    b \in waits'[x] \/ IsComplete(b)'
    <3>1. /\ status[x] = "queued" /\ waits'[x] = waits[x] /\ deps'[x] = deps[x]
          /\ queueOf'[x] = queueOf[x] /\ ticket'[x] = ticket[x] /\ deps[x] \subseteq Events
      BY <2>0, <2>2, <1>a, <2>t DEF TypeOK
    <3>2. \A b \in Commands : queueOf'[b] = queueOf'[x] /\ ticket'[x] = ticket'[b] + 1 => b # c
      <4>1. queueOf[x] = q => ticket[x] \in Nat /\ issued[q] \in Nat /\ ticket[x] <= issued[q]
        BY <2>t DEF IInv, TypeOK, Numbered
      <4>2. queueOf'[c] = q /\ ticket'[c] = issued[q] + 1
        BY <2>0, <1>a, <2>t DEF TypeOK
      <4> QED BY <3>1, <4>1, <4>2
    <3> QED BY <3>1, <3>2, <2>1, <2>0, <1>a, <2>t DEF IInv, StillWaits, TypeOK
  <2>3. /\ \A e \in deps'[c] : e \in waits'[c]
        /\ \A b \in Commands : queueOf'[b] = queueOf'[c] /\ ticket'[c] = ticket'[b] + 1 =>
             b \in waits'[c]
    BY <2>0, <1>a, <2>t DEF IInv, TypeOK, Numbered
  <2> QED BY <2>2, <2>3 DEF StillWaits
<1>9. InOrderExecution'
  BY DEF IInv, TypeOK, InOrderExecution, Enqueue, Started, IsComplete, Numbered, Rings,
     schedVars, issuerVars, hostVars
<1>10. WaitListRespected'
  BY DEF IInv, TypeOK, WaitListRespected, Enqueue, Started, IsComplete, Numbered, Rings,
     schedVars, issuerVars, hostVars
<1> QED BY <1>1, <1>2, <1>3, <1>4, <1>5, <1>6, <1>7, <1>8, <1>9, <1>10 DEF Parts

(* Enqueue() at the ring: the command is in no ring yet.                   *)
LEMMA PushPreserves ==
  ASSUME IInv, NEW h \in Hosts, Push(h)
  PROVE  Parts'
<1> USE CommandsAssumption, BoundsAssumption DEF Events, Work
<1> DEFINE c == blockedOn[h]
           q == queueOf[c]
<1>a. /\ pending' = [pending EXCEPT ![q] = Append(pending[q], c)]
      /\ UNCHANGED <<status, waits, queueOf, deps, ticket, issued, last, callback, ready,
                     current, schedAt, issuerAt, executing>>
  BY DEF Push, commandVars, schedVars, issuerVars
<1>r. /\ c \in Commands /\ q \in Queues /\ status[c] = "queued" /\ c \notin InRing(q)
  BY DEF IInv, AtRing, Push
<1>t. pending \in [Queues -> Seq(Commands)]
  BY DEF IInv, TypeOK
<1>n. \A j \in DOMAIN pending[q] : pending[q][j] # c
  BY <1>r DEF InRing
<1>o. \A x \in Queues : x # q => pending'[x] = pending[x]
  BY <1>a, <1>t, <1>r
<1>p. pending'[q] = Append(pending[q], c) /\ pending[q] \in Seq(Commands)
  BY <1>a, <1>t, <1>r
<1>q. \A j \in DOMAIN pending'[q] :
        \/ j \in DOMAIN pending[q] /\ pending'[q][j] = pending[q][j]
        \/ j = Len(pending[q]) + 1 /\ pending'[q][j] = c
  BY <1>p, <1>r, AppendFacts
<1>k. queueOf[c] = q
  OBVIOUS
<1> HIDE DEF c, q
<1>1. Held'
  <2>1. \A x \in Queues : pending[x] # <<>> =>
          pending'[x] # <<>> /\ Head(pending'[x]) = Head(pending[x])
    BY <1>o, <1>p, <1>r, AppendFacts
  <2> QED BY <1>a, <2>1 DEF IInv, Held
<1>2. Rings'
  <2>1. ASSUME NEW x \in Queues, NEW i \in DOMAIN pending'[x]
        PROVE  /\ queueOf[pending'[x][i]] = x
               /\ status[pending'[x][i]] # "queued" =>
                    pending'[x][i] = current /\ schedAt \in {"push", "invoke", "dequeue"}
               /\ \A j \in DOMAIN pending'[x] : pending'[x][i] = pending'[x][j] => i = j
    <3>1. CASE x # q
      BY <2>1, <3>1, <1>o DEF IInv, Rings
    <3>2. CASE x = q
      BY <2>1, <3>2, <1>n, <1>q, <1>r, <1>k DEF IInv, Rings
    <3> QED BY <3>1, <3>2
  <2> QED BY <2>1, <1>a DEF IInv, Rings
<1>3. InReady'
  BY <1>a DEF IInv, InReady
<1>4. Issuing'
  BY <1>a DEF IInv, Issuing, IsComplete
<1>5. Chained'
  BY <1>a DEF IInv, Chained
<1>6. InHand'
  BY <1>a DEF IInv, InHand, Started
<1>7. Numbered'
  BY <1>a DEF IInv, Numbered
<1>8. StillWaits'
  BY <1>a DEF IInv, StillWaits, IsComplete
<1>9. InOrderExecution'
  BY <1>a DEF IInv, InOrderExecution, Started, IsComplete
<1>10. WaitListRespected'
  BY <1>a DEF IInv, WaitListRespected, Started, IsComplete
<1> QED BY <1>1, <1>2, <1>3, <1>4, <1>5, <1>6, <1>7, <1>8, <1>9, <1>10 DEF Parts

(* A user event completes.                                                 *)
LEMMA SetStatusPreserves ==
  ASSUME IInv, NEW h \in Hosts, NEW u \in UserEvents, NEW s \in Outcomes,
         SetStatus(h, u, s)
  PROVE  Parts'
<1> USE CommandsAssumption, BoundsAssumption DEF Events, Work
<1>1. Held'
  BY DEF IInv, Held, SetStatus, queueVars, commandVars, schedVars, issuerVars
<1>2. Rings'
  BY DEF IInv, TypeOK, Rings, SetStatus, queueVars, commandVars, bindVars,
     schedVars, issuerVars
<1>3. InReady'
  BY DEF IInv, TypeOK, InReady, SetStatus, queueVars, commandVars, bindVars,
     schedVars, issuerVars
<1>4. Issuing'
  BY DEF IInv, TypeOK, Issuing, SetStatus, IsComplete, queueVars, commandVars,
     bindVars, schedVars, issuerVars
<1>5. Chained'
  BY DEF IInv, TypeOK, Chained, SetStatus, queueVars, commandVars, bindVars,
     schedVars, issuerVars
<1>6. InHand'
  BY DEF IInv, TypeOK, InHand, SetStatus, Started, queueVars, commandVars, bindVars,
     schedVars, issuerVars
<1>7. Numbered'
  BY DEF IInv, Numbered, SetStatus, queueVars, commandVars
<1>8. StillWaits'
  BY DEF IInv, TypeOK, StillWaits, SetStatus, IsComplete, queueVars, commandVars,
     bindVars, schedVars, issuerVars
<1>9. InOrderExecution'
  BY DEF IInv, TypeOK, InOrderExecution, SetStatus, Started, IsComplete, queueVars,
     commandVars, bindVars, schedVars, issuerVars
<1>10. WaitListRespected'
  BY DEF IInv, TypeOK, WaitListRespected, SetStatus, Started, IsComplete, queueVars,
     commandVars, bindVars, schedVars, issuerVars
<1> QED BY <1>1, <1>2, <1>3, <1>4, <1>5, <1>6, <1>7, <1>8, <1>9, <1>10 DEF Parts

(* A pass begins.                                                          *)
LEMMA BeginPassPreserves ==
  ASSUME IInv, BeginPass
  PROVE  Parts'
<1> USE CommandsAssumption, BoundsAssumption DEF Events, Work
<1>1. Held'
  BY DEF IInv, TypeOK, Held, BeginPass, queueVars, commandVars, bindVars, issuerVars, hostVars
<1>2. Rings'
  BY DEF IInv, TypeOK, Rings, BeginPass, queueVars, commandVars, bindVars, issuerVars, hostVars
<1>3. InReady'
  BY DEF IInv, InReady, BeginPass
<1>4. Issuing'
  BY DEF IInv, Issuing, BeginPass, IsComplete, issuerVars
<1>5. Chained'
  BY DEF IInv, Chained, BeginPass, issuerVars
<1>6. InHand'
  BY DEF IInv, TypeOK, InHand, BeginPass, Started, queueVars, commandVars, bindVars,
     issuerVars, hostVars
<1>7. Numbered'
  BY DEF IInv, Numbered, BeginPass, queueVars, commandVars
<1>8. StillWaits'
  BY DEF IInv, StillWaits, BeginPass, IsComplete, commandVars
<1>9. InOrderExecution'
  BY DEF IInv, InOrderExecution, BeginPass, Started, IsComplete, commandVars
<1>10. WaitListRespected'
  BY DEF IInv, WaitListRespected, BeginPass, Started, IsComplete, commandVars
<1> QED BY <1>1, <1>2, <1>3, <1>4, <1>5, <1>6, <1>7, <1>8, <1>9, <1>10 DEF Parts

(* A pass ends.                                                            *)
LEMMA EndPassPreserves ==
  ASSUME IInv, EndPass
  PROVE  Parts'
<1> USE CommandsAssumption, BoundsAssumption DEF Events, Work
<1>1. Held'
  BY DEF IInv, TypeOK, Held, EndPass, queueVars, commandVars, bindVars, issuerVars, hostVars
<1>2. Rings'
  BY DEF IInv, TypeOK, Rings, EndPass, queueVars, commandVars, bindVars, issuerVars, hostVars
<1>3. InReady'
  BY DEF IInv, InReady, EndPass
<1>4. Issuing'
  BY DEF IInv, Issuing, EndPass, IsComplete, issuerVars
<1>5. Chained'
  BY DEF IInv, Chained, EndPass, issuerVars
<1>6. InHand'
  BY DEF IInv, TypeOK, InHand, EndPass, Started, queueVars, commandVars, bindVars,
     issuerVars, hostVars
<1>7. Numbered'
  BY DEF IInv, Numbered, EndPass, queueVars, commandVars
<1>8. StillWaits'
  BY DEF IInv, StillWaits, EndPass, IsComplete, commandVars
<1>9. InOrderExecution'
  BY DEF IInv, InOrderExecution, EndPass, Started, IsComplete, commandVars
<1>10. WaitListRespected'
  BY DEF IInv, WaitListRespected, EndPass, Started, IsComplete, commandVars
<1> QED BY <1>1, <1>2, <1>3, <1>4, <1>5, <1>6, <1>7, <1>8, <1>9, <1>10 DEF Parts

(* Peek(): the wait list is emptied because all of it is complete.         *)
LEMMA PeekPreserves ==
  ASSUME IInv, NEW q \in Queues,
         Peek(q)
  PROVE  Parts'
<1> USE CommandsAssumption, BoundsAssumption DEF Events, Work
<1>1. Held'
  BY DEF IInv, TypeOK, Held, Peek, Peekable, IsExecutable, Rings, queueVars, commandVars,
     issuerVars, hostVars
<1>2. Rings'
  BY DEF IInv, TypeOK, Rings, Peek, Peekable, IsExecutable, queueVars, commandVars,
     issuerVars, hostVars
<1>3. InReady'
  BY DEF IInv, InReady, Peek
<1>4. Issuing'
  BY DEF IInv, Issuing, Peek, IsComplete, issuerVars
<1>5. Chained'
  BY DEF IInv, Chained, Peek, issuerVars
<1>6. InHand'
  BY DEF IInv, TypeOK, InHand, Peek, Started, Peekable, IsExecutable, Rings, queueVars,
     commandVars, issuerVars, hostVars
<1>7. Numbered'
  BY DEF IInv, Numbered, Peek, queueVars, commandVars
<1>8. StillWaits'
  BY DEF IInv, TypeOK, StillWaits, Peek, IsComplete, Peekable, IsExecutable, Rings,
     queueVars, commandVars, issuerVars, hostVars
<1>9. InOrderExecution'
  BY DEF IInv, InOrderExecution, Peek, Started, IsComplete, commandVars
<1>10. WaitListRespected'
  BY DEF IInv, WaitListRespected, Peek, Started, IsComplete, commandVars
<1> QED BY <1>1, <1>2, <1>3, <1>4, <1>5, <1>6, <1>7, <1>8, <1>9, <1>10 DEF Parts

(* A clone enters a ready queue.                                           *)
LEMMA CloneByCopyPreserves ==
  ASSUME IInv, NEW k \in Clones, NEW d \in Devices,
         CloneByCopy(k, d)
  PROVE  Parts'
<1> USE CommandsAssumption, BoundsAssumption DEF Events, Work
<1>a. /\ status[k] = "none"
      /\ status' = [status EXCEPT ![k] = "submitted"]
      /\ ready' = [ready EXCEPT ![d] = Append(@, k)]
      /\ waits' = [waits EXCEPT ![current] = @ \cup {k}]
      /\ schedAt = "resolve"
      /\ UNCHANGED <<queueOf, deps, ticket, issued, last, pending, current, schedAt, callback,
                     issuerAt, executing>>
  BY DEF CloneByCopy, commandVars, queueVars, schedVars, issuerVars
<1>b. /\ \A e \in Events : e # k => status'[e] = status[e]
      /\ status'[k] = "submitted" /\ k \in Events
      /\ \A c \in Work : waits[c] \subseteq waits'[c]
      /\ current \in Commands => waits'[current] = waits[current] \cup {k}
  BY <1>a DEF IInv, TypeOK
<1>c. /\ \A q \in Queues : \A i \in DOMAIN pending[q] : pending[q][i] \in Commands
      /\ \A f \in Devices : \A i \in DOMAIN ready[f] : ready[f][i] \in Work
      /\ \A c \in Work : callback[c] \in Clones \cup {None}
  BY DEF IInv, TypeOK
<1>1. Held'
  BY DEF IInv, Held, CloneByCopy, queueVars, commandVars, schedVars, issuerVars
<1>2. Rings'
  BY <1>a, <1>b, <1>c DEF IInv, Rings
<1>3. InReady'
  BY <1>a, <1>b, <1>c, ReadyAppend DEF IInv, InReady
<1>4. Issuing'
  BY <1>a, <1>b DEF IInv, TypeOK, Held, Issuing, IsComplete
<1>5. Chained'
  BY <1>a, <1>b, <1>c DEF IInv, Chained
<1>6. InHand'
  BY <1>a, <1>b DEF IInv, TypeOK, Held, InHand, Started
<1>7. Numbered'
  BY <1>a, <1>b, CommandFrame DEF IInv
<1>8. StillWaits'
  BY <1>a, <1>b, CommandFrame DEF IInv
<1>9. InOrderExecution'
  BY <1>a, <1>b, CommandFrame DEF IInv
<1>10. WaitListRespected'
  BY <1>a, <1>b, CommandFrame DEF IInv
<1> QED BY <1>1, <1>2, <1>3, <1>4, <1>5, <1>6, <1>7, <1>8, <1>9, <1>10 DEF Parts

(* A read enters a ready queue, its write waits for it.                    *)
LEMMA CloneByReadWritePreserves ==
  ASSUME IInv, NEW r \in Clones, NEW w \in Clones, NEW d \in Devices,
         CloneByReadWrite(r, w, d)
  PROVE  Parts'
<1> USE CommandsAssumption, BoundsAssumption DEF Events, Work
<1>a. /\ status[r] = "none" /\ status[w] = "none" /\ r # w
      /\ status' = [status EXCEPT ![r] = "submitted", ![w] = "queued"]
      /\ callback' = [callback EXCEPT ![r] = w]
      /\ ready' = [ready EXCEPT ![d] = Append(@, r)]
      /\ waits' = [waits EXCEPT ![current] = @ \cup {w}]
      /\ schedAt = "resolve"
      /\ UNCHANGED <<queueOf, deps, ticket, issued, last, pending, current, schedAt,
                     issuerAt, executing>>
  BY DEF CloneByReadWrite, commandVars, queueVars, schedVars, issuerVars
<1>b. /\ \A e \in Events : e # r /\ e # w => status'[e] = status[e]
      /\ status'[r] = "submitted" /\ status'[w] = "queued" /\ r \in Events /\ w \in Events
      /\ \A c \in Work : waits[c] \subseteq waits'[c]
      /\ current \in Commands => waits'[current] = waits[current] \cup {w}
      /\ \A c \in Work : c # r => callback'[c] = callback[c]
      /\ callback'[r] = w
  BY <1>a DEF IInv, TypeOK
<1>c. /\ \A q \in Queues : \A i \in DOMAIN pending[q] : pending[q][i] \in Commands
      /\ \A f \in Devices : \A i \in DOMAIN ready[f] : ready[f][i] \in Work
      /\ \A c \in Work : callback[c] \in Clones \cup {None}
  BY DEF IInv, TypeOK
<1>d. \A e \in Events : status[e] # "none" => e # r /\ e # w /\ status'[e] = status[e]
  BY <1>a, <1>b
<1>f. /\ UNCHANGED <<queueOf, pending, current, schedAt, executing, issuerAt>>
      /\ \A c \in Work : status'[c] = "none" => status[c] = "none"
  BY <1>a, <1>b
<1>e. \A e \in Commands \cup UserEvents : status'[e] = status[e]
  BY <1>a, <1>b
<1>1. Held'
  BY DEF IInv, Held, CloneByReadWrite, queueVars, commandVars, schedVars, issuerVars
<1>2. Rings'
  BY <1>c, <1>e, <1>f DEF IInv, Rings
<1>3. InReady'
  <2>1. \A f \in Devices : \A i \in DOMAIN ready[f] :
          ready[f][i] # r /\ status'[ready[f][i]] = "submitted"
    BY <1>c, <1>d DEF IInv, InReady
  <2> QED BY <2>1, <1>a, <1>b, ReadyAppend DEF IInv
<1>4. Issuing'
  <2>1. \A f \in Devices : executing[f] \in Work \cup {None}
    BY DEF IInv, TypeOK
  <2> QED BY <2>1, <1>d, <1>f DEF IInv, Held, Issuing, IsComplete
<1>5. Chained'
  <2> SUFFICES ASSUME NEW x \in Work, callback'[x] # None
               PROVE  /\ status'[callback'[x]] # "none"
                      /\ (\A f \in Devices : executing[f] = x => issuerAt[f] # "invoke") =>
                           /\ status'[callback'[x]] = "queued"
                           /\ \A s \in Work : callback'[s] = callback'[x] => s = x
    BY <1>a DEF Chained
  <2>1. \A s \in Work : callback[s] # w
    BY <1>a DEF IInv, Chained
  <2>2. CASE x = r
    BY <2>1, <2>2, <1>b
  <2>3. CASE x # r
    <3>1. callback'[x] = callback[x] /\ callback[x] \in Events /\ callback[x] # w
      BY <2>1, <2>3, <1>b, <1>c
    <3>2. status'[callback[x]] = status[callback[x]] /\ status[callback[x]] # "none"
      BY <3>1, <1>d DEF IInv, Chained
    <3> QED BY <3>1, <3>2, <1>b DEF IInv, Chained
  <2> QED BY <2>2, <2>3
<1>6. InHand'
  BY <1>a, <1>b DEF IInv, TypeOK, Held, InHand, Started
<1>7. Numbered'
  BY <1>a, <1>b, <1>e, CommandFrame DEF IInv
<1>8. StillWaits'
  BY <1>a, <1>b, <1>e, CommandFrame DEF IInv
<1>9. InOrderExecution'
  BY <1>a, <1>b, <1>e, CommandFrame DEF IInv
<1>10. WaitListRespected'
  BY <1>a, <1>b, <1>e, CommandFrame DEF IInv
<1> QED BY <1>1, <1>2, <1>3, <1>4, <1>5, <1>6, <1>7, <1>8, <1>9, <1>10 DEF Parts

(* The command stays in its ring.                                          *)
LEMMA UnresolvedPreserves ==
  ASSUME IInv, NEW again \in BOOLEAN,
         Unresolved(again)
  PROVE  Parts'
<1> USE CommandsAssumption, BoundsAssumption DEF Events, Work
<1>1. Held'
  BY DEF IInv, TypeOK, Held, Unresolved, InHand, Started, queueVars, commandVars, issuerVars,
     hostVars
<1>2. Rings'
  BY DEF IInv, TypeOK, Rings, Unresolved, Held, InHand, Started, queueVars, commandVars,
     issuerVars, hostVars
<1>3. InReady'
  BY DEF IInv, InReady, Unresolved
<1>4. Issuing'
  BY DEF IInv, Issuing, Unresolved, IsComplete, issuerVars
<1>5. Chained'
  BY DEF IInv, Chained, Unresolved, issuerVars
<1>6. InHand'
  BY DEF IInv, TypeOK, InHand, Unresolved, Started, Held, queueVars, commandVars, issuerVars,
     hostVars
<1>7. Numbered'
  BY DEF IInv, Numbered, Unresolved, queueVars, commandVars
<1>8. StillWaits'
  BY DEF IInv, StillWaits, Unresolved, IsComplete, commandVars
<1>9. InOrderExecution'
  BY DEF IInv, InOrderExecution, Unresolved, Started, IsComplete, commandVars
<1>10. WaitListRespected'
  BY DEF IInv, WaitListRespected, Unresolved, Started, IsComplete, commandVars
<1> QED BY <1>1, <1>2, <1>3, <1>4, <1>5, <1>6, <1>7, <1>8, <1>9, <1>10 DEF Parts

(* The command is going to be submitted.                                   *)
LEMMA ResolvePreserves ==
  ASSUME IInv, NEW d \in Devices, NEW next \in {"submit", "complete"},
         Resolve(d, next)
  PROVE  Parts'
<1> USE CommandsAssumption, BoundsAssumption DEF Events, Work
<1>1. Held'
  BY DEF IInv, TypeOK, Held, Resolve, InHand, Started, queueVars, commandVars, issuerVars,
     hostVars
<1>2. Rings'
  BY DEF IInv, TypeOK, Rings, Resolve, Held, InHand, Started, queueVars, commandVars,
     issuerVars, hostVars
<1>3. InReady'
  BY DEF IInv, InReady, Resolve
<1>4. Issuing'
  BY DEF IInv, Issuing, Resolve, IsComplete, issuerVars
<1>5. Chained'
  BY DEF IInv, Chained, Resolve, issuerVars
<1>6. InHand'
  BY DEF IInv, TypeOK, InHand, Resolve, Started, Held, queueVars, commandVars, issuerVars,
     hostVars
<1>7. Numbered'
  BY DEF IInv, Numbered, Resolve, queueVars, commandVars
<1>8. StillWaits'
  BY DEF IInv, StillWaits, Resolve, IsComplete, commandVars
<1>9. InOrderExecution'
  BY DEF IInv, InOrderExecution, Resolve, Started, IsComplete, commandVars
<1>10. WaitListRespected'
  BY DEF IInv, WaitListRespected, Resolve, Started, IsComplete, commandVars
<1> QED BY <1>1, <1>2, <1>3, <1>4, <1>5, <1>6, <1>7, <1>8, <1>9, <1>10 DEF Parts

(* Submit() starts the command.                                            *)
LEMMA SubmitPreserves ==
  ASSUME IInv, Submit
  PROVE  Parts'
<1> USE CommandsAssumption, BoundsAssumption DEF Events, Work
<1>a. /\ schedAt = "submit" /\ schedAt' = "push"
      /\ status' = [status EXCEPT ![current] = "submitted"]
      /\ UNCHANGED <<queueOf, deps, ticket, waits, ready, issued, last, pending, current>>
  BY DEF Submit, commandVars, queueVars
<1>b. /\ current \in Commands /\ queueOf[current] # None
      /\ status[current] = "queued" /\ waits[current] = {}
  BY <1>a DEF IInv, TypeOK, Held, InHand
<1>c. "submitted" \in Statuses
  BY DEF Statuses
<1>d. UNCHANGED <<callback, executing, issuerAt>>
  BY DEF Submit, issuerVars
<1>1. Held'
  BY DEF IInv, TypeOK, Held, Submit, InHand, Started, queueVars, commandVars, bindVars,
     issuerVars, hostVars
<1>2. Rings'
  BY DEF IInv, TypeOK, Rings, Submit, Held, InHand, Started, queueVars, commandVars,
     bindVars, issuerVars, hostVars
<1>3. InReady'
  BY DEF IInv, TypeOK, InReady, Submit, Held, InHand, Started, queueVars, commandVars,
     bindVars, issuerVars, hostVars
<1>4. Issuing'
  BY DEF IInv, TypeOK, Issuing, Submit, IsComplete, Held, InHand, Started, queueVars,
     commandVars, bindVars, issuerVars, hostVars
<1>5. Chained'
  BY <1>a, <1>b, <1>d, ChainedFrame DEF IInv, TypeOK
<1>6. InHand'
  BY <1>a, <1>b DEF IInv, TypeOK, InReady, InHand, Started
<1>7. Numbered'
  BY DEF IInv, Numbered, Submit, queueVars, commandVars
<1>8. StillWaits'
  BY DEF IInv, TypeOK, StillWaits, Submit, IsComplete, Held, InHand, Started, queueVars,
     commandVars, bindVars, issuerVars, hostVars
<1>9. InOrderExecution'
  BY <1>a, <1>b, <1>c, CommandStarts
<1>10. WaitListRespected'
  BY <1>a, <1>b, <1>c, CommandStarts
<1> QED BY <1>1, <1>2, <1>3, <1>4, <1>5, <1>6, <1>7, <1>8, <1>9, <1>10 DEF Parts

(* The command enters a ready queue.                                       *)
LEMMA EnqueueReadyQueuePreserves ==
  ASSUME IInv, EnqueueReadyQueue
  PROVE  Parts'
<1> USE CommandsAssumption, BoundsAssumption DEF Events, Work
<1>a. /\ ready' = [ready EXCEPT ![bound[current]] = Append(@, current)]
      /\ schedAt = "push" /\ UNCHANGED status
  BY DEF EnqueueReadyQueue
<1>b. /\ current \in Work /\ status[current] = "submitted"
      /\ \A f \in Devices : \A i \in DOMAIN ready[f] : ready[f][i] # current
  BY <1>a DEF IInv, TypeOK, Held, InHand
<1>1. Held'
  BY DEF IInv, TypeOK, Held, EnqueueReadyQueue, InHand, Started, queueVars, commandVars,
     bindVars, issuerVars, hostVars
<1>2. Rings'
  BY DEF IInv, TypeOK, Rings, EnqueueReadyQueue, Held, InHand, Started, queueVars,
     commandVars, bindVars, issuerVars, hostVars
<1>3. InReady'
  BY <1>a, <1>b, ReadyAppend DEF IInv, InReady
<1>4. Issuing'
  BY DEF IInv, Issuing, EnqueueReadyQueue, IsComplete, issuerVars
<1>5. Chained'
  BY DEF IInv, Chained, EnqueueReadyQueue, issuerVars
<1>6. InHand'
  BY DEF IInv, TypeOK, InHand, EnqueueReadyQueue, Started, Held, queueVars, commandVars,
     bindVars, issuerVars, hostVars
<1>7. Numbered'
  BY DEF IInv, Numbered, EnqueueReadyQueue, queueVars, commandVars
<1>8. StillWaits'
  BY DEF IInv, StillWaits, EnqueueReadyQueue, IsComplete, commandVars
<1>9. InOrderExecution'
  BY DEF IInv, InOrderExecution, EnqueueReadyQueue, Started, IsComplete, commandVars
<1>10. WaitListRespected'
  BY DEF IInv, WaitListRespected, EnqueueReadyQueue, Started, IsComplete, commandVars
<1> QED BY <1>1, <1>2, <1>3, <1>4, <1>5, <1>6, <1>7, <1>8, <1>9, <1>10 DEF Parts

(* A read of no bytes starts and is complete.                              *)
LEMMA CompleteAtOncePreserves ==
  ASSUME IInv, CompleteAtOnce
  PROVE  Parts'
<1> USE CommandsAssumption, BoundsAssumption DEF Events, Work
<1>a. /\ schedAt = "complete" /\ schedAt' = "invoke"
      /\ status' = [status EXCEPT ![current] = "complete"]
      /\ UNCHANGED <<queueOf, deps, ticket, waits, ready, issued, last, pending, current>>
  BY DEF CompleteAtOnce, commandVars, queueVars
<1>b. /\ current \in Commands /\ queueOf[current] # None
      /\ status[current] = "queued" /\ waits[current] = {}
  BY <1>a DEF IInv, TypeOK, Held, InHand
<1>c. "complete" \in Statuses
  BY DEF Statuses
<1>d. UNCHANGED <<callback, executing, issuerAt>>
  BY DEF CompleteAtOnce, issuerVars
<1>1. Held'
  BY DEF IInv, TypeOK, Held, CompleteAtOnce, InHand, Started, queueVars, commandVars,
     bindVars, issuerVars, hostVars
<1>2. Rings'
  BY DEF IInv, TypeOK, Rings, CompleteAtOnce, Held, InHand, Started, queueVars, commandVars,
     bindVars, issuerVars, hostVars
<1>3. InReady'
  BY DEF IInv, TypeOK, InReady, CompleteAtOnce, Held, InHand, Started, queueVars,
     commandVars, bindVars, issuerVars, hostVars
<1>4. Issuing'
  BY DEF IInv, TypeOK, Issuing, CompleteAtOnce, IsComplete, Held, InHand, Started, queueVars,
     commandVars, bindVars, issuerVars, hostVars
<1>5. Chained'
  BY <1>a, <1>b, <1>d, ChainedFrame DEF IInv, TypeOK
<1>6. InHand'
  BY DEF IInv, TypeOK, InHand, CompleteAtOnce, Started, Held, queueVars, commandVars,
     bindVars, issuerVars, hostVars
<1>7. Numbered'
  BY DEF IInv, Numbered, CompleteAtOnce, queueVars, commandVars
<1>8. StillWaits'
  BY DEF IInv, TypeOK, StillWaits, CompleteAtOnce, IsComplete, Held, InHand, Started,
     queueVars, commandVars, bindVars, issuerVars, hostVars
<1>9. InOrderExecution'
  BY <1>a, <1>b, <1>c, CommandStarts
<1>10. WaitListRespected'
  BY <1>a, <1>b, <1>c, CommandStarts
<1> QED BY <1>1, <1>2, <1>3, <1>4, <1>5, <1>6, <1>7, <1>8, <1>9, <1>10 DEF Parts

(* SetStatus() of such a read invokes the scheduler.                       *)
LEMMA SchedulerInvokePreserves ==
  ASSUME IInv, SchedulerInvoke
  PROVE  Parts'
<1> USE CommandsAssumption, BoundsAssumption DEF Events, Work
<1>1. Held'
  BY DEF IInv, TypeOK, Held, SchedulerInvoke, InHand, Started, queueVars, commandVars,
     issuerVars, hostVars
<1>2. Rings'
  BY DEF IInv, TypeOK, Rings, SchedulerInvoke, Held, InHand, Started, queueVars, commandVars,
     issuerVars, hostVars
<1>3. InReady'
  BY DEF IInv, InReady, SchedulerInvoke
<1>4. Issuing'
  BY DEF IInv, Issuing, SchedulerInvoke, IsComplete, issuerVars
<1>5. Chained'
  BY DEF IInv, Chained, SchedulerInvoke, issuerVars
<1>6. InHand'
  BY DEF IInv, TypeOK, InHand, SchedulerInvoke, Started, Held, queueVars, commandVars,
     issuerVars, hostVars
<1>7. Numbered'
  BY DEF IInv, Numbered, SchedulerInvoke, queueVars, commandVars
<1>8. StillWaits'
  BY DEF IInv, StillWaits, SchedulerInvoke, IsComplete, commandVars
<1>9. InOrderExecution'
  BY DEF IInv, InOrderExecution, SchedulerInvoke, Started, IsComplete, commandVars
<1>10. WaitListRespected'
  BY DEF IInv, WaitListRespected, SchedulerInvoke, Started, IsComplete, commandVars
<1> QED BY <1>1, <1>2, <1>3, <1>4, <1>5, <1>6, <1>7, <1>8, <1>9, <1>10 DEF Parts

(* Dequeue() drops the command in hand from its ring.                      *)
LEMMA DequeuePreserves ==
  ASSUME IInv, Dequeue
  PROVE  Parts'
<1> USE CommandsAssumption, BoundsAssumption DEF Events, Work
<1>a. /\ pending' = [pending EXCEPT ![queueOf[current]] = Tail(@)]
      /\ UNCHANGED <<status, queueOf>>
      /\ schedAt = "dequeue"
  BY DEF Dequeue, commandVars
<1>t. pending \in [Queues -> Seq(Commands)]
  BY DEF IInv, TypeOK
<1>b. /\ queueOf[current] \in Queues /\ pending[queueOf[current]] # <<>>
      /\ Head(pending[queueOf[current]]) = current
  BY <1>a DEF IInv, Held
<1>1. Held'
  BY DEF IInv, TypeOK, Held, Dequeue, InHand, Rings, Started, commandVars, bindVars,
     issuerVars, hostVars
<1>2. Rings'
  <2>1. ASSUME NEW q \in Queues
        PROVE  \A i \in DOMAIN pending'[q] :
                 /\ queueOf[pending'[q][i]] = q
                 /\ status[pending'[q][i]] = "queued"
                 /\ \A j \in DOMAIN pending'[q] : pending'[q][i] = pending'[q][j] => i = j
    <3>1. CASE q = queueOf[current]
      <4>1. pending'[q] = Tail(pending[q]) /\ pending[q] \in Seq(Commands)
        BY <3>1, <1>a, <1>t
      <4>2. /\ 1 \in DOMAIN pending[q] /\ pending[q][1] = current
            /\ \A i \in DOMAIN pending'[q] :
                 i + 1 \in DOMAIN pending[q] /\ i + 1 # 1 /\ pending'[q][i] = pending[q][i + 1]
            /\ \A i, j \in DOMAIN pending'[q] : i + 1 = j + 1 => i = j
        BY <4>1, <3>1, <1>b, TailFacts
      <4> QED BY <4>2 DEF IInv, Rings
    <3>2. CASE q # queueOf[current]
      <4>1. pending'[q] = pending[q] /\ \A i \in DOMAIN pending[q] : pending[q][i] # current
        BY <3>2, <1>a, <1>t DEF IInv, Rings
      <4> QED BY <4>1 DEF IInv, Rings
    <3> QED BY <3>1, <3>2
  <2> QED BY <2>1, <1>a DEF IInv, Rings
<1>3. InReady'
  BY DEF IInv, InReady, Dequeue
<1>4. Issuing'
  BY DEF IInv, Issuing, Dequeue, IsComplete, issuerVars
<1>5. Chained'
  BY DEF IInv, Chained, Dequeue, issuerVars
<1>6. InHand'
  BY DEF IInv, TypeOK, InHand, Dequeue, Started, Held, Rings, commandVars, bindVars,
     issuerVars, hostVars
<1>7. Numbered'
  BY DEF IInv, Numbered, Dequeue, commandVars
<1>8. StillWaits'
  BY DEF IInv, StillWaits, Dequeue, IsComplete, commandVars
<1>9. InOrderExecution'
  BY DEF IInv, InOrderExecution, Dequeue, Started, IsComplete, commandVars
<1>10. WaitListRespected'
  BY DEF IInv, WaitListRespected, Dequeue, Started, IsComplete, commandVars
<1> QED BY <1>1, <1>2, <1>3, <1>4, <1>5, <1>6, <1>7, <1>8, <1>9, <1>10 DEF Parts

(* An issuer takes a command.                                              *)
LEMMA TakeReadyPreserves ==
  ASSUME IInv, NEW d \in Devices,
         TakeReady(d)
  PROVE  Parts'
<1> USE CommandsAssumption, BoundsAssumption DEF Events, Work
<1>a. /\ issuerAt[d] = "wait" /\ ready[d] # <<>>
      /\ executing' = [executing EXCEPT ![d] = Head(ready[d])]
      /\ status' = [status EXCEPT ![Head(ready[d])] = "running"]
      /\ issuerAt' = [issuerAt EXCEPT ![d] = "execute"]
      /\ UNCHANGED <<current, schedAt, queueOf, pending, callback>>
  BY DEF TakeReady, commandVars, queueVars, schedVars
<1>t. /\ ready[d] \in Seq(Work) /\ executing \in [Devices -> Work \cup {None}]
      /\ issuerAt \in [Devices -> {"wait", "execute", "callbacks", "invoke"}]
      /\ status \in [Events -> Statuses] /\ callback \in [Work -> Clones \cup {None}]
  BY DEF IInv, TypeOK
<1>b. Head(ready[d]) \in Work /\ status[Head(ready[d])] = "submitted"
  BY <1>a, <1>t, TailFacts DEF IInv, InReady
<1>c. \A f \in Devices : executing[f] # Head(ready[d])
  BY <1>b, <1>t DEF IInv, Held, Issuing, IsComplete
<1>1. Held'
  BY <1>a, <1>b, <1>c, <1>t DEF IInv, Held
<1>2. Rings'
  BY DEF IInv, TypeOK, Rings, TakeReady, Held, InReady, Issuing, IsComplete, queueVars,
     commandVars, bindVars, schedVars, hostVars
<1>3. InReady'
  BY DEF IInv, TypeOK, InReady, TakeReady, Held, Issuing, IsComplete, queueVars, commandVars,
     bindVars, schedVars, hostVars
<1>4. Issuing'
  BY DEF IInv, TypeOK, Issuing, TakeReady, IsComplete, Held, InReady, queueVars, commandVars,
     bindVars, schedVars, hostVars
<1>5. Chained'
  BY <1>a, <1>b, <1>c, <1>t DEF IInv, Chained
<1>6. InHand'
  BY DEF IInv, TypeOK, InHand, TakeReady, Started, Held, InReady, Issuing, IsComplete,
     queueVars, commandVars, bindVars, schedVars, hostVars
<1>7. Numbered'
  BY DEF IInv, Numbered, TakeReady, queueVars, commandVars
<1>e. \A e \in Events : \/ status'[e] = status[e]
                        \/ status[e] = "submitted" /\ status'[e] = "running"
  BY <1>a, <1>b, <1>t
<1>f. UNCHANGED <<deps, waits, queueOf, ticket>>
  BY DEF TakeReady, commandVars
<1>d. \A c \in Commands : c \in Events /\ deps[c] \subseteq Events
  BY DEF IInv, TypeOK
<1>8. StillWaits'
  BY <1>e, <1>f, <1>d DEF IInv, StillWaits, IsComplete
<1>9. InOrderExecution'
  BY <1>e, <1>f, <1>d DEF IInv, InOrderExecution, IsComplete, Started
<1>10. WaitListRespected'
  BY <1>e, <1>f, <1>d DEF IInv, WaitListRespected, IsComplete, Started
<1> QED BY <1>1, <1>2, <1>3, <1>4, <1>5, <1>6, <1>7, <1>8, <1>9, <1>10 DEF Parts

(* A command completes.                                                    *)
LEMMA SetAsCompletePreserves ==
  ASSUME IInv, NEW d \in Devices, NEW s \in Outcomes,
         SetAsComplete(d, s)
  PROVE  Parts'
<1> USE CommandsAssumption, BoundsAssumption DEF Events, Work
<1>a. /\ issuerAt[d] = "execute"
      /\ issuerAt' = [issuerAt EXCEPT ![d] = "callbacks"]
      /\ status' = [status EXCEPT ![executing[d]] = s]
      /\ UNCHANGED executing
  BY DEF SetAsComplete
<1>t. /\ status \in [Events -> Statuses] /\ s \in {"complete", "error"}
      /\ issuerAt \in [Devices -> {"wait", "execute", "callbacks", "invoke"}]
      /\ executing \in [Devices -> Work \cup {None}]
  BY DEF IInv, TypeOK
<1>b. executing[d] \in Work /\ \A f \in Devices : f # d => executing[f] # executing[d]
  BY <1>a, <1>t DEF IInv, Held
<1>1. Held'
  BY DEF IInv, TypeOK, Held, SetAsComplete, InReady, Issuing, IsComplete, queueVars,
     commandVars, bindVars, schedVars, hostVars
<1>2. Rings'
  BY DEF IInv, TypeOK, Rings, SetAsComplete, Held, InReady, Issuing, IsComplete, queueVars,
     commandVars, bindVars, schedVars, hostVars
<1>3. InReady'
  BY DEF IInv, TypeOK, InReady, SetAsComplete, Held, Issuing, IsComplete, queueVars,
     commandVars, bindVars, schedVars, hostVars
<1>4. Issuing'
  <2> SUFFICES ASSUME NEW f \in Devices
               PROVE  /\ issuerAt'[f] = "execute" => status'[executing[f]] = "running"
                      /\ issuerAt'[f] \in {"callbacks", "invoke"} => IsComplete(executing[f])'
    BY <1>a DEF Issuing, IsComplete
  <2>1. CASE f = d
    BY <2>1, <1>a, <1>b, <1>t DEF IsComplete
  <2>2. CASE f # d
    <3>1. issuerAt'[f] = issuerAt[f] /\ status'[executing[f]] = status[executing[f]]
      BY <2>2, <1>a, <1>b, <1>t
    <3> QED BY <3>1, <1>a DEF IInv, Issuing, IsComplete
  <2> QED BY <2>1, <2>2
<1>5. Chained'
  <2> SUFFICES ASSUME NEW r \in Work, callback[r] # None
               PROVE  /\ status'[callback[r]] # "none"
                      /\ (\A f \in Devices : executing[f] = r => issuerAt'[f] # "invoke") =>
                           /\ status'[callback[r]] = "queued"
                           /\ \A x \in Work : callback[x] = callback[r] => x = r
    BY <1>a DEF Chained, SetAsComplete
  <2>1. status'[callback[r]] = status[callback[r]] \/ callback[r] = executing[d]
    BY <1>a, <1>t
  <2>2. status[executing[d]] = "running" /\ status'[executing[d]] \in {"complete", "error"}
    BY <1>a, <1>b, <1>t DEF IInv, Issuing
  <2>3. \A f \in Devices : issuerAt'[f] # "invoke" => issuerAt[f] # "invoke"
    BY <1>a, <1>t
  <2> QED BY <2>1, <2>2, <2>3 DEF IInv, Chained
<1>6. InHand'
  BY DEF IInv, TypeOK, InHand, SetAsComplete, Started, Held, InReady, Issuing, IsComplete,
     queueVars, commandVars, bindVars, schedVars, hostVars
<1>7. Numbered'
  BY DEF IInv, Numbered, SetAsComplete, queueVars, commandVars
<1>8. StillWaits'
  BY DEF IInv, TypeOK, StillWaits, SetAsComplete, IsComplete, Held, InReady, Issuing,
     queueVars, commandVars, bindVars, schedVars, hostVars
<1>9. InOrderExecution'
  BY DEF IInv, TypeOK, InOrderExecution, SetAsComplete, Started, IsComplete, Held, InReady,
     Issuing, queueVars, commandVars, bindVars, schedVars, hostVars
<1>10. WaitListRespected'
  BY DEF IInv, TypeOK, WaitListRespected, SetAsComplete, Started, IsComplete, Held, InReady,
     Issuing, queueVars, commandVars, bindVars, schedVars, hostVars
<1> QED BY <1>1, <1>2, <1>3, <1>4, <1>5, <1>6, <1>7, <1>8, <1>9, <1>10 DEF Parts

(* The callback of a read submits its write.                               *)
LEMMA RunCallbacksPreserves ==
  ASSUME IInv, NEW d \in Devices,
         RunCallbacks(d)
  PROVE  Parts'
<1> USE CommandsAssumption, BoundsAssumption DEF Events, Work
<1> DEFINE w == callback[executing[d]]
<1>a. /\ issuerAt[d] = "callbacks"
      /\ issuerAt' = [issuerAt EXCEPT ![d] = "invoke"]
      /\ w = None => UNCHANGED <<status, ready>>
      /\ w # None => /\ status' = [status EXCEPT ![w] = "submitted"]
                     /\ ready' = [ready EXCEPT ![bound[w]] = Append(@, w)]
      /\ UNCHANGED <<current, schedAt, queueOf, waits, deps, ticket, issued, last, pending,
                     callback, executing>>
  BY DEF RunCallbacks, commandVars, queueVars, schedVars
<1>t. /\ executing[d] \in Work /\ w \in Clones \cup {None}
      /\ status \in [Events -> Statuses]
      /\ issuerAt \in [Devices -> {"wait", "execute", "callbacks", "invoke"}]
      /\ current \in Commands \cup {None}
      /\ \A f \in Devices : \A i \in DOMAIN ready[f] : ready[f][i] \in Work
      /\ \A q \in Queues : \A i \in DOMAIN pending[q] : pending[q][i] \in Commands
  BY <1>a DEF IInv, TypeOK, Held
<1>b. w # None => status[w] = "queued"
  BY <1>a, <1>t DEF IInv, Held, Chained
<1>c. /\ \A e \in Events : e # w => status'[e] = status[e]
      /\ w # None => status'[w] = "submitted"
  BY <1>a, <1>t
<1>1. Held'
  BY DEF IInv, TypeOK, Held, RunCallbacks, InReady, Issuing, IsComplete, queueVars,
     commandVars, bindVars, schedVars, hostVars
<1>2. Rings'
  BY <1>a, <1>c, <1>t DEF IInv, Rings
<1>3. InReady'
  <2>1. CASE w = None
    BY <2>1, <1>a DEF IInv, InReady
  <2>2. CASE w # None
    <3>1. \A f \in Devices : \A i \in DOMAIN ready[f] :
            ready[f][i] # w /\ status'[ready[f][i]] = "submitted"
      BY <2>2, <1>b, <1>c, <1>t DEF IInv, InReady
    <3>2. w \in Work /\ ready' = [ready EXCEPT ![bound[w]] = Append(@, w)] /\ status'[w] = "submitted"
      BY <2>2, <1>a, <1>c, <1>t
    <3> HIDE DEF w
    <3> QED BY <3>1, <3>2, ReadyAppend DEF IInv
  <2> QED BY <2>1, <2>2
<1>4. Issuing'
  <2> SUFFICES ASSUME NEW f \in Devices
               PROVE  /\ issuerAt'[f] = "execute" => status'[executing[f]] = "running"
                      /\ issuerAt'[f] \in {"callbacks", "invoke"} => IsComplete(executing[f])'
    BY <1>a DEF Issuing, IsComplete
  <2>1. issuerAt'[f] # "wait" => issuerAt[f] # "wait" /\ executing[f] \in Work
    BY <1>a, <1>t DEF IInv, TypeOK, Held
  <2>2. issuerAt[f] # "wait" => executing[f] # w
    <3>1. issuerAt[f] \in {"execute", "callbacks", "invoke"} =>
            status[executing[f]] \in {"running", "complete", "error"}
      BY DEF IInv, Issuing, IsComplete
    <3>2. issuerAt[f] # "wait" => issuerAt[f] \in {"execute", "callbacks", "invoke"}
      BY <1>t
    <3>3. issuerAt[f] # "wait" => executing[f] # None
      BY DEF IInv, Held
    <3> QED BY <1>b, <3>1, <3>2, <3>3
  <2>3. issuerAt'[f] = "execute" => issuerAt[f] = "execute"
    BY <1>a, <1>t
  <2>4. issuerAt'[f] \in {"callbacks", "invoke"} => issuerAt[f] \in {"callbacks", "invoke"}
    BY <1>a, <1>t
  <2>5. issuerAt'[f] # "wait" => status'[executing[f]] = status[executing[f]]
    BY <2>1, <2>2, <1>c
  <2> HIDE DEF w
  <2> QED BY <2>3, <2>4, <2>5, <1>a DEF IInv, Issuing, IsComplete
<1>5. Chained'
  BY DEF IInv, TypeOK, Chained, RunCallbacks, Held, InReady, Issuing, IsComplete, queueVars,
     commandVars, bindVars, schedVars, hostVars
<1>6. InHand'
  <2>1. current # None => current \in Work /\ current # w /\ status'[current] = status[current]
    BY <1>c, <1>t
  <2>2. \A f \in Devices : \A i \in DOMAIN ready'[f] :
          ready'[f][i] # w => i \in DOMAIN ready[f] /\ ready'[f][i] = ready[f][i]
    <3>1. CASE w = None
      BY <3>1, <1>a
    <3>2. CASE w # None
      <4> SUFFICES ASSUME NEW f \in Devices, NEW i \in DOMAIN ready'[f], ready'[f][i] # w
                   PROVE  i \in DOMAIN ready[f] /\ ready'[f][i] = ready[f][i]
        OBVIOUS
      <4>1. ready[f] \in Seq(Work) /\ w \in Work
        BY <3>2, <1>t DEF IInv, TypeOK
      <4>2. ready'[f] = IF f = bound[w] THEN Append(ready[f], w) ELSE ready[f]
        BY <3>2, <1>a DEF IInv, TypeOK
      <4> QED BY <4>1, <4>2, AppendFacts
    <3> QED BY <3>1, <3>2
  <2>3. current # None \/ schedAt \in {"wait", "scan"}
    BY DEF IInv, Held
  <2> QED BY <2>1, <2>2, <2>3, <1>a DEF IInv, InHand, Started
<1>7. Numbered'
  BY <1>a, <1>c, <1>t, CommandFrame DEF IInv
<1>8. StillWaits'
  BY <1>a, <1>c, <1>t, CommandFrame DEF IInv
<1>9. InOrderExecution'
  BY <1>a, <1>c, <1>t, CommandFrame DEF IInv
<1>10. WaitListRespected'
  BY <1>a, <1>c, <1>t, CommandFrame DEF IInv
<1> QED BY <1>1, <1>2, <1>3, <1>4, <1>5, <1>6, <1>7, <1>8, <1>9, <1>10 DEF Parts

(* The command is deleted.                                                 *)
LEMMA IssuerInvokePreserves ==
  ASSUME IInv, NEW d \in Devices,
         IssuerInvoke(d)
  PROVE  Parts'
<1> USE CommandsAssumption, BoundsAssumption DEF Events, Work
<1>a. /\ issuerAt[d] = "invoke"
      /\ issuerAt' = [issuerAt EXCEPT ![d] = "wait"]
      /\ executing' = [executing EXCEPT ![d] = None]
      /\ callback' = [callback EXCEPT ![executing[d]] = None]
      /\ UNCHANGED <<status, schedAt, current, queueOf, pending>>
  BY DEF IssuerInvoke, commandVars, queueVars, schedVars
<1>t. /\ executing \in [Devices -> Work \cup {None}] /\ callback \in [Work -> Clones \cup {None}]
      /\ issuerAt \in [Devices -> {"wait", "execute", "callbacks", "invoke"}]
  BY DEF IInv, TypeOK
<1>b. \A r \in Work : callback'[r] # None => r # executing[d] /\ callback'[r] = callback[r]
  BY <1>a, <1>t
<1>1. Held'
  BY DEF IInv, TypeOK, Held, IssuerInvoke, InReady, Issuing, IsComplete, queueVars,
     commandVars, schedVars, hostVars
<1>2. Rings'
  BY DEF IInv, Rings, IssuerInvoke, queueVars, commandVars, schedVars
<1>3. InReady'
  BY DEF IInv, InReady, IssuerInvoke
<1>4. Issuing'
  BY DEF IInv, TypeOK, Issuing, IssuerInvoke, IsComplete, Held, InReady, queueVars,
     commandVars, schedVars, hostVars
<1>5. Chained'
  <2> SUFFICES ASSUME NEW r \in Work, callback'[r] # None
               PROVE  /\ status[callback[r]] # "none"
                      /\ (\A f \in Devices : executing'[f] = r => issuerAt'[f] # "invoke") =>
                           /\ status[callback[r]] = "queued"
                           /\ \A s \in Work : callback'[s] = callback[r] => s = r
    BY <1>a, <1>b DEF Chained
  <2>1. callback[r] # None /\ r # executing[d]
    BY <1>b
  <2>2. \A f \in Devices : executing[f] = r => executing'[f] = r /\ issuerAt'[f] = issuerAt[f]
    BY <2>1, <1>a, <1>t
  <2>3. \A s \in Work : callback'[s] = callback[r] => callback[s] = callback[r]
    BY <2>1, <1>b
  <2> QED BY <2>1, <2>2, <2>3 DEF IInv, Chained
<1>6. InHand'
  BY DEF IInv, InHand, IssuerInvoke, Started, schedVars
<1>7. Numbered'
  BY DEF IInv, Numbered, IssuerInvoke, queueVars, commandVars
<1>8. StillWaits'
  BY DEF IInv, StillWaits, IssuerInvoke, IsComplete, commandVars
<1>9. InOrderExecution'
  BY DEF IInv, InOrderExecution, IssuerInvoke, Started, IsComplete, commandVars
<1>10. WaitListRespected'
  BY DEF IInv, WaitListRespected, IssuerInvoke, Started, IsComplete, commandVars
<1> QED BY <1>1, <1>2, <1>3, <1>4, <1>5, <1>6, <1>7, <1>8, <1>9, <1>10 DEF Parts
=============================================================================
