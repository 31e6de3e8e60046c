------------------------ MODULE QueueLifetime_proofs ------------------------
(***************************************************************************)
(* The life of command queues, for any number of queues, commands and      *)
(* threads: references are exact, so one thread destroys a queue and       *)
(* nobody uses it then; and the scheduler has forgotten a queue that is    *)
(* freed.                                                                  *)
(***************************************************************************)
EXTENDS QueueLifetime, FiniteSetTheorems, TLAPS

Carriers == Issuers \cup {Scheduler}

Ends == {"remove", "parked", "removed"}

(* Where the threads may be, and the command they have in hand there. *)
Hands ==
  /\ \A h \in Hosts : at[h] \in {"idle", "construct", "wait", "blocked", "event"} \cup Ends
  /\ \A i \in Issuers : at[i] \in {"idle", "execute", "delete", "event"} \cup Ends
  /\ at[Scheduler] \in {"idle", "update", "scan", "submit", "dequeue", "delete", "event"} \cup Ends
  /\ \A t \in Threads :
       command[t] # None <=> at[t] \in {"wait", "blocked", "submit", "execute", "delete", "event"}
  /\ \A h \in Hosts : command[h] # None => state[command[h]] # "new"
  /\ \A t \in Carriers :
       /\ at[t] = "submit" => state[command[t]] = "pending" /\ waitsOn[command[t]] = None
       /\ at[t] = "execute" => state[command[t]] = "running"
       /\ at[t] = "delete" => state[command[t]] = "complete"
       /\ at[t] = "event" => state[command[t]] = "deleted"
  /\ \A t, u \in Carriers : command[t] = command[u] /\ command[t] # None => t = u

(* The events that a queue and its commands refer to, each in one place. *)
Chain ==
  /\ \A c \in Commands : state[c] = "new" <=> queueOf[c] = None
  /\ \A c \in Commands : state[c] = "new" => waitsOn[c] = None /\ c \notin kept /\ evRefs[c] = 0
  /\ \A q \in Queues : last[q] # None => queueOf[last[q]] = q
  /\ \A b \in Commands : waitsOn[b] # None =>
       /\ state[b] = "pending" /\ queueOf[waitsOn[b]] = queueOf[b]
       /\ \A q \in Queues : last[q] # waitsOn[b]
  /\ \A a, b \in Commands : waitsOn[a] = waitsOn[b] /\ waitsOn[a] # None => a = b

(* One thread makes a queue, and one destroys it, unlisted before it goes  *)
(* on. *)
Removal ==
  /\ \A t \in Threads : at[t] \in Ends \cup {"construct"} => object[t] \in Queues
  /\ \A t \in Threads : at[t] = "construct" => life[object[t]] = "constructing"
  /\ \A t \in Threads : at[t] \in Ends => life[object[t]] = "destroying"
  /\ \A t, u \in Threads :
       at[t] \in Ends \cup {"construct"} /\ at[u] \in Ends \cup {"construct"} /\ object[t] = object[u] => t = u
  /\ \A t \in Threads : at[t] = "parked" => object[t] \notin listed /\ updated
  /\ \A t \in Threads : at[t] = "removed" => object[t] \notin listed \cup targets
  /\ FreedIsForgotten

(* Commands are enqueued when the queue is constructed. *)
Constructed ==
  \A c \in Commands : queueOf[c] # None => life[queueOf[c]] \notin {"none", "constructing"}

IInv ==
  /\ TypeOK /\ Hands /\ Chain /\ Removal /\ Constructed
  /\ RefsExact /\ NullsArePending

-----------------------------------------------------------------------------

Gone == {"none", "destroying", "freed"}

LEMMA Finite ==
  /\ IsFiniteSet(Threads)
  /\ \A q : IsFiniteSet(Alive(q)) /\ IsFiniteSet(Events(q))
  /\ \A c : IsFiniteSet(EventUsers(c))
  /\ IsFiniteSet({t \in Threads : at[t] = "parked"})
<1>1. IsFiniteSet({Scheduler}) BY FS_Singleton
<1>2. IsFiniteSet(Threads)
  BY <1>1, FS_Union, LifetimeAssumption DEF Threads
<1>3. \A c : EventUsers(c) \subseteq Threads
  BY DEF EventUsers, Threads
<1>4. \A q : Alive(q) \subseteq Commands /\ Events(q) \subseteq Commands
  BY DEF Alive, Events
<1> QED BY <1>2, <1>3, <1>4, FS_Subset, LifetimeAssumption

LEMMA Counts ==
  /\ \A q : Cardinality(Alive(q)) \in Nat /\ Cardinality(Events(q)) \in Nat
  /\ \A c : Cardinality(EventUsers(c)) \in Nat
  /\ \A q : Alive(q) # {} => Cardinality(Alive(q)) # 0
  /\ \A q : Events(q) # {} => Cardinality(Events(q)) # 0
  /\ \A c : EventUsers(c) # {} => Cardinality(EventUsers(c)) # 0
<1>1. \A S : IsFiniteSet(S) => Cardinality(S) \in Nat /\ (S # {} => Cardinality(S) # 0)
  BY FS_CardinalityType, FS_EmptySet
<1> QED BY <1>1, Finite

LEMMA OneMore ==
  ASSUME NEW S, IsFiniteSet(S), NEW x
  PROVE  /\ x \notin S => Cardinality(S \cup {x}) = Cardinality(S) + 1
         /\ x \in S => Cardinality(S \ {x}) = Cardinality(S) - 1
<1>1. x \notin S => Cardinality(S \cup {x}) = Cardinality(S) + 1
  BY FS_AddElement
<1>2. x \in S => Cardinality(S \ {x}) = Cardinality(S) - 1
  BY FS_RemoveElement
<1> QED BY <1>1, <1>2

(* The references to the event of a command, besides those of threads. *)
Own(c) == One(state[c] \notin {"new", "deleted"})
OfApp(c) == One(c \in kept)
OfQueue(c) == One(\E q \in Queues : last[q] = c)
OfNext(c) == One(\E b \in Commands : waitsOn[b] = c)

LEMMA Exact ==
  ASSUME IInv
  PROVE  /\ \A q \in Queues : refs[q] = handles[q] + Cardinality(Alive(q)) + Cardinality(Events(q))
         /\ \A q \in Queues : refs[q] = 0 <=> life[q] \in Gone
         /\ \A c \in Commands :
              evRefs[c] = Cardinality(EventUsers(c)) + Own(c) + OfApp(c) + OfQueue(c) + OfNext(c)
         /\ \A c \in Commands : /\ Own(c) \in {0, 1} /\ OfApp(c) \in {0, 1}
                               /\ OfQueue(c) \in {0, 1} /\ OfNext(c) \in {0, 1}
<1>1. \A c \in Commands : /\ Own(c) \in {0, 1} /\ OfApp(c) \in {0, 1}
                        /\ OfQueue(c) \in {0, 1} /\ OfNext(c) \in {0, 1}
  BY DEF Own, OfApp, OfQueue, OfNext, One
<1>2. /\ \A q \in Queues : refs[q] = handles[q] + Cardinality(Alive(q)) + Cardinality(Events(q))
      /\ \A q \in Queues : refs[q] = 0 <=> life[q] \in Gone
  BY DEF IInv, RefsExact, Gone
<1>3. \A c \in Commands :
        evRefs[c] = Cardinality(EventUsers(c)) + Own(c) + OfApp(c) + OfQueue(c) + OfNext(c)
  BY Zenon DEF IInv, RefsExact, Own, OfApp, OfQueue, OfNext
<1> QED BY <1>1, <1>2, <1>3, Zenon

LEMMA Recount ==
  ASSUME \A q \in Queues : refs'[q] = handles'[q] + Cardinality(Alive(q)') + Cardinality(Events(q)'),
         \A q \in Queues : refs'[q] = 0 <=> life'[q] \in Gone,
         \A c \in Commands :
           evRefs'[c] = Cardinality(EventUsers(c)') + Own(c)' + OfApp(c)' + OfQueue(c)' + OfNext(c)'
  PROVE  RefsExact'
<1>1. \A q \in Queues : /\ (refs[q] = handles[q] + Cardinality(Alive(q)) + Cardinality(Events(q)))'
                      /\ (refs[q] = 0 <=> life[q] \in {"none", "destroying", "freed"})'
  BY DEF Gone
<1>2. \A c \in Commands :
        (evRefs[c] = Cardinality(EventUsers(c))
                     + One(state[c] \notin {"new", "deleted"})
                     + One(c \in kept)
                     + One(\E q \in Queues : last[q] = c)
                     + One(\E b \in Commands : waitsOn[b] = c))'
  BY Zenon DEF Own, OfApp, OfQueue, OfNext
<1> QED BY <1>1, <1>2, Zenon DEF RefsExact

(* The references do not change. *)
LEMMA RefsFrame ==
  ASSUME IInv, UNCHANGED <<refs, handles, evRefs, kept, last, waitsOn, queueOf>>,
         \A c \in Commands : state'[c] = "deleted" <=> state[c] = "deleted",
         \A c \in Commands : state'[c] = "new" <=> state[c] = "new",
         \A q \in Queues : life'[q] \in Gone <=> life[q] \in Gone,
         \A e \in Commands : EventUsers(e)' = EventUsers(e)
  PROVE  RefsExact'
<1>1. \A q : Alive(q)' = Alive(q) /\ Events(q)' = Events(q)
  BY DEF Alive, Events
<1>2. \A c \in Commands : Own(c)' = Own(c) /\ OfApp(c)' = OfApp(c)
  BY DEF Own, OfApp, One
<1>3. \A c \in Commands : OfQueue(c)' = OfQueue(c) /\ OfNext(c)' = OfNext(c)
  BY DEF OfQueue, OfNext, One
<1>4. /\ \A q \in Queues : refs'[q] = handles'[q] + Cardinality(Alive(q)') + Cardinality(Events(q)')
      /\ \A q \in Queues : refs'[q] = 0 <=> life'[q] \in Gone
  BY <1>1, Exact
<1>5. \A c \in Commands :
        evRefs'[c] = Cardinality(EventUsers(c)') + Own(c)' + OfApp(c)' + OfQueue(c)' + OfNext(c)'
  BY <1>2, <1>3, Exact
<1> QED BY <1>4, <1>5, Recount

LEMMA NullsFrame ==
  ASSUME NullsArePending, nulls' = nulls,
         \A t \in Threads : at'[t] = "parked" <=> at[t] = "parked"
  PROVE  NullsArePending'
<1>1. {t \in Threads : at'[t] = "parked"} = {t \in Threads : at[t] = "parked"} OBVIOUS
<1> QED BY <1>1 DEF NullsArePending

LEMMA CreateQueueStep ==
  ASSUME IInv, NEW h \in Hosts, NEW q \in Queues, CreateQueue(h, q)
  PROVE  IInv'
<1>0. TypeOK /\ Hands /\ Chain /\ Removal /\ Constructed /\ RefsExact /\ NullsArePending
  BY DEF IInv
<1> USE <1>0, LifetimeAssumption DEF TypeOK, Places, Runs, Go, Threads, queueVars, listVars, passVars, cmdVars
<1>1. TypeOK' BY DEF CreateQueue, TypeOK
<1>2. Hands' BY DEF CreateQueue, Hands, Carriers, Ends
<1>3. Chain' BY DEF CreateQueue, Chain
<1>4. Removal' BY DEF CreateQueue, Removal, Ends, FreedIsForgotten, Hands
<1>5. Constructed' BY DEF CreateQueue, Constructed
<1>6. RefsExact'
  <2>1. Alive(q) = {} /\ Events(q) = {}
    BY DEF CreateQueue, Constructed, Alive, Events, RefsExact, Chain
  <2>2. \A p : Alive(p)' = Alive(p) /\ Events(p)' = Events(p)
    BY DEF CreateQueue, Alive, Events
  <2>3. \A d \in Commands : /\ EventUsers(d)' = EventUsers(d) /\ Own(d)' = Own(d)
                           /\ OfApp(d)' = OfApp(d) /\ OfQueue(d)' = OfQueue(d)
                           /\ OfNext(d)' = OfNext(d)
    BY DEF CreateQueue, Runs, Go, EventUsers, Hands, Carriers, Own, OfApp, OfQueue, OfNext
  <2>4. \A p \in Queues : refs'[p] = handles'[p] + Cardinality(Alive(p)') + Cardinality(Events(p)')
    <3>1. refs'[q] = 1 /\ handles'[q] = 1 /\ Cardinality(Alive(q)') = 0 /\ Cardinality(Events(q)') = 0
      BY <2>1, <2>2, FS_EmptySet DEF CreateQueue
    <3>2. \A p \in Queues : p # q => refs'[p] = refs[p] /\ handles'[p] = handles[p]
      BY DEF CreateQueue
    <3> QED BY <3>1, <3>2, <2>2, Exact, Counts
  <2>5. \A p \in Queues : refs'[p] = 0 <=> life'[p] \in Gone
    BY Exact DEF CreateQueue, Gone
  <2>6. \A d \in Commands :
          evRefs'[d] = Cardinality(EventUsers(d)') + Own(d)' + OfApp(d)' + OfQueue(d)' + OfNext(d)'
    BY <2>3, Exact DEF CreateQueue
  <2> QED BY <2>4, <2>5, <2>6, Recount
<1>7. NullsArePending' BY NullsFrame DEF CreateQueue
<1> QED BY <1>1, <1>2, <1>3, <1>4, <1>5, <1>6, <1>7 DEF IInv

LEMMA RetainQueueStep ==
  ASSUME IInv, NEW h \in Hosts, NEW q \in Queues, RetainQueue(h, q)
  PROVE  IInv'
<1>0. TypeOK /\ Hands /\ Chain /\ Removal /\ Constructed /\ RefsExact /\ NullsArePending
  BY DEF IInv
<1> USE <1>0, LifetimeAssumption DEF TypeOK, Places, Runs, Go, Threads, queueVars, listVars, passVars, cmdVars
<1>1. TypeOK' BY DEF RetainQueue, Uses, TypeOK
<1>2. Hands' BY DEF RetainQueue, Uses, Hands, Carriers, Ends
<1>3. Chain' BY DEF RetainQueue, Uses, Chain
<1>4. Removal' BY DEF RetainQueue, Uses, Removal, Ends, FreedIsForgotten, Hands
<1>5. Constructed' BY DEF RetainQueue, Uses, Constructed
<1>6. RefsExact'
  <2>1. \A p : Alive(p)' = Alive(p) /\ Events(p)' = Events(p)
    BY DEF RetainQueue, Alive, Events
  <2>2. \A d \in Commands : /\ EventUsers(d)' = EventUsers(d) /\ Own(d)' = Own(d)
                           /\ OfApp(d)' = OfApp(d) /\ OfQueue(d)' = OfQueue(d)
                           /\ OfNext(d)' = OfNext(d)
    BY DEF RetainQueue, EventUsers, Own, OfApp, OfQueue, OfNext
  <2>3. \A p \in Queues : refs'[p] = handles'[p] + Cardinality(Alive(p)') + Cardinality(Events(p)')
    BY <2>1, Exact, Counts DEF RetainQueue
  <2>4. \A p \in Queues : refs'[p] = 0 <=> life'[p] \in Gone
    BY Exact DEF RetainQueue, Gone, Uses
  <2>5. \A d \in Commands :
          evRefs'[d] = Cardinality(EventUsers(d)') + Own(d)' + OfApp(d)' + OfQueue(d)' + OfNext(d)'
    BY <2>2, Exact DEF RetainQueue
  <2> QED BY <2>3, <2>4, <2>5, Recount
<1>7. NullsArePending' BY NullsFrame DEF RetainQueue, Uses
<1> QED BY <1>1, <1>2, <1>3, <1>4, <1>5, <1>6, <1>7 DEF IInv

LEMMA ReleaseHandleStep ==
  ASSUME IInv, NEW h \in Hosts, NEW q \in Queues, ReleaseHandle(h, q)
  PROVE  IInv'
<1>0. TypeOK /\ Hands /\ Chain /\ Removal /\ Constructed /\ RefsExact /\ NullsArePending
  BY DEF IInv
<1> USE <1>0, LifetimeAssumption DEF TypeOK, Places, Runs, Go, Threads, queueVars, listVars, passVars, cmdVars
<1>a. /\ at[h] = "idle" /\ life[q] = "alive" /\ handles[q] > 0 /\ refs[q] > 0
      /\ handles' = [handles EXCEPT ![q] = @ - 1] /\ refs' = [refs EXCEPT ![q] = @ - 1]
      /\ UNCHANGED <<last, listed, nulls, updated, posts, targets, todo, state, queueOf, waitsOn,
                     evRefs, kept, command, fault>>
  BY Exact, Counts DEF ReleaseHandle, ReleaseQueue, Uses, Runs
<1>b. \/ /\ refs[q] = 1 /\ life' = [life EXCEPT ![q] = "destroying"]
         /\ object' = [object EXCEPT ![h] = q] /\ at' = [at EXCEPT ![h] = "remove"]
      \/ refs[q] # 1 /\ UNCHANGED <<life, object, at>>
  BY <1>a DEF ReleaseHandle, ReleaseQueue, Resumes, Go
<1>1. TypeOK' BY <1>a, <1>b DEF TypeOK
<1>2. Hands' BY <1>a, <1>b DEF Hands, Carriers, Ends
<1>3. Chain' BY <1>a, <1>b DEF Chain
<1>4. Removal' BY <1>a, <1>b DEF Removal, Ends, FreedIsForgotten, Hands
<1>5. Constructed' BY <1>a, <1>b DEF Constructed
<1>6. RefsExact'
  <2>1. \A p : Alive(p)' = Alive(p) /\ Events(p)' = Events(p)
    BY <1>a DEF Alive, Events
  <2>2. \A d \in Commands : /\ EventUsers(d)' = EventUsers(d) /\ Own(d)' = Own(d)
                           /\ OfApp(d)' = OfApp(d) /\ OfQueue(d)' = OfQueue(d)
                           /\ OfNext(d)' = OfNext(d)
    BY <1>a, <1>b DEF EventUsers, Own, OfApp, OfQueue, OfNext, Hands, Carriers
  <2>3. \A p \in Queues : refs'[p] = handles'[p] + Cardinality(Alive(p)') + Cardinality(Events(p)')
    BY <1>a, <2>1, Exact, Counts
  <2>4. \A p \in Queues : refs'[p] = 0 <=> life'[p] \in Gone
    BY <1>a, <1>b, Exact DEF Gone
  <2>5. \A d \in Commands :
          evRefs'[d] = Cardinality(EventUsers(d)') + Own(d)' + OfApp(d)' + OfQueue(d)' + OfNext(d)'
    BY <1>a, <2>2, Exact
  <2> QED BY <2>3, <2>4, <2>5, Recount
<1>7. NullsArePending' BY <1>a, <1>b, NullsFrame
<1> QED BY <1>1, <1>2, <1>3, <1>4, <1>5, <1>6, <1>7 DEF IInv

LEMMA EnqueueStep ==
  ASSUME IInv, NEW h \in Hosts, NEW q \in Queues, NEW c \in Commands, NEW how \in Manners, Enqueue(h, q, c, how)
  PROVE  IInv'
<1>0. TypeOK /\ Hands /\ Chain /\ Removal /\ Constructed /\ RefsExact /\ NullsArePending
  BY DEF IInv
<1> USE <1>0, LifetimeAssumption DEF TypeOK, Places, Runs, Go, Threads, queueVars, listVars, passVars, cmdVars
<1>a. /\ at[h] = "idle" /\ life[q] = "alive" /\ state[c] = "new" /\ queueOf[c] = None
      /\ command[h] = None /\ c \notin kept /\ evRefs[c] = 0 /\ waitsOn[c] = None
      /\ refs' = [refs EXCEPT ![q] = @ + 2]
      /\ state' = [state EXCEPT ![c] = "pending"] /\ queueOf' = [queueOf EXCEPT ![c] = q]
      /\ evRefs' = [evRefs EXCEPT ![c] = NewEventRefs(q, how)]
      /\ kept' = IF how = "event" THEN kept \cup {c} ELSE kept
      /\ UNCHANGED <<life, handles, listed, nulls, updated, targets, todo, object>>
  BY DEF Enqueue, NewQueueRefs, Uses, Runs, Hands, Chain
<1>b. \/ /\ q \in InOrder /\ waitsOn' = [waitsOn EXCEPT ![c] = last[q]]
         /\ last' = [last EXCEPT ![q] = c]
      \/ q \notin InOrder /\ UNCHANGED <<waitsOn, last>>
  BY DEF Enqueue
<1>c. \/ /\ how = "blocking" /\ command' = [command EXCEPT ![h] = c]
         /\ at' = [at EXCEPT ![h] = "wait"]
      \/ how # "blocking" /\ UNCHANGED <<command, at>>
  BY DEF Enqueue, Go
<1>d. /\ Cardinality(EventUsers(c)) = 0 /\ Own(c) = 0 /\ OfApp(c) = 0
      /\ OfQueue(c) = 0 /\ OfNext(c) = 0
  BY <1>a, Exact, Counts
<1>e. /\ EventUsers(c) = {}
      /\ \A p \in Queues : last[p] # c
      /\ \A b \in Commands : waitsOn[b] # c
  BY <1>d, Counts DEF OfQueue, OfNext, One
<1>f. NewEventRefs(q, how) \in Nat /\ NewEventRefs(q, how) > 0
  BY DEF NewEventRefs
<1>1. TypeOK'
  <2>1. posts' \in Nat
    BY DEF Enqueue
  <2> QED BY <1>a, <1>b, <1>c, <1>f, <2>1 DEF Enqueue
<1>2. Hands' BY <1>a, <1>b, <1>c, <1>e DEF Hands, Carriers, Ends
<1>3. Chain' BY <1>a, <1>b, <1>c, <1>e DEF Chain
<1>4. Removal' BY <1>a, <1>b, <1>c, <1>e DEF Removal, Ends, FreedIsForgotten, Hands
<1>5. Constructed' BY <1>a, <1>b, <1>c, <1>e DEF Constructed
<1>6. RefsExact'
  <2>1. /\ Alive(q)' = Alive(q) \cup {c} /\ c \notin Alive(q)
        /\ Events(q)' = Events(q) \cup {c} /\ c \notin Events(q)
        /\ \A p \in Queues : p # q => Alive(p)' = Alive(p) /\ Events(p)' = Events(p)
    BY <1>a, <1>f DEF Alive, Events
  <2>2. /\ Cardinality(Alive(q)') = Cardinality(Alive(q)) + 1
        /\ Cardinality(Events(q)') = Cardinality(Events(q)) + 1
    BY <2>1, Finite, OneMore
  <2>3. /\ \A d \in Commands : d # c => EventUsers(d)' = EventUsers(d)
        /\ EventUsers(c)' = IF how = "blocking" THEN {h} ELSE {}
    <3>1. \A d \in Commands : d # c => EventUsers(d)' = EventUsers(d)
      BY <1>a, <1>c DEF EventUsers, Hands
    <3>2. EventUsers(c)' = IF how = "blocking" THEN {h} ELSE {}
      BY <1>a, <1>c, <1>e DEF EventUsers, Hands, Carriers
    <3> QED BY <3>1, <3>2
  <2>4. Cardinality(EventUsers(c)') = IF how = "blocking" THEN 1 ELSE 0
    BY <2>3, FS_EmptySet, FS_Singleton
  <2>5. /\ Own(c)' = 1 /\ OfApp(c)' = (IF how = "event" THEN 1 ELSE 0)
        /\ \A d \in Commands : d # c => Own(d)' = Own(d) /\ OfApp(d)' = OfApp(d)
    BY <1>a DEF Own, OfApp, One
  <2>6. /\ OfQueue(c)' = (IF q \in InOrder THEN 1 ELSE 0)
        /\ OfNext(c)' = 0
    BY <1>a, <1>b, <1>e DEF OfQueue, OfNext, One
  <2>7. \A d \in Commands : d # c => OfQueue(d)' + OfNext(d)' = OfQueue(d) + OfNext(d)
    <3>1. CASE q \notin InOrder
      BY <3>1, <1>a, <1>b DEF OfQueue, OfNext
    <3>2. CASE q \in InOrder
      <4> SUFFICES ASSUME NEW d \in Commands, d # c
                   PROVE  OfQueue(d)' + OfNext(d)' = OfQueue(d) + OfNext(d)
        OBVIOUS
      <4>1. last' = [last EXCEPT ![q] = c] /\ waitsOn' = [waitsOn EXCEPT ![c] = last[q]]
        BY <3>2, <1>b
      <4>2. CASE d = last[q]
        <5>1. OfQueue(d) = 1 /\ OfQueue(d)' = 0
          BY <4>1, <4>2 DEF OfQueue, One, Chain
        <5>2. OfNext(d) = 0 /\ OfNext(d)' = 1
          BY <4>1, <4>2 DEF OfNext, One, Chain
        <5> QED BY <5>1, <5>2
      <4>3. CASE d # last[q]
        <5>1. OfQueue(d)' = OfQueue(d)
          BY <4>1, <4>3 DEF OfQueue, One
        <5>2. OfNext(d)' = OfNext(d)
          BY <4>1, <4>3, <1>a DEF OfNext, One
        <5> QED BY <5>1, <5>2
      <4> QED BY <4>2, <4>3
    <3> QED BY <3>1, <3>2
  <2>8. \A p \in Queues : refs'[p] = handles'[p] + Cardinality(Alive(p)') + Cardinality(Events(p)')
    <3>1. refs'[q] = refs[q] + 2 /\ \A p \in Queues : p # q => refs'[p] = refs[p]
      BY <1>a
    <3>2. refs'[q] = handles'[q] + Cardinality(Alive(q)') + Cardinality(Events(q)')
      BY <1>a, <3>1, <2>2, Exact, Counts
    <3>3. \A p \in Queues : p # q =>
            refs'[p] = handles'[p] + Cardinality(Alive(p)') + Cardinality(Events(p)')
      BY <1>a, <3>1, <2>1, Exact
    <3> QED BY <3>2, <3>3
  <2>9. \A p \in Queues : refs'[p] = 0 <=> life'[p] \in Gone
    BY <1>a, Exact DEF Gone
  <2>10. \A d \in Commands :
          evRefs'[d] = Cardinality(EventUsers(d)') + Own(d)' + OfApp(d)' + OfQueue(d)' + OfNext(d)'
    <3>1. evRefs'[c] = NewEventRefs(q, how)
      BY <1>a
    <3>2. NewEventRefs(q, how) = Cardinality(EventUsers(c)') + Own(c)' + OfApp(c)' + OfQueue(c)' + OfNext(c)'
      BY <2>4, <2>5, <2>6 DEF NewEventRefs, Manners
    <3>3. \A d \in Commands : d # c =>
            /\ evRefs'[d] = evRefs[d]
            /\ Cardinality(EventUsers(d)') = Cardinality(EventUsers(d))
            /\ Own(d)' = Own(d) /\ OfApp(d)' = OfApp(d)
            /\ OfQueue(d)' \in {0, 1} /\ OfNext(d)' \in {0, 1}
      BY <1>a, <2>3, <2>5 DEF OfQueue, OfNext, One
    <3> QED BY <3>1, <3>2, <3>3, <2>7, Exact, Counts
  <2> QED BY <2>8, <2>9, <2>10, Recount
<1>7. NullsArePending' BY <1>a, <1>b, <1>c, <1>e, NullsFrame
<1> QED BY <1>1, <1>2, <1>3, <1>4, <1>5, <1>6, <1>7 DEF IInv

LEMMA FlushStep ==
  ASSUME IInv, NEW h \in Hosts, NEW q \in Queues, Flush(h, q)
  PROVE  IInv'
<1>0. TypeOK /\ Hands /\ Chain /\ Removal /\ Constructed /\ RefsExact /\ NullsArePending
  BY DEF IInv
<1> USE <1>0, LifetimeAssumption DEF TypeOK, Places, Runs, Go, Threads, queueVars, listVars, passVars, cmdVars
<1>1. TypeOK' BY DEF Flush, Uses, TypeOK
<1>2. Hands' BY DEF Flush, Uses, Hands, Carriers, Ends
<1>3. Chain' BY DEF Flush, Uses, Chain
<1>4. Removal' BY DEF Flush, Uses, Removal, Ends, FreedIsForgotten, Hands
<1>5. Constructed' BY DEF Flush, Uses, Constructed
<1>6. RefsExact'
  <2>1. \A e \in Commands : EventUsers(e)' = EventUsers(e)
    BY DEF Flush, Uses, EventUsers, Hands, Carriers
  <2> QED BY <2>1, RefsFrame DEF Flush, Uses, Gone, Hands, Removal, Ends, Chain
<1>7. NullsArePending' BY NullsFrame DEF Flush, Uses
<1> QED BY <1>1, <1>2, <1>3, <1>4, <1>5, <1>6, <1>7 DEF IInv

LEMMA ConstructQueueStep ==
  ASSUME IInv, NEW h \in Hosts, ConstructQueue(h)
  PROVE  IInv'
<1>0. TypeOK /\ Hands /\ Chain /\ Removal /\ Constructed /\ RefsExact /\ NullsArePending
  BY DEF IInv
<1> USE <1>0, LifetimeAssumption DEF TypeOK, Places, Runs, Go, Threads, queueVars, listVars, passVars, cmdVars
<1>1. TypeOK' BY DEF ConstructQueue, TypeOK
<1>2. Hands' BY DEF ConstructQueue, Hands, Carriers, Ends
<1>3. Chain' BY DEF ConstructQueue, Chain
<1>4. Removal' BY DEF ConstructQueue, Removal, Ends, FreedIsForgotten, Hands
<1>5. Constructed' BY DEF ConstructQueue, Constructed
<1>6. RefsExact'
  <2>1. \A e \in Commands : EventUsers(e)' = EventUsers(e)
    BY DEF ConstructQueue, EventUsers, Hands, Carriers
  <2> QED BY <2>1, RefsFrame DEF ConstructQueue, Gone, Hands, Removal, Ends, Chain
<1>7. NullsArePending' BY NullsFrame DEF ConstructQueue
<1> QED BY <1>1, <1>2, <1>3, <1>4, <1>5, <1>6, <1>7 DEF IInv

LEMMA BeginWaitStep ==
  ASSUME IInv, NEW h \in Hosts, BeginWait(h)
  PROVE  IInv'
<1>0. TypeOK /\ Hands /\ Chain /\ Removal /\ Constructed /\ RefsExact /\ NullsArePending
  BY DEF IInv
<1> USE <1>0, LifetimeAssumption DEF TypeOK, Places, Runs, Go, Threads, queueVars, listVars, passVars, cmdVars
<1>1. TypeOK' BY DEF BeginWait, TypeOK
<1>2. Hands' BY DEF BeginWait, Hands, Carriers, Ends
<1>3. Chain' BY DEF BeginWait, Chain
<1>4. Removal' BY DEF BeginWait, Removal, Ends, FreedIsForgotten, Hands
<1>5. Constructed' BY DEF BeginWait, Constructed
<1>6. RefsExact'
  <2>1. \A e \in Commands : EventUsers(e)' = EventUsers(e)
    BY DEF BeginWait, EventUsers, Hands, Carriers
  <2> QED BY <2>1, RefsFrame DEF BeginWait, Gone, Hands, Removal, Ends, Chain
<1>7. NullsArePending' BY NullsFrame DEF BeginWait
<1> QED BY <1>1, <1>2, <1>3, <1>4, <1>5, <1>6, <1>7 DEF IInv

LEMMA EndWaitStep ==
  ASSUME IInv, NEW h \in Hosts, EndWait(h)
  PROVE  IInv'
<1>0. TypeOK /\ Hands /\ Chain /\ Removal /\ Constructed /\ RefsExact /\ NullsArePending
  BY DEF IInv
<1> USE <1>0, LifetimeAssumption DEF TypeOK, Places, Runs, Go, Threads, queueVars, listVars, passVars, cmdVars
<1>1. TypeOK' BY DEF EndWait, TypeOK
<1>2. Hands' BY DEF EndWait, Hands, Carriers, Ends
<1>3. Chain' BY DEF EndWait, Chain
<1>4. Removal' BY DEF EndWait, Removal, Ends, FreedIsForgotten, Hands
<1>5. Constructed' BY DEF EndWait, Constructed
<1>6. RefsExact'
  <2>1. \A e \in Commands : EventUsers(e)' = EventUsers(e)
    BY DEF EndWait, EventUsers, Hands, Carriers
  <2> QED BY <2>1, RefsFrame DEF EndWait, Gone, Hands, Removal, Ends, Chain
<1>7. NullsArePending' BY NullsFrame DEF EndWait
<1> QED BY <1>1, <1>2, <1>3, <1>4, <1>5, <1>6, <1>7 DEF IInv

LEMMA BeginPassStep ==
  ASSUME IInv, BeginPass
  PROVE  IInv'
<1>0. TypeOK /\ Hands /\ Chain /\ Removal /\ Constructed /\ RefsExact /\ NullsArePending
  BY DEF IInv
<1> USE <1>0, LifetimeAssumption DEF TypeOK, Places, Runs, Go, Threads, queueVars, listVars, passVars, cmdVars
<1>1. TypeOK' BY DEF BeginPass, TypeOK
<1>2. Hands' BY DEF BeginPass, Hands, Carriers, Ends
<1>3. Chain' BY DEF BeginPass, Chain
<1>4. Removal' BY DEF BeginPass, Removal, Ends, FreedIsForgotten, Hands
<1>5. Constructed' BY DEF BeginPass, Constructed
<1>6. RefsExact'
  <2>1. \A e \in Commands : EventUsers(e)' = EventUsers(e)
    BY DEF BeginPass, EventUsers, Hands, Carriers
  <2> QED BY <2>1, RefsFrame DEF BeginPass, Gone, Hands, Removal, Ends, Chain
<1>7. NullsArePending' BY NullsFrame DEF BeginPass
<1> QED BY <1>1, <1>2, <1>3, <1>4, <1>5, <1>6, <1>7 DEF IInv

LEMMA UpdateQueuesStep ==
  ASSUME IInv, UpdateQueues
  PROVE  IInv'
<1>0. TypeOK /\ Hands /\ Chain /\ Removal /\ Constructed /\ RefsExact /\ NullsArePending
  BY DEF IInv
<1> USE <1>0, LifetimeAssumption DEF TypeOK, Places, Runs, Go, Threads, queueVars, listVars, passVars, cmdVars
<1>a. /\ at[Scheduler] = "update" /\ todo' = targets' /\ updated' = FALSE
      /\ UNCHANGED <<refs, life, handles, last, listed, posts, state, queueOf, waitsOn, evRefs,
                     kept, object, command, fault>>
  BY DEF UpdateQueues, Runs
<1>b. \/ /\ updated /\ targets' = listed /\ nulls' = 0
         /\ at' \in [Threads -> Places]
         /\ at'[Scheduler] = "scan"
         /\ \A t \in Threads : t # Scheduler =>
              at'[t] = IF at[t] = "parked" THEN "removed" ELSE at[t]
      \/ /\ ~updated /\ at' = [at EXCEPT ![Scheduler] = "scan"]
         /\ UNCHANGED <<targets, nulls>>
  <2>1. CASE updated
    <3>1. at' = [t \in Threads |-> IF t = Scheduler THEN "scan"
                                   ELSE IF at[t] = "parked" THEN "removed" ELSE at[t]]
      BY <2>1 DEF UpdateQueues
    <3>2. at' \in [Threads -> Places]
      BY <3>1 DEF Places
    <3> QED BY <2>1, <3>1, <3>2 DEF UpdateQueues
  <2>2. CASE ~updated
    BY <2>2 DEF UpdateQueues, Go
  <2> QED BY <2>1, <2>2
<1>1. TypeOK'
  <2>1. at' \in [Threads -> Places]
    BY <1>a, <1>b
  <2>2. targets' \subseteq Queues /\ nulls' \in Nat
    BY <1>b
  <2>3. todo' \subseteq targets' /\ updated' \in BOOLEAN
    BY <1>a
  <2> QED BY <1>a, <2>1, <2>2, <2>3
<1>2. Hands' BY <1>a, <1>b DEF Hands, Carriers, Ends
<1>3. Chain' BY <1>a, <1>b DEF Chain
<1>4. Removal' BY <1>a, <1>b DEF Removal, Ends, FreedIsForgotten, Hands
<1>5. Constructed' BY <1>a, <1>b DEF Constructed
<1>6. RefsExact'
  <2>1. \A e \in Commands : EventUsers(e)' = EventUsers(e)
    BY <1>a, <1>b DEF EventUsers, Hands, Carriers
  <2> QED BY <1>a, <1>b, <2>1, RefsFrame DEF Gone, Hands, Removal, Ends, Chain
<1>7. NullsArePending'
  <2>1. CASE updated
    <3>1. {t \in Threads : at'[t] = "parked"} = {}
      BY <1>a, <1>b, <2>1
    <3> QED BY <3>1, <1>b, <2>1, FS_EmptySet DEF NullsArePending
  <2>2. CASE ~updated
    BY <2>2, <1>a, <1>b, NullsFrame
  <2> QED BY <2>1, <2>2
<1> QED BY <1>1, <1>2, <1>3, <1>4, <1>5, <1>6, <1>7 DEF IInv

LEMMA EndPassStep ==
  ASSUME IInv, EndPass
  PROVE  IInv'
<1>0. TypeOK /\ Hands /\ Chain /\ Removal /\ Constructed /\ RefsExact /\ NullsArePending
  BY DEF IInv
<1> USE <1>0, LifetimeAssumption DEF TypeOK, Places, Runs, Go, Threads, queueVars, listVars, passVars, cmdVars
<1>1. TypeOK' BY DEF EndPass, TypeOK
<1>2. Hands' BY DEF EndPass, Hands, Carriers, Ends
<1>3. Chain' BY DEF EndPass, Chain
<1>4. Removal' BY DEF EndPass, Removal, Ends, FreedIsForgotten, Hands
<1>5. Constructed' BY DEF EndPass, Constructed
<1>6. RefsExact'
  <2>1. \A e \in Commands : EventUsers(e)' = EventUsers(e)
    BY DEF EndPass, EventUsers, Hands, Carriers
  <2> QED BY <2>1, RefsFrame DEF EndPass, Gone, Hands, Removal, Ends, Chain
<1>7. NullsArePending' BY NullsFrame DEF EndPass
<1> QED BY <1>1, <1>2, <1>3, <1>4, <1>5, <1>6, <1>7 DEF IInv

LEMMA CrashStep ==
  ASSUME IInv, CrashInPeek \/ CrashInDequeue
  PROVE  IInv'
<1>0. TypeOK /\ Hands /\ Chain /\ Removal /\ Constructed /\ RefsExact /\ NullsArePending
  BY DEF IInv
<1> USE <1>0, LifetimeAssumption DEF TypeOK, Places, Runs, Go, Threads, queueVars, listVars, passVars, cmdVars
<1>a. /\ UNCHANGED <<refs, life, handles, last, listed, nulls, updated, posts, targets, todo,
                     state, queueOf, waitsOn, evRefs, kept, at, object, command>>
      /\ fault' = TRUE
  BY DEF CrashInPeek, CrashInDequeue
<1>1. TypeOK' BY <1>a DEF TypeOK
<1>2. Hands' BY <1>a DEF Hands, Carriers, Ends
<1>3. Chain' BY <1>a DEF Chain
<1>4. Removal' BY <1>a DEF Removal, Ends, FreedIsForgotten, Hands
<1>5. Constructed' BY <1>a DEF Constructed
<1>6. RefsExact'
  <2>1. \A e \in Commands : EventUsers(e)' = EventUsers(e)
    BY <1>a DEF EventUsers, Hands, Carriers
  <2> QED BY <1>a, <2>1, RefsFrame DEF Gone, Hands, Removal, Ends, Chain
<1>7. NullsArePending' BY <1>a, NullsFrame
<1> QED BY <1>1, <1>2, <1>3, <1>4, <1>5, <1>6, <1>7 DEF IInv

LEMMA PeekNothingStep ==
  ASSUME IInv, NEW q \in Queues, PeekNothing(q)
  PROVE  IInv'
<1>0. TypeOK /\ Hands /\ Chain /\ Removal /\ Constructed /\ RefsExact /\ NullsArePending
  BY DEF IInv
<1> USE <1>0, LifetimeAssumption DEF TypeOK, Places, Runs, Go, Threads, queueVars, listVars, passVars, cmdVars
<1>1. TypeOK' BY DEF PeekNothing, TypeOK
<1>2. Hands' BY DEF PeekNothing, Hands, Carriers, Ends
<1>3. Chain' BY DEF PeekNothing, Chain
<1>4. Removal' BY DEF PeekNothing, Removal, Ends, FreedIsForgotten, Hands
<1>5. Constructed' BY DEF PeekNothing, Constructed
<1>6. RefsExact'
  <2>1. \A e \in Commands : EventUsers(e)' = EventUsers(e)
    BY DEF PeekNothing, EventUsers, Hands, Carriers
  <2> QED BY <2>1, RefsFrame DEF PeekNothing, Gone, Hands, Removal, Ends, Chain
<1>7. NullsArePending' BY NullsFrame DEF PeekNothing
<1> QED BY <1>1, <1>2, <1>3, <1>4, <1>5, <1>6, <1>7 DEF IInv

LEMMA PeekStep ==
  ASSUME IInv, NEW q \in Queues, NEW c \in Commands, Peek(q, c)
  PROVE  IInv'
<1>0. TypeOK /\ Hands /\ Chain /\ Removal /\ Constructed /\ RefsExact /\ NullsArePending
  BY DEF IInv
<1> USE <1>0, LifetimeAssumption DEF TypeOK, Places, Runs, Go, Threads, queueVars, listVars, passVars, cmdVars
<1>a. /\ at[Scheduler] = "scan" /\ command[Scheduler] = None
      /\ state[c] = "pending" /\ queueOf[c] = q
      /\ \A b \in Commands : waitsOn[c] = b => Finished(b)
      /\ waitsOn' = [waitsOn EXCEPT ![c] = None]
      /\ object' = [object EXCEPT ![Scheduler] = q]
      /\ command' = [command EXCEPT ![Scheduler] = c]
      /\ at' = [at EXCEPT ![Scheduler] = "submit"]
      /\ UNCHANGED <<life, handles, last, listed, nulls, updated, posts, targets, todo, state,
                     queueOf, kept, fault>>
  BY DEF Peek, Runs, Executable, Go, Hands
<1>b. \/ waitsOn[c] = None /\ UNCHANGED <<evRefs, refs>>
      \/ \E e \in Commands :
           /\ waitsOn[c] = e /\ evRefs' = [evRefs EXCEPT ![e] = @ - 1]
           /\ refs' = IF evRefs[e] = 1 THEN [refs EXCEPT ![q] = @ - 1] ELSE refs
  BY DEF Peek
<1>c. \A e \in Commands : waitsOn[c] = e =>
        OfNext(e) = 1 /\ evRefs[e] >= 1 /\ queueOf[e] = q /\ e \in Events(q)
  <2> SUFFICES ASSUME NEW e \in Commands, waitsOn[c] = e
               PROVE  OfNext(e) = 1 /\ evRefs[e] >= 1 /\ queueOf[e] = q /\ e \in Events(q)
    OBVIOUS
  <2>1. OfNext(e) = 1
    BY DEF OfNext, One
  <2>2. evRefs[e] >= 1
    BY <2>1, Exact, Counts
  <2>3. queueOf[e] = q
    BY <1>a DEF Chain
  <2> QED BY <2>1, <2>2, <2>3 DEF Events
<1>d. \A e \in Commands : waitsOn[c] = e => refs[q] >= 2
  <2>1. c \in Alive(q)
    BY <1>a DEF Alive
  <2> QED BY <1>c, <2>1, Exact, Counts
<1>e. /\ refs' \in [Queues -> Nat] /\ evRefs' \in [Commands -> Nat]
      /\ \A d \in Commands : state[d] = "new" => evRefs'[d] = 0
  BY <1>b, <1>c, <1>d DEF Chain
<1>1. TypeOK' BY <1>a, <1>e DEF TypeOK
<1>2. Hands' BY <1>a, <1>e DEF Hands, Carriers, Ends
<1>3. Chain' BY <1>a, <1>e DEF Chain
<1>4. Removal' BY <1>a, <1>e DEF Removal, Ends, FreedIsForgotten, Hands
<1>5. Constructed' BY <1>a, <1>e DEF Constructed
<1>6. RefsExact'
  <2>1. \A d \in Commands : /\ EventUsers(d)' = EventUsers(d) /\ Own(d)' = Own(d)
                           /\ OfApp(d)' = OfApp(d) /\ OfQueue(d)' = OfQueue(d)
    BY <1>a DEF EventUsers, Own, OfApp, OfQueue, Hands
  <2>2. \A p : Alive(p)' = Alive(p)
    BY <1>a DEF Alive
  <2>3. CASE waitsOn[c] = None
    <3>1. UNCHANGED <<refs, evRefs, waitsOn>>
      BY <2>3, <1>a, <1>b
    <3> QED BY <3>1, <1>a, <2>1, RefsFrame
  <2>4. CASE waitsOn[c] # None
    <3>1. PICK e \in Commands :
            /\ waitsOn[c] = e /\ evRefs' = [evRefs EXCEPT ![e] = @ - 1]
            /\ refs' = IF evRefs[e] = 1 THEN [refs EXCEPT ![q] = @ - 1] ELSE refs
      BY <2>4, <1>b
    <3>2. OfNext(e)' = 0
      BY <3>1, <1>a DEF OfNext, One, Chain
    <3>3. \A d \in Commands : d # e => OfNext(d)' = OfNext(d)
      BY <3>1, <1>a DEF OfNext, One
    <3>4. /\ \A p \in Queues : p # q => Events(p)' = Events(p)
          /\ evRefs[e] = 1 => Events(q)' = Events(q) \ {e}
          /\ evRefs[e] # 1 => Events(q)' = Events(q)
      <4>1. \A d \in Commands : d # e => evRefs'[d] = evRefs[d]
        BY <3>1
      <4>2. evRefs'[e] = evRefs[e] - 1 /\ evRefs[e] >= 1 /\ queueOf[e] = q
        BY <3>1, <1>c
      <4> QED BY <4>1, <4>2, <1>a DEF Events
    <3>5. evRefs[e] = 1 => Cardinality(Events(q)') = Cardinality(Events(q)) - 1
      BY <3>1, <3>4, <1>c, Finite, OneMore
    <3>6. \A p \in Queues : refs'[p] = handles'[p] + Cardinality(Alive(p)') + Cardinality(Events(p)')
      BY <3>1, <3>4, <3>5, <2>2, <1>a, Exact, Counts
    <3>7. \A p \in Queues : refs'[p] = 0 <=> life'[p] \in Gone
      BY <3>1, <1>a, <1>d, Exact
    <3>8. \A d \in Commands :
            evRefs'[d] = Cardinality(EventUsers(d)') + Own(d)' + OfApp(d)' + OfQueue(d)' + OfNext(d)'
      BY <3>1, <3>2, <3>3, <2>1, <1>c, Exact, Counts
    <3> QED BY <3>6, <3>7, <3>8, Recount
  <2> QED BY <2>3, <2>4
<1>7. NullsArePending' BY <1>a, <1>e, NullsFrame
<1> QED BY <1>1, <1>2, <1>3, <1>4, <1>5, <1>6, <1>7 DEF IInv

LEMMA SubmitStep ==
  ASSUME IInv, Submit
  PROVE  IInv'
<1>0. TypeOK /\ Hands /\ Chain /\ Removal /\ Constructed /\ RefsExact /\ NullsArePending
  BY DEF IInv
<1> USE <1>0, LifetimeAssumption DEF TypeOK, Places, Runs, Go, Threads, queueVars, listVars, passVars, cmdVars
<1>a. PICK c \in Commands : /\ at[Scheduler] = "submit" /\ command[Scheduler] = c
                            /\ state[c] = "pending" /\ waitsOn[c] = None
  BY DEF Submit, Runs, Hands, Carriers
<1>b. /\ state' = [state EXCEPT ![c] = "submitted"]
      /\ command' = [command EXCEPT ![Scheduler] = None]
      /\ at' = [at EXCEPT ![Scheduler] = "dequeue"]
      /\ UNCHANGED <<refs, life, handles, last, listed, nulls, updated, posts, targets, todo,
                     queueOf, waitsOn, evRefs, kept, object, fault>>
  BY <1>a DEF Submit, Go
<1>1. TypeOK' BY <1>a, <1>b DEF TypeOK
<1>2. Hands' BY <1>a, <1>b DEF Hands, Carriers, Ends
<1>3. Chain' BY <1>a, <1>b DEF Chain
<1>4. Removal' BY <1>a, <1>b DEF Removal, Ends, FreedIsForgotten, Hands
<1>5. Constructed' BY <1>a, <1>b DEF Constructed
<1>6. RefsExact'
  <2>1. \A e \in Commands : EventUsers(e)' = EventUsers(e)
    BY <1>a, <1>b DEF EventUsers, Hands, Carriers
  <2> QED BY <1>a, <1>b, <2>1, RefsFrame DEF Gone, Hands, Removal, Ends, Chain
<1>7. NullsArePending' BY <1>a, <1>b, NullsFrame
<1> QED BY <1>1, <1>2, <1>3, <1>4, <1>5, <1>6, <1>7 DEF IInv

LEMMA CompleteAtOnceStep ==
  ASSUME IInv, CompleteAtOnce
  PROVE  IInv'
<1>0. TypeOK /\ Hands /\ Chain /\ Removal /\ Constructed /\ RefsExact /\ NullsArePending
  BY DEF IInv
<1> USE <1>0, LifetimeAssumption DEF TypeOK, Places, Runs, Go, Threads, queueVars, listVars, passVars, cmdVars
<1>a. PICK c \in Commands : /\ at[Scheduler] = "submit" /\ command[Scheduler] = c
                            /\ state[c] = "pending" /\ waitsOn[c] = None
  BY DEF CompleteAtOnce, Runs, Hands, Carriers
<1>b. /\ state' = [state EXCEPT ![c] = "complete"] /\ posts' = posts + 1
      /\ at' = [at EXCEPT ![Scheduler] = "delete"]
      /\ UNCHANGED <<refs, life, handles, last, listed, nulls, updated, targets, todo,
                     queueOf, waitsOn, evRefs, kept, object, command, fault>>
  BY <1>a DEF CompleteAtOnce, Go
<1>1. TypeOK' BY <1>a, <1>b DEF TypeOK
<1>2. Hands' BY <1>a, <1>b DEF Hands, Carriers, Ends
<1>3. Chain' BY <1>a, <1>b DEF Chain
<1>4. Removal' BY <1>a, <1>b DEF Removal, Ends, FreedIsForgotten, Hands
<1>5. Constructed' BY <1>a, <1>b DEF Constructed
<1>6. RefsExact'
  <2>1. \A e \in Commands : EventUsers(e)' = EventUsers(e)
    BY <1>a, <1>b DEF EventUsers, Hands, Carriers
  <2> QED BY <1>a, <1>b, <2>1, RefsFrame DEF Gone, Hands, Removal, Ends, Chain
<1>7. NullsArePending' BY <1>a, <1>b, NullsFrame
<1> QED BY <1>1, <1>2, <1>3, <1>4, <1>5, <1>6, <1>7 DEF IInv

LEMMA DequeueStep ==
  ASSUME IInv, Dequeue
  PROVE  IInv'
<1>0. TypeOK /\ Hands /\ Chain /\ Removal /\ Constructed /\ RefsExact /\ NullsArePending
  BY DEF IInv
<1> USE <1>0, LifetimeAssumption DEF TypeOK, Places, Runs, Go, Threads, queueVars, listVars, passVars, cmdVars
<1>1. TypeOK' BY DEF Dequeue, TypeOK
<1>2. Hands' BY DEF Dequeue, Hands, Carriers, Ends
<1>3. Chain' BY DEF Dequeue, Chain
<1>4. Removal' BY DEF Dequeue, Removal, Ends, FreedIsForgotten, Hands
<1>5. Constructed' BY DEF Dequeue, Constructed
<1>6. RefsExact'
  <2>1. \A e \in Commands : EventUsers(e)' = EventUsers(e)
    BY DEF Dequeue, EventUsers, Hands, Carriers
  <2> QED BY <2>1, RefsFrame DEF Dequeue, Gone, Hands, Removal, Ends, Chain
<1>7. NullsArePending' BY NullsFrame DEF Dequeue
<1> QED BY <1>1, <1>2, <1>3, <1>4, <1>5, <1>6, <1>7 DEF IInv

LEMMA ExecuteStep ==
  ASSUME IInv, NEW i \in Issuers, NEW c \in Commands, Execute(i, c)
  PROVE  IInv'
<1>0. TypeOK /\ Hands /\ Chain /\ Removal /\ Constructed /\ RefsExact /\ NullsArePending
  BY DEF IInv
<1> USE <1>0, LifetimeAssumption DEF TypeOK, Places, Runs, Go, Threads, queueVars, listVars, passVars, cmdVars
<1>1. TypeOK' BY DEF Execute, TypeOK
<1>2. Hands' BY DEF Execute, Hands, Carriers, Ends
<1>3. Chain' BY DEF Execute, Chain
<1>4. Removal' BY DEF Execute, Removal, Ends, FreedIsForgotten, Hands
<1>5. Constructed' BY DEF Execute, Constructed
<1>6. RefsExact'
  <2>1. \A e \in Commands : EventUsers(e)' = EventUsers(e)
    BY DEF Execute, EventUsers, Hands, Carriers
  <2> QED BY <2>1, RefsFrame DEF Execute, Gone, Hands, Removal, Ends, Chain
<1>7. NullsArePending' BY NullsFrame DEF Execute
<1> QED BY <1>1, <1>2, <1>3, <1>4, <1>5, <1>6, <1>7 DEF IInv

LEMMA SetAsCompleteStep ==
  ASSUME IInv, NEW i \in Issuers, SetAsComplete(i)
  PROVE  IInv'
<1>0. TypeOK /\ Hands /\ Chain /\ Removal /\ Constructed /\ RefsExact /\ NullsArePending
  BY DEF IInv
<1> USE <1>0, LifetimeAssumption DEF TypeOK, Places, Runs, Go, Threads, queueVars, listVars, passVars, cmdVars
<1>a. PICK c \in Commands : at[i] = "execute" /\ command[i] = c /\ state[c] = "running"
  BY DEF SetAsComplete, Runs, Hands, Carriers
<1>b. /\ state' = [state EXCEPT ![c] = "complete"] /\ posts' = posts + 1
      /\ at' = [at EXCEPT ![i] = "delete"]
      /\ UNCHANGED <<refs, life, handles, last, listed, nulls, updated, targets, todo,
                     queueOf, waitsOn, evRefs, kept, object, command, fault>>
  BY <1>a DEF SetAsComplete, Go
<1>1. TypeOK' BY <1>a, <1>b DEF TypeOK
<1>2. Hands' BY <1>a, <1>b DEF Hands, Carriers, Ends
<1>3. Chain' BY <1>a, <1>b DEF Chain
<1>4. Removal' BY <1>a, <1>b DEF Removal, Ends, FreedIsForgotten, Hands
<1>5. Constructed' BY <1>a, <1>b DEF Constructed
<1>6. RefsExact'
  <2>1. \A e \in Commands : EventUsers(e)' = EventUsers(e)
    BY <1>a, <1>b DEF EventUsers, Hands, Carriers
  <2> QED BY <1>a, <1>b, <2>1, RefsFrame DEF Gone, Hands, Removal, Ends, Chain
<1>7. NullsArePending' BY <1>a, <1>b, NullsFrame
<1> QED BY <1>1, <1>2, <1>3, <1>4, <1>5, <1>6, <1>7 DEF IInv

LEMMA DeleteCommandStep ==
  ASSUME IInv, NEW t \in Threads, DeleteCommand(t)
  PROVE  IInv'
<1>0. TypeOK /\ Hands /\ Chain /\ Removal /\ Constructed /\ RefsExact /\ NullsArePending
  BY DEF IInv
<1> USE <1>0, LifetimeAssumption DEF TypeOK, Places, Runs, Go, Threads, queueVars, listVars, passVars, cmdVars
<1>a. PICK c \in Commands, q \in Queues :
        /\ t \in Carriers /\ at[t] = "delete" /\ command[t] = c /\ state[c] = "complete"
        /\ queueOf[c] = q /\ waitsOn[c] = None
  <2>1. t \in Carriers /\ at[t] = "delete" /\ command[t] \in Commands
        /\ state[command[t]] = "complete"
    BY DEF DeleteCommand, Hands, Carriers, Ends
  <2>2. queueOf[command[t]] \in Queues /\ waitsOn[command[t]] = None
    BY <2>1 DEF Chain
  <2> QED BY <2>1, <2>2
<1>b. /\ refs' = [refs EXCEPT ![q] = @ - 1]
      /\ state' = [state EXCEPT ![c] = "deleted"] /\ at' = [at EXCEPT ![t] = "event"]
      /\ UNCHANGED <<life, handles, last, listed, nulls, updated, posts, targets, todo,
                     queueOf, waitsOn, evRefs, kept, object, command, fault>>
  BY <1>a DEF DeleteCommand, Go
<1>c. /\ Own(c) = 1 /\ evRefs[c] >= 1 /\ c \in Alive(q) /\ c \in Events(q)
  <2>1. Own(c) = 1
    BY <1>a DEF Own, One
  <2>2. evRefs[c] >= 1
    BY <2>1, Exact, Counts
  <2> QED BY <2>1, <2>2, <1>a DEF Alive, Events
<1>d. refs[q] >= 2
  BY <1>c, Exact, Counts
<1>1. TypeOK' BY <1>a, <1>b, <1>d DEF TypeOK
<1>2. Hands' BY <1>a, <1>b, <1>d DEF Hands, Carriers, Ends
<1>3. Chain' BY <1>a, <1>b, <1>d DEF Chain
<1>4. Removal' BY <1>a, <1>b, <1>d DEF Removal, Ends, FreedIsForgotten, Hands
<1>5. Constructed' BY <1>a, <1>b, <1>d DEF Constructed
<1>6. RefsExact'
  <2>1. /\ Alive(q)' = Alive(q) \ {c}
        /\ \A p \in Queues : p # q => Alive(p)' = Alive(p)
        /\ \A p : Events(p)' = Events(p)
    BY <1>a, <1>b DEF Alive, Events
  <2>2. Cardinality(Alive(q)') = Cardinality(Alive(q)) - 1
    BY <2>1, <1>c, Finite, OneMore
  <2>3. /\ EventUsers(c)' = EventUsers(c) \cup {t} /\ t \notin EventUsers(c)
        /\ \A d \in Commands : d # c => EventUsers(d)' = EventUsers(d)
    BY <1>a, <1>b DEF EventUsers, Carriers
  <2>4. Cardinality(EventUsers(c)') = Cardinality(EventUsers(c)) + 1
    BY <2>3, Finite, OneMore
  <2>5. Own(c)' = 0 /\ \A d \in Commands : d # c => Own(d)' = Own(d)
    BY <1>b DEF Own, One
  <2>6. \A d \in Commands : /\ OfApp(d)' = OfApp(d) /\ OfQueue(d)' = OfQueue(d)
                           /\ OfNext(d)' = OfNext(d)
    BY <1>b DEF OfApp, OfQueue, OfNext
  <2>7. \A p \in Queues : refs'[p] = handles'[p] + Cardinality(Alive(p)') + Cardinality(Events(p)')
    <3>1. refs'[q] = refs[q] - 1 /\ \A p \in Queues : p # q => refs'[p] = refs[p]
      BY <1>b
    <3>2. refs'[q] = handles'[q] + Cardinality(Alive(q)') + Cardinality(Events(q)')
      BY <1>b, <3>1, <2>1, <2>2, Exact, Counts
    <3>3. \A p \in Queues : p # q =>
            refs'[p] = handles'[p] + Cardinality(Alive(p)') + Cardinality(Events(p)')
      BY <1>b, <3>1, <2>1, Exact
    <3> QED BY <3>2, <3>3
  <2>8. \A p \in Queues : refs'[p] = 0 <=> life'[p] \in Gone
    BY <1>b, <1>d, Exact
  <2>9. \A d \in Commands :
          evRefs'[d] = Cardinality(EventUsers(d)') + Own(d)' + OfApp(d)' + OfQueue(d)' + OfNext(d)'
    <3>1. evRefs'[c] = Cardinality(EventUsers(c)') + Own(c)' + OfApp(c)' + OfQueue(c)' + OfNext(c)'
      BY <1>b, <1>c, <2>4, <2>5, <2>6, Exact, Counts
    <3>2. \A d \in Commands : d # c =>
            evRefs'[d] = Cardinality(EventUsers(d)') + Own(d)' + OfApp(d)' + OfQueue(d)' + OfNext(d)'
      BY <1>b, <2>3, <2>5, <2>6, Exact
    <3> QED BY <3>1, <3>2
  <2> QED BY <2>7, <2>8, <2>9, Recount
<1>7. NullsArePending' BY <1>a, <1>b, <1>d, NullsFrame
<1> QED BY <1>1, <1>2, <1>3, <1>4, <1>5, <1>6, <1>7 DEF IInv

LEMMA ReleaseEventStep ==
  ASSUME IInv, NEW t \in Threads, ReleaseEvent(t)
  PROVE  IInv'
<1>0. TypeOK /\ Hands /\ Chain /\ Removal /\ Constructed /\ RefsExact /\ NullsArePending
  BY DEF IInv
<1> USE <1>0, LifetimeAssumption DEF TypeOK, Places, Runs, Go, Threads, queueVars, listVars, passVars, cmdVars
<1>a. PICK c \in Commands, q \in Queues :
        at[t] = "event" /\ command[t] = c /\ queueOf[c] = q /\ t \in EventUsers(c) /\ state[c] # "new"
  <2>1. /\ at[t] = "event" /\ command[t] \in Commands /\ t \in EventUsers(command[t])
        /\ state[command[t]] # "new"
    BY DEF ReleaseEvent, Runs, Hands, EventUsers, Carriers
  <2>2. queueOf[command[t]] \in Queues
    BY <2>1 DEF Chain
  <2> QED BY <2>1, <2>2
<1>b. evRefs[c] >= 1 /\ c \in Events(q) /\ refs[q] >= 1 /\ life[q] = "alive"
  <2>1. evRefs[c] >= 1
    <3>1. Cardinality(EventUsers(c)) \in Nat /\ Cardinality(EventUsers(c)) # 0
      BY <1>a, Counts
    <3>2. /\ evRefs[c] = Cardinality(EventUsers(c)) + Own(c) + OfApp(c) + OfQueue(c) + OfNext(c)
          /\ Own(c) \in {0, 1} /\ OfApp(c) \in {0, 1}
          /\ OfQueue(c) \in {0, 1} /\ OfNext(c) \in {0, 1}
      BY Exact
    <3> QED BY <3>1, <3>2
  <2>2. c \in Events(q)
    BY <1>a, <2>1 DEF Events
  <2>3. refs[q] >= 1
    <3>1. /\ Cardinality(Alive(q)) \in Nat /\ Cardinality(Events(q)) \in Nat
          /\ Cardinality(Events(q)) # 0
      BY <2>2, Counts
    <3>2. refs[q] = handles[q] + Cardinality(Alive(q)) + Cardinality(Events(q))
      BY Exact
    <3>3. handles[q] \in Nat
      OBVIOUS
    <3> QED BY <3>1, <3>2, <3>3
  <2>4. life[q] \notin Gone
    BY <2>3, Exact
  <2> QED BY <1>a, <2>1, <2>2, <2>3, <2>4 DEF Constructed, Gone
<1>c. /\ evRefs' = [evRefs EXCEPT ![c] = @ - 1]
      /\ command' = [command EXCEPT ![t] = None]
      /\ UNCHANGED <<handles, last, listed, nulls, updated, posts, targets, todo, state, queueOf,
                     waitsOn, kept, fault>>
  BY <1>a DEF ReleaseEvent
<1>d. \/ /\ evRefs[c] = 1 /\ refs[q] = 1 /\ refs' = [refs EXCEPT ![q] = @ - 1]
         /\ life' = [life EXCEPT ![q] = "destroying"]
         /\ object' = [object EXCEPT ![t] = q] /\ at' = [at EXCEPT ![t] = "remove"]
      \/ /\ evRefs[c] = 1 /\ refs[q] # 1 /\ refs' = [refs EXCEPT ![q] = @ - 1]
         /\ at' = [at EXCEPT ![t] = Resumes(t)] /\ UNCHANGED <<life, object>>
      \/ /\ evRefs[c] # 1 /\ at' = [at EXCEPT ![t] = Resumes(t)]
         /\ UNCHANGED <<refs, life, object>>
  BY <1>a DEF ReleaseEvent, ReleaseQueue, Go
<1>e. Resumes(t) = IF t = Scheduler THEN "dequeue" ELSE "idle"
  BY DEF Resumes
<1>1. TypeOK' BY <1>a, <1>b, <1>c, <1>d, <1>e DEF TypeOK
<1>2. Hands' BY <1>a, <1>b, <1>c, <1>d, <1>e DEF Hands, Carriers, Ends
<1>3. Chain' BY <1>a, <1>b, <1>c, <1>d, <1>e DEF Chain
<1>4. Removal' BY <1>a, <1>b, <1>c, <1>d, <1>e DEF Removal, Ends, FreedIsForgotten, Hands
<1>5. Constructed' BY <1>a, <1>b, <1>c, <1>d, <1>e DEF Constructed
<1>6. RefsExact'
  <2>1. \A p : Alive(p)' = Alive(p)
    BY <1>c DEF Alive
  <2>2. /\ \A p \in Queues : p # q => Events(p)' = Events(p)
        /\ evRefs[c] = 1 => Events(q)' = Events(q) \ {c}
        /\ evRefs[c] # 1 => Events(q)' = Events(q)
    BY <1>a, <1>b, <1>c DEF Events
  <2>3. evRefs[c] = 1 => Cardinality(Events(q)') = Cardinality(Events(q)) - 1
    BY <2>2, <1>b, Finite, OneMore
  <2>4. /\ EventUsers(c)' = EventUsers(c) \ {t}
        /\ \A d \in Commands : d # c => EventUsers(d)' = EventUsers(d)
    BY <1>a, <1>c, <1>d, <1>e DEF EventUsers
  <2>5. Cardinality(EventUsers(c)') = Cardinality(EventUsers(c)) - 1
    BY <2>4, <1>a, Finite, OneMore
  <2>6. \A d \in Commands : /\ Own(d)' = Own(d) /\ OfApp(d)' = OfApp(d)
                           /\ OfQueue(d)' = OfQueue(d) /\ OfNext(d)' = OfNext(d)
    BY <1>c DEF Own, OfApp, OfQueue, OfNext
  <2>7. \A p \in Queues : refs'[p] = handles'[p] + Cardinality(Alive(p)') + Cardinality(Events(p)')
    BY <1>c, <1>d, <2>1, <2>2, <2>3, Exact, Counts
  <2>8. \A p \in Queues : refs'[p] = 0 <=> life'[p] \in Gone
    BY <1>b, <1>d, Exact DEF Gone
  <2>9. \A d \in Commands :
          evRefs'[d] = Cardinality(EventUsers(d)') + Own(d)' + OfApp(d)' + OfQueue(d)' + OfNext(d)'
    <3>1. evRefs'[c] = evRefs[c] - 1 /\ \A d \in Commands : d # c => evRefs'[d] = evRefs[d]
      BY <1>c
    <3>2. evRefs'[c] = Cardinality(EventUsers(c)') + Own(c)' + OfApp(c)' + OfQueue(c)' + OfNext(c)'
      BY <3>1, <1>b, <2>5, <2>6, Exact, Counts
    <3>3. \A d \in Commands : d # c =>
            evRefs'[d] = Cardinality(EventUsers(d)') + Own(d)' + OfApp(d)' + OfQueue(d)' + OfNext(d)'
      BY <3>1, <2>4, <2>6, Exact
    <3> QED BY <3>2, <3>3
  <2> QED BY <2>7, <2>8, <2>9, Recount
<1>7. NullsArePending' BY <1>a, <1>b, <1>c, <1>d, <1>e, NullsFrame
<1> QED BY <1>1, <1>2, <1>3, <1>4, <1>5, <1>6, <1>7 DEF IInv

LEMMA RemoveCommandQueueStep ==
  ASSUME IInv, NEW t \in Threads, RemoveCommandQueue(t)
  PROVE  IInv'
<1>0. TypeOK /\ Hands /\ Chain /\ Removal /\ Constructed /\ RefsExact /\ NullsArePending
  BY DEF IInv
<1> USE <1>0, LifetimeAssumption DEF TypeOK, Places, Runs, Go, Threads, queueVars, listVars, passVars, cmdVars
<1>1. TypeOK' BY DEF RemoveCommandQueue, TypeOK
<1>2. Hands' BY DEF RemoveCommandQueue, Hands, Carriers, Ends
<1>3. Chain' BY DEF RemoveCommandQueue, Chain
<1>4. Removal' BY DEF RemoveCommandQueue, Removal, Ends, FreedIsForgotten, Hands
<1>5. Constructed' BY DEF RemoveCommandQueue, Constructed
<1>6. RefsExact'
  <2>1. \A e \in Commands : EventUsers(e)' = EventUsers(e)
    BY DEF RemoveCommandQueue, EventUsers, Hands, Carriers
  <2> QED BY <2>1, RefsFrame DEF RemoveCommandQueue, Gone, Hands, Removal, Ends, Chain
<1>7. NullsArePending'
  <2> DEFINE Parked == {u \in Threads : at[u] = "parked"}
  <2>1. {u \in Threads : at'[u] = "parked"} = Parked \cup {t} /\ t \notin Parked
    BY DEF RemoveCommandQueue, Runs, Go
  <2>2. Cardinality(Parked \cup {t}) = Cardinality(Parked) + 1
    BY <2>1, Finite, OneMore
  <2>3. nulls' = Cardinality(Parked) + 1
    BY DEF RemoveCommandQueue, NullsArePending
  <2> QED BY <2>1, <2>2, <2>3 DEF NullsArePending
<1> QED BY <1>1, <1>2, <1>3, <1>4, <1>5, <1>6, <1>7 DEF IInv

LEMMA FreeQueueStep ==
  ASSUME IInv, NEW t \in Threads, FreeQueue(t)
  PROVE  IInv'
<1>0. TypeOK /\ Hands /\ Chain /\ Removal /\ Constructed /\ RefsExact /\ NullsArePending
  BY DEF IInv
<1> USE <1>0, LifetimeAssumption DEF TypeOK, Places, Runs, Go, Threads, queueVars, listVars, passVars, cmdVars
<1>1. TypeOK' BY DEF FreeQueue, TypeOK
<1>2. Hands' BY DEF FreeQueue, Hands, Carriers, Ends
<1>3. Chain' BY DEF FreeQueue, Chain
<1>4. Removal' BY DEF FreeQueue, Removal, Ends, FreedIsForgotten, Hands
<1>5. Constructed' BY DEF FreeQueue, Constructed
<1>6. RefsExact'
  <2>1. \A e \in Commands : EventUsers(e)' = EventUsers(e)
    BY DEF FreeQueue, EventUsers, Hands, Carriers
  <2> QED BY <2>1, RefsFrame DEF FreeQueue, Gone, Hands, Removal, Ends, Chain
<1>7. NullsArePending' BY NullsFrame DEF FreeQueue
<1> QED BY <1>1, <1>2, <1>3, <1>4, <1>5, <1>6, <1>7 DEF IInv

LEMMA Initially ==
  ASSUME Init
  PROVE  IInv
<1> USE LifetimeAssumption DEF Init, Threads
<1>1. TypeOK BY DEF TypeOK, Places
<1>2. Hands BY DEF Hands, Carriers, Ends
<1>3. Chain BY DEF Chain
<1>4. Removal BY DEF Removal, Ends, FreedIsForgotten
<1>5. Constructed BY DEF Constructed
<1>6. RefsExact
  <2>1. /\ \A q \in Queues : Alive(q) = {} /\ Events(q) = {}
        /\ \A c \in Commands : EventUsers(c) = {}
    BY DEF Alive, Events, EventUsers
  <2>2. \A q \in Queues : /\ refs[q] = handles[q] + Cardinality(Alive(q)) + Cardinality(Events(q))
                        /\ refs[q] = 0 <=> life[q] \in {"none", "destroying", "freed"}
    <3>1. Cardinality({}) = 0 BY FS_EmptySet
    <3> QED BY <2>1, <3>1
  <2>3. \A c \in Commands :
          /\ One(state[c] \notin {"new", "deleted"}) = 0 /\ One(c \in kept) = 0
          /\ One(\E q \in Queues : last[q] = c) = 0
          /\ One(\E b \in Commands : waitsOn[b] = c) = 0
    BY DEF One
  <2>4. \A c \in Commands : evRefs[c] = 0 /\ Cardinality(EventUsers(c)) = 0
    BY <2>1, FS_EmptySet
  <2>5. \A c \in Commands :
          evRefs[c] = Cardinality(EventUsers(c))
                        + One(state[c] \notin {"new", "deleted"})
                        + One(c \in kept)
                        + One(\E q \in Queues : last[q] = c)
                        + One(\E b \in Commands : waitsOn[b] = c)
    <3> SUFFICES ASSUME NEW c \in Commands
                 PROVE  evRefs[c] = Cardinality(EventUsers(c))
                          + One(state[c] \notin {"new", "deleted"})
                          + One(c \in kept)
                          + One(\E q \in Queues : last[q] = c)
                          + One(\E b \in Commands : waitsOn[b] = c)
      BY Zenon
    <3>1. Own(c) = 0 /\ OfApp(c) = 0 /\ OfQueue(c) = 0 /\ OfNext(c) = 0
      BY <2>3 DEF Own, OfApp, OfQueue, OfNext
    <3>2. evRefs[c] = Cardinality(EventUsers(c)) + Own(c) + OfApp(c) + OfQueue(c) + OfNext(c)
      BY <2>4, <3>1
    <3> QED BY <3>2, Zenon DEF Own, OfApp, OfQueue, OfNext
  <2> QED BY <2>2, <2>5, Zenon DEF RefsExact
<1>7. NullsArePending
  <2>1. {t \in Threads : at[t] = "parked"} = {} OBVIOUS
  <2> QED BY <2>1, FS_EmptySet DEF NullsArePending
<1> QED BY <1>1, <1>2, <1>3, <1>4, <1>5, <1>6, <1>7 DEF IInv

LEMMA Preserved ==
  ASSUME IInv, [Next]_vars
  PROVE  IInv'
<1>1. CASE Next
  <2>1. ASSUME NEW h \in Hosts, HostCall(h) PROVE IInv'
    BY <2>1, CreateQueueStep, RetainQueueStep, ReleaseHandleStep, EnqueueStep, FlushStep DEF HostCall
  <2>2. ASSUME NEW h \in Hosts, HostStep(h) PROVE IInv'
    BY <2>2, ConstructQueueStep, BeginWaitStep, EndWaitStep DEF HostStep
  <2>3. ASSUME Pass PROVE IInv'
    BY <2>3, BeginPassStep, UpdateQueuesStep, EndPassStep, CrashStep, PeekNothingStep, PeekStep,
       SubmitStep, CompleteAtOnceStep, DequeueStep DEF Pass
  <2>4. ASSUME NEW i \in Issuers, Issuer(i) PROVE IInv'
    BY <2>4, ExecuteStep, SetAsCompleteStep DEF Issuer
  <2>5. ASSUME NEW t \in Threads, Drop(t) PROVE IInv'
    BY <2>5, DeleteCommandStep, ReleaseEventStep, RemoveCommandQueueStep, FreeQueueStep DEF Drop
  <2> QED BY <1>1, <2>1, <2>2, <2>3, <2>4, <2>5 DEF Next
<1>2. CASE UNCHANGED vars
  <2>0. TypeOK /\ Hands /\ Chain /\ Removal /\ Constructed /\ RefsExact /\ NullsArePending
    BY DEF IInv
  <2> USE <1>2, <2>0 DEF vars, queueVars, listVars, passVars, cmdVars
  <2>1. TypeOK' BY DEF TypeOK
  <2>2. Hands' BY DEF Hands
  <2>3. Chain' BY DEF Chain
  <2>4. Removal' BY DEF Removal, FreedIsForgotten
  <2>5. Constructed' BY DEF Constructed
  <2>6. RefsExact'
    <3>1. \A e \in Commands : EventUsers(e)' = EventUsers(e)
      BY DEF EventUsers
    <3> QED BY <3>1, RefsFrame
  <2>7. NullsArePending' BY NullsFrame
  <2> QED BY <2>1, <2>2, <2>3, <2>4, <2>5, <2>6, <2>7 DEF IInv
<1> QED BY <1>1, <1>2

-----------------------------------------------------------------------------
(* The invariant that the others follow from: where references are held,   *)
(* and who makes and destroys which queue.                                 *)
THEOREM Invariance == Spec => []IInv
<1>1. Init => IInv BY Initially
<1>2. IInv /\ [Next]_vars => IInv' BY Preserved
<1> QED BY <1>1, <1>2, PTL DEF Spec

(* Every variable keeps to its type: no count goes below 0. *)
THEOREM TypeCorrect == Spec => []TypeOK
<1>1. IInv => TypeOK BY DEF IInv
<1> QED BY <1>1, Invariance, PTL

(* When the memory of a queue is given back, the scheduler's list and the  *)
(* copy of it that a pass walks are without it.                            *)
THEOREM FreedForgotten == Spec => []FreedIsForgotten
<1>1. IInv => FreedIsForgotten BY DEF IInv, Removal
<1> QED BY <1>1, Invariance, PTL

(* There is one NULL entry for each thread in RemoveCommandQueue(). *)
THEOREM NullsPending == Spec => []NullsArePending
<1>1. IInv => NullsArePending BY DEF IInv
<1> QED BY <1>1, Invariance, PTL

(* The counts of queues and of events are those of the references that     *)
(* the application, commands, events and threads hold.                     *)
THEOREM ReferencesExact == Spec => []RefsExact
<1>1. IInv => RefsExact BY DEF IInv
<1> QED BY <1>1, Invariance, PTL

(* A queue is destroyed after all its commands are deleted, and while no   *)
(* host thread waits for one of them.                                      *)
THEOREM NotDestroyedUnderUse == Spec => []NotDestroyedInUse
<1>1. ASSUME IInv PROVE NotDestroyedInUse
  <2> SUFFICES ASSUME NEW q \in Queues, life[q] \in {"destroying", "freed"}
               PROVE  /\ \A c \in Commands : queueOf[c] = q => state[c] = "deleted"
                      /\ \A h \in Hosts : command[h] # None => queueOf[command[h]] # q
    BY DEF NotDestroyedInUse
  <2>0. TypeOK /\ Hands
    BY <1>1 DEF IInv
  <2>1. refs[q] = 0
    BY <1>1, Exact DEF Gone
  <2>2. Cardinality(Alive(q)) = 0 /\ Cardinality(Events(q)) = 0
    <3>1. 0 = handles[q] + Cardinality(Alive(q)) + Cardinality(Events(q))
      BY <1>1, <2>1, Exact
    <3>2. handles[q] \in Nat
      BY <2>0 DEF TypeOK
    <3> QED BY <3>1, <3>2, Counts
  <2>3. Alive(q) = {} /\ Events(q) = {}
    BY <2>2, Counts
  <2>4. ASSUME NEW h \in Hosts, command[h] # None PROVE queueOf[command[h]] # q
    <3>1. command[h] \in Commands
      BY <2>0, <2>4 DEF TypeOK, Threads
    <3>2. Cardinality(EventUsers(command[h])) # 0
      BY Counts DEF EventUsers
    <3>3. evRefs[command[h]] > 0
      BY <1>1, <2>0, <3>1, <3>2, Exact, Counts DEF TypeOK
    <3> QED BY <2>3, <3>1, <3>3 DEF Events
  <2> QED BY <2>3, <2>4 DEF Alive
<1> QED BY <1>1, Invariance, PTL
=============================================================================
