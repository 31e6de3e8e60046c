----------------------- MODULE OutOfOrderQueue_proofs -----------------------
(***************************************************************************)
(* What an out-of-order queue keeps, for any number of commands, clones    *)
(* and devices, as long as no command is allocated where the one was that  *)
(* Dequeue() is to remove, and Progress() clears no list with commands.    *)
(***************************************************************************)
EXTENDS OutOfOrderQueue, TLAPS

Undisturbed == ~Overtakes /\ ~ClearsPending

Started(c) == status[c] \in {"submitted", "running", "complete"}

(* What the scheduler thread has in hand. *)
InHand ==
  /\ heir = None
  /\ IF schedAt \in {"resolve", "dequeue"} THEN current \in Commands ELSE current = None
  /\ schedAt = "resolve" => status[current] = "queued"
  /\ schedAt = "dequeue" => Started(current)

(* The list is in the order of the calls. *)
Ordered ==
  /\ \A c \in Enqueued : order[c] \in 1..issued
  /\ \A c \in Commands \ Enqueued : order[c] = 0 /\ waits[c] = {}
  /\ \A b, c \in Enqueued : order[b] = order[c] => b = c

(* Wait lists name earlier commands, and clones that were submitted. *)
WaitLists ==
  /\ \A c \in Commands : waits[c] \subseteq Enqueued \cup Clones
  /\ \A m \in Markers : waits[m] \cap Clones = {}

(* A command that has started left nothing behind that it may not overtake. *)
StartsInOrder ==
  /\ \A c \in Commands : Started(c) =>
       IsExecutable(c) /\ \A b \in Ahead(c) : Started(b)
  /\ schedAt = "resolve" =>
       IsExecutable(current) /\ \A b \in Ahead(current) : Started(b)

(* A device has the command it executes. *)
Executing ==
  /\ \A d \in Devices : executing[d] # None =>
       status[executing[d]] = "running" /\ bound[executing[d]] = d
  /\ \A c \in Commands : status[c] = "running" =>
       bound[c] \in Devices /\ executing[bound[c]] = c

(* A device executes its commands in the order in which they were          *)
(* submitted. *)
InTurn ==
  /\ \A c \in Commands : turn[c] <= turns /\ (bound[c] # None => Started(c))
  /\ \A c \in Commands : status[c] = "submitted" => bound[c] \in Devices
  /\ \A b, c \in Commands :
       bound[b] = bound[c] /\ bound[c] # None =>
         /\ turn[b] = turn[c] => b = c
         /\ turn[b] < turn[c] /\ status[c] \in {"running", "complete"} => IsComplete(b)

(* A marker or a barrier goes to its device after what was enqueued before. *)
MarkersLast ==
  \A m \in Markers, c \in Enqueued :
    Precedes(c, m) /\ bound[c] = bound[m] /\ bound[m] # None => turn[c] < turn[m]

MarkersBound == \A m \in Markers : Started(m) => bound[m] # None

IInv ==
  /\ TypeOK /\ InHand /\ Custody /\ Ordered /\ WaitLists
  /\ StartsInOrder /\ Executing /\ InTurn /\ MarkersLast /\ MarkersBound

-----------------------------------------------------------------------------

LEMMA Initially == Init => IInv
<1> SUFFICES ASSUME Init PROVE IInv OBVIOUS
<1> USE QueueAssumption DEF Init, Events
<1>1. TypeOK BY DEF TypeOK
<1>2. InHand /\ Custody BY DEF InHand, Custody
<1>3. Ordered /\ WaitLists BY DEF Ordered, WaitLists, Enqueued
<1>4. StartsInOrder /\ Executing BY DEF StartsInOrder, Executing, Started
<1>5. InTurn /\ MarkersLast /\ MarkersBound BY DEF InTurn, MarkersLast, MarkersBound, Enqueued, Started
<1> QED BY <1>1, <1>2, <1>3, <1>4, <1>5 DEF IInv

LEMMA TypeStep ==
  ASSUME TypeOK, InHand, Next
  PROVE  TypeOK'
<1> USE QueueAssumption DEF TypeOK, Events, listVars, eventVars, readyVars, schedVars
<1>1. CASE HostCall
  <2>1. ASSUME NEW c \in Commands, NEW W \in SUBSET Enqueued, NEW same \in MayInherit, Enqueue(c, W, same)
        PROVE  TypeOK'
    BY <2>1 DEF Enqueue, Enqueued
  <2>2. ASSUME NEW d \in Devices, Progress(d)
        PROVE  TypeOK'
    BY <2>2 DEF Progress
  <2> QED BY <1>1, <2>1, <2>2 DEF HostCall
<1>2. CASE Scheduler
  <2>1. CASE BeginPass BY <2>1 DEF BeginPass
  <2>2. CASE PeekNothing BY <2>2 DEF PeekNothing
  <2>3. ASSUME NEW c \in Commands, Peek(c) PROVE TypeOK' BY <2>3 DEF Peek
  <2>4. ASSUME NEW g \in Clones, Unresolved(g) PROVE TypeOK' BY <2>4 DEF Unresolved, InHand
  <2>5. ASSUME NEW d \in Devices, Submit(d) PROVE TypeOK' BY <2>5 DEF Submit, InHand
  <2>6. CASE CompleteAtOnce BY <2>6 DEF CompleteAtOnce, InHand
  <2>7. CASE Dequeue BY <2>7 DEF Dequeue
  <2> QED BY <1>2, <2>1, <2>2, <2>3, <2>4, <2>5, <2>6, <2>7 DEF Scheduler
<1>3. ASSUME NEW d \in Devices, Issuer(d)
      PROVE  TypeOK'
  <2>1. ASSUME NEW c \in Commands, TakeReady(d, c) PROVE TypeOK' BY <2>1 DEF TakeReady
  <2>2. CASE SetAsComplete(d) BY <2>2 DEF SetAsComplete
  <2> QED BY <1>3, <2>1, <2>2 DEF Issuer
<1>4. ASSUME NEW g \in Clones, CompleteClone(g)
      PROVE  TypeOK'
  BY <1>4 DEF CompleteClone
<1> QED BY <1>1, <1>2, <1>3, <1>4 DEF Next

(* A call that enqueues. *)
LEMMA EnqueueStep ==
  ASSUME Undisturbed, IInv, TypeOK', NEW c \in Commands, NEW W \in SUBSET Enqueued, NEW same \in MayInherit, Enqueue(c, W, same)
  PROVE  IInv'
<1> USE QueueAssumption DEF IInv, TypeOK, Events, listVars, eventVars, readyVars, schedVars
<1>a. /\ status[c] = "none" /\ status' = [status EXCEPT ![c] = "queued"]
      /\ waits' = [waits EXCEPT ![c] = W]
      /\ order' = [order EXCEPT ![c] = issued + 1] /\ issued' = issued + 1
      /\ listed' = listed \cup {c} /\ heir' = heir
      /\ UNCHANGED <<device, bound, turn, turns, schedAt, current, executing>>
  BY DEF Enqueue, MayInherit, Undisturbed
<1>b. \A b \in Enqueued : b # c /\ order'[b] = order[b] /\ order'[b] < order'[c]
  BY <1>a DEF Ordered, Enqueued
<1>1. InHand' BY <1>a, <1>b DEF InHand, Started
<1>2. Custody' BY <1>a, <1>b DEF Custody
<1>3. Ordered' BY <1>a, <1>b DEF Ordered, Enqueued
<1>4. WaitLists' BY <1>a, <1>b DEF WaitLists, Enqueued
<1>5. StartsInOrder'
  <2>1. \A b \in Commands : Started(b)' <=> Started(b)
    BY <1>a DEF Started
  <2>2. \A b \in Enqueued : IsExecutable(b) => IsExecutable(b)'
    BY <1>a DEF IsExecutable, IsComplete, WaitLists, Enqueued
  <2>3. \A b \in Enqueued : Ahead(b)' = Ahead(b)
    BY <1>a, <1>b DEF Ahead, Enqueued, Precedes, Overtakable
  <2>4. \A b \in Commands : Started(b) => b \in Enqueued
    BY DEF Started, Enqueued
  <2>5. \A b \in Commands : Started(b)' =>
          IsExecutable(b)' /\ \A x \in Ahead(b)' : Started(x)'
    <3>1. \A b \in Commands : Ahead(b) \subseteq Commands BY DEF Ahead, Enqueued
    <3> QED BY <3>1, <2>1, <2>2, <2>3, <2>4 DEF StartsInOrder
  <2>6. ASSUME schedAt' = "resolve"
        PROVE  IsExecutable(current)' /\ \A x \in Ahead(current)' : Started(x)'
    <3>1. current \in Enqueued /\ current' = current BY <1>a, <2>6 DEF InHand, Enqueued
    <3>2. IsExecutable(current)'
      BY <1>a, <2>6, <3>1 DEF StartsInOrder, IsExecutable, IsComplete, WaitLists, Enqueued
    <3>3. \A x \in Ahead(current)' : Started(x)'
      BY <1>a, <1>b, <2>6, <3>1
      DEF StartsInOrder, Ahead, Started, Enqueued, Precedes, Overtakable
    <3> QED BY <3>2, <3>3
  <2> QED BY <2>5, <2>6 DEF StartsInOrder
<1>6. Executing' BY <1>a, <1>b DEF Executing
<1>7. InTurn' BY <1>a, <1>b DEF InTurn, Started, IsComplete
<1>8. MarkersLast'
  <2> SUFFICES ASSUME NEW m \in Markers, NEW b \in Enqueued', Precedes(b, m)',
                      bound[b] = bound[m], bound[m] # None
               PROVE  turn[b] < turn[m]
    BY <1>a DEF MarkersLast
  <2>1. m \in Enqueued /\ b \in Enqueued
    BY <1>a DEF InTurn, Started, Enqueued
  <2> QED BY <1>b, <2>1 DEF MarkersLast, Precedes
<1>9. MarkersBound' BY <1>a, <1>b DEF MarkersBound, Started
<1> QED BY <1>1, <1>2, <1>3, <1>4, <1>5, <1>6, <1>7, <1>8, <1>9

(* Progress(). *)
LEMMA ProgressStep ==
  ASSUME Undisturbed, IInv, TypeOK', NEW d \in Devices, Progress(d)
  PROVE  IInv'
<1> USE QueueAssumption DEF IInv, TypeOK, Events, listVars, eventVars, readyVars, schedVars
<1>1. InHand' BY DEF Progress, InHand, Started
<1>2. Custody' BY DEF Progress, Custody, Undisturbed
<1>3. Ordered' BY DEF Progress, Ordered, Enqueued
<1>4. WaitLists' BY DEF Progress, WaitLists, Enqueued
<1>5. StartsInOrder' BY DEF Progress, StartsInOrder, Started, Ahead, Enqueued, Precedes, Overtakable, IsExecutable, IsComplete
<1>6. Executing' BY DEF Progress, Executing
<1>7. InTurn' BY DEF Progress, InTurn, Started, IsComplete
<1>8. MarkersLast' BY DEF Progress, MarkersLast, Enqueued, Precedes, Started
<1>9. MarkersBound' BY DEF Progress, MarkersBound, Started
<1> QED BY <1>1, <1>2, <1>3, <1>4, <1>5, <1>6, <1>7, <1>8, <1>9

(* The start of a pass. *)
LEMMA BeginPassStep ==
  ASSUME Undisturbed, IInv, TypeOK', BeginPass
  PROVE  IInv'
<1> USE QueueAssumption DEF IInv, TypeOK, Events, listVars, eventVars, readyVars, schedVars
<1>1. InHand' BY DEF BeginPass, InHand, Started
<1>2. Custody' BY DEF BeginPass, Custody
<1>3. Ordered' BY DEF BeginPass, Ordered, Enqueued
<1>4. WaitLists' BY DEF BeginPass, WaitLists, Enqueued
<1>5. StartsInOrder' BY DEF BeginPass, StartsInOrder, Started, Ahead, Enqueued, Precedes, Overtakable, IsExecutable, IsComplete
<1>6. Executing' BY DEF BeginPass, Executing
<1>7. InTurn' BY DEF BeginPass, InTurn, Started, IsComplete
<1>8. MarkersLast' BY DEF BeginPass, MarkersLast, Enqueued, Precedes, Started
<1>9. MarkersBound' BY DEF BeginPass, MarkersBound, Started
<1> QED BY <1>1, <1>2, <1>3, <1>4, <1>5, <1>6, <1>7, <1>8, <1>9

(* Peek() without a result. *)
LEMMA PeekNothingStep ==
  ASSUME Undisturbed, IInv, TypeOK', PeekNothing
  PROVE  IInv'
<1> USE QueueAssumption DEF IInv, TypeOK, Events, listVars, eventVars, readyVars, schedVars
<1>1. InHand' BY DEF PeekNothing, InHand, Started
<1>2. Custody' BY DEF PeekNothing, Custody
<1>3. Ordered' BY DEF PeekNothing, Ordered, Enqueued
<1>4. WaitLists' BY DEF PeekNothing, WaitLists, Enqueued
<1>5. StartsInOrder' BY DEF PeekNothing, StartsInOrder, Started, Ahead, Enqueued, Precedes, Overtakable, IsExecutable, IsComplete
<1>6. Executing' BY DEF PeekNothing, Executing
<1>7. InTurn' BY DEF PeekNothing, InTurn, Started, IsComplete
<1>8. MarkersLast' BY DEF PeekNothing, MarkersLast, Enqueued, Precedes, Started
<1>9. MarkersBound' BY DEF PeekNothing, MarkersBound, Started
<1> QED BY <1>1, <1>2, <1>3, <1>4, <1>5, <1>6, <1>7, <1>8, <1>9

(* Peek(). *)
LEMMA PeekStep ==
  ASSUME Undisturbed, IInv, TypeOK', NEW c \in Commands, Peek(c)
  PROVE  IInv'
<1> USE QueueAssumption DEF IInv, TypeOK, Events, listVars, eventVars, readyVars, schedVars
<1>1. InHand' BY DEF Peek, Peekable, InHand, Started, Custody
<1>2. Custody' BY DEF Peek, Peekable, Custody
<1>3. Ordered' BY DEF Peek, Peekable, Ordered, Enqueued
<1>4. WaitLists' BY DEF Peek, Peekable, WaitLists, Enqueued
<1>5. StartsInOrder' BY DEF Peek, Peekable, StartsInOrder, Started, Ahead, Enqueued, Precedes, Overtakable, IsExecutable, IsComplete, Custody, InHand
<1>6. Executing' BY DEF Peek, Peekable, Executing
<1>7. InTurn' BY DEF Peek, Peekable, InTurn, Started, IsComplete
<1>8. MarkersLast' BY DEF Peek, Peekable, MarkersLast, Enqueued, Precedes, Started
<1>9. MarkersBound' BY DEF Peek, Peekable, MarkersBound, Started
<1> QED BY <1>1, <1>2, <1>3, <1>4, <1>5, <1>6, <1>7, <1>8, <1>9

(* ResolveConsistency(). *)
LEMMA UnresolvedStep ==
  ASSUME Undisturbed, IInv, TypeOK', NEW g \in Clones, Unresolved(g)
  PROVE  IInv'
<1> USE QueueAssumption DEF IInv, TypeOK, Events, listVars, eventVars, readyVars, schedVars
<1>1. InHand' BY DEF Unresolved, InHand, Started
<1>2. Custody' BY DEF Unresolved, Custody
<1>3. Ordered' BY DEF Unresolved, Ordered, Enqueued, InHand
<1>4. WaitLists' BY DEF Unresolved, WaitLists, Enqueued
<1>5. StartsInOrder' BY DEF Unresolved, StartsInOrder, Started, Ahead, Enqueued, Precedes, Overtakable, IsExecutable, IsComplete, InHand
<1>6. Executing' BY DEF Unresolved, Executing
<1>7. InTurn' BY DEF Unresolved, InTurn, Started, IsComplete
<1>8. MarkersLast' BY DEF Unresolved, MarkersLast, Enqueued, Precedes, Started
<1>9. MarkersBound' BY DEF Unresolved, MarkersBound, Started
<1> QED BY <1>1, <1>2, <1>3, <1>4, <1>5, <1>6, <1>7, <1>8, <1>9

(* Submit(). *)
LEMMA SubmitStep ==
  ASSUME Undisturbed, IInv, TypeOK', NEW d \in Devices, Submit(d)
  PROVE  IInv'
<1> USE QueueAssumption DEF IInv, TypeOK, Events, listVars, eventVars, readyVars, schedVars
<1>a. /\ current \in Commands /\ status[current] = "queued"
      /\ status' = [status EXCEPT ![current] = "submitted"]
      /\ bound' = [bound EXCEPT ![current] = d]
      /\ turns' = turns + 1 /\ turn' = [turn EXCEPT ![current] = turns + 1]
      /\ schedAt = "resolve" /\ schedAt' = "dequeue"
      /\ UNCHANGED <<listed, order, issued, waits, device, current, heir, executing>>
  BY DEF Submit, InHand
<1>1. InHand' BY <1>a DEF InHand, Started
<1>2. Custody' BY <1>a DEF Custody
<1>3. Ordered' BY <1>a DEF Ordered, Enqueued
<1>4. WaitLists' BY <1>a DEF WaitLists, Enqueued
<1>5. StartsInOrder' BY <1>a DEF StartsInOrder, Started, Ahead, Enqueued, Precedes, Overtakable, IsExecutable, IsComplete
<1>6. Executing' BY <1>a DEF Executing
<1>7. InTurn' BY <1>a DEF InTurn, Started, IsComplete
<1>8. MarkersLast'
  <2> SUFFICES ASSUME NEW m \in Markers, NEW b \in Enqueued', Precedes(b, m)',
                      bound'[b] = bound'[m], bound'[m] # None
               PROVE  turn'[b] < turn'[m]
    BY DEF MarkersLast
  <2>1. b \in Enqueued /\ m \in Enqueued /\ Precedes(b, m)
    BY <1>a DEF Precedes, Enqueued, InTurn, Started
  <2>2. CASE b = current
    <3>1. m # current BY <2>1, <2>2 DEF Precedes
    <3>2. Started(m) /\ b \in Ahead(m)
      BY <1>a, <2>1, <3>1 DEF InTurn, Ahead, Overtakable
    <3> QED BY <1>a, <2>2, <3>2 DEF StartsInOrder, Started
  <2>3. CASE b # current /\ m = current
    BY <1>a, <2>1, <2>3 DEF InTurn, Enqueued
  <2>4. CASE b # current /\ m # current
    BY <1>a, <2>1, <2>4 DEF MarkersLast
  <2> QED BY <2>2, <2>3, <2>4
<1>9. MarkersBound' BY <1>a DEF MarkersBound, Started
<1> QED BY <1>1, <1>2, <1>3, <1>4, <1>5, <1>6, <1>7, <1>8, <1>9

(* A command that is complete at once. *)
LEMMA CompleteAtOnceStep ==
  ASSUME Undisturbed, IInv, TypeOK', CompleteAtOnce
  PROVE  IInv'
<1> USE QueueAssumption DEF IInv, TypeOK, Events, listVars, eventVars, readyVars, schedVars
<1>1. InHand' BY DEF CompleteAtOnce, InHand, Started
<1>2. Custody' BY DEF CompleteAtOnce, Custody, InHand
<1>3. Ordered' BY DEF CompleteAtOnce, Ordered, Enqueued, InHand
<1>4. WaitLists' BY DEF CompleteAtOnce, WaitLists, Enqueued
<1>5. StartsInOrder' BY DEF CompleteAtOnce, StartsInOrder, Started, Ahead, Enqueued, Precedes, Overtakable, IsExecutable, IsComplete
<1>6. Executing' BY DEF CompleteAtOnce, Executing, InHand
<1>7. InTurn' BY DEF CompleteAtOnce, InTurn, Started, IsComplete, InHand
<1>8. MarkersLast' BY DEF CompleteAtOnce, MarkersLast, Enqueued, Precedes, Started, InHand
<1>9. MarkersBound' BY DEF CompleteAtOnce, MarkersBound, Started
<1> QED BY <1>1, <1>2, <1>3, <1>4, <1>5, <1>6, <1>7, <1>8, <1>9

(* Dequeue(). *)
LEMMA DequeueStep ==
  ASSUME Undisturbed, IInv, TypeOK', Dequeue
  PROVE  IInv'
<1> USE QueueAssumption DEF IInv, TypeOK, Events, listVars, eventVars, readyVars, schedVars
<1>1. InHand' BY DEF Dequeue, InHand, Started
<1>2. Custody'
  <2>1. /\ current \in Commands /\ Started(current) /\ heir = None
        /\ listed' = listed \ {current, heir} /\ status' = status
        /\ schedAt = "dequeue" /\ schedAt' = "wait"
    BY DEF Dequeue, InHand
  <2>2. \A c \in Commands : c \in listed' <=> c \in listed /\ c # current
    BY <2>1
  <2> QED BY <2>1, <2>2 DEF Custody, Started
<1>3. Ordered' BY DEF Dequeue, Ordered, Enqueued
<1>4. WaitLists' BY DEF Dequeue, WaitLists, Enqueued
<1>5. StartsInOrder' BY DEF Dequeue, StartsInOrder, Started, Ahead, Enqueued, Precedes, Overtakable, IsExecutable, IsComplete
<1>6. Executing' BY DEF Dequeue, Executing
<1>7. InTurn' BY DEF Dequeue, InTurn, Started, IsComplete
<1>8. MarkersLast' BY DEF Dequeue, MarkersLast, Enqueued, Precedes, Started
<1>9. MarkersBound' BY DEF Dequeue, MarkersBound, Started
<1> QED BY <1>1, <1>2, <1>3, <1>4, <1>5, <1>6, <1>7, <1>8, <1>9

(* An issuer that takes a command. *)
LEMMA TakeReadyStep ==
  ASSUME Undisturbed, IInv, TypeOK', NEW d \in Devices, NEW c \in Commands, TakeReady(d, c)
  PROVE  IInv'
<1> USE QueueAssumption DEF IInv, TypeOK, Events, listVars, eventVars, readyVars, schedVars
<1>a. /\ status[c] = "submitted" /\ bound[c] = d /\ executing[d] = None
      /\ status' = [status EXCEPT ![c] = "running"]
      /\ executing' = [executing EXCEPT ![d] = c]
      /\ UNCHANGED <<listed, order, issued, waits, device, bound, turn, turns, schedAt, current, heir>>
      /\ \A b \in Commands : status[b] = "submitted" /\ bound[b] = d => turn[c] <= turn[b]
  BY DEF TakeReady, Ready, First
<1>1. InHand' BY <1>a DEF InHand, Started
<1>2. Custody' BY <1>a DEF Custody
<1>3. Ordered' BY <1>a DEF Ordered, Enqueued
<1>4. WaitLists' BY <1>a DEF WaitLists, Enqueued
<1>5. StartsInOrder' BY <1>a DEF StartsInOrder, Started, Ahead, Enqueued, Precedes, Overtakable, IsExecutable, IsComplete
<1>6. Executing' BY <1>a DEF Executing
<1>7. InTurn'
  <2>1. \A b \in Commands : bound[b] = d /\ turn[b] < turn[c] => IsComplete(b)
    BY <1>a DEF InTurn, Executing, Started, IsComplete
  <2>2. \A b \in Commands : IsComplete(b) => b # c /\ IsComplete(b)'
    BY <1>a DEF IsComplete
  <2>3. \A b \in Commands : Started(b)' <=> Started(b)
    BY <1>a DEF Started
  <2>4. \A b \in Commands : b # c => status'[b] = status[b]
    BY <1>a
  <2> QED BY <1>a, <2>1, <2>2, <2>3, <2>4 DEF InTurn
<1>8. MarkersLast' BY <1>a DEF MarkersLast, Enqueued, Precedes, Started
<1>9. MarkersBound' BY <1>a DEF MarkersBound, Started
<1> QED BY <1>1, <1>2, <1>3, <1>4, <1>5, <1>6, <1>7, <1>8, <1>9

(* SetAsComplete(). *)
LEMMA SetAsCompleteStep ==
  ASSUME Undisturbed, IInv, TypeOK', NEW d \in Devices, SetAsComplete(d)
  PROVE  IInv'
<1> USE QueueAssumption DEF IInv, TypeOK, Events, listVars, eventVars, readyVars, schedVars
<1>a. PICK c \in Commands : executing[d] = c /\ status[c] = "running" /\ bound[c] = d
  BY DEF SetAsComplete, Executing
<1>b. /\ status' = [status EXCEPT ![c] = "complete"]
      /\ executing' = [executing EXCEPT ![d] = None]
      /\ UNCHANGED <<listed, order, issued, waits, device, bound, turn, turns, schedAt, current, heir>>
  BY <1>a DEF SetAsComplete
<1>1. InHand' BY <1>a, <1>b DEF InHand, Started
<1>2. Custody' BY <1>a, <1>b DEF Custody
<1>3. Ordered' BY <1>a, <1>b DEF Ordered, Enqueued
<1>4. WaitLists' BY <1>a, <1>b DEF WaitLists, Enqueued
<1>5. StartsInOrder' BY <1>a, <1>b DEF StartsInOrder, Started, Ahead, Enqueued, Precedes, Overtakable, IsExecutable, IsComplete
<1>6. Executing' BY <1>a, <1>b DEF Executing
<1>7. InTurn' BY <1>a, <1>b DEF InTurn, Started, IsComplete
<1>8. MarkersLast' BY <1>a, <1>b DEF MarkersLast, Enqueued, Precedes, Started
<1>9. MarkersBound' BY <1>a, <1>b DEF MarkersBound, Started
<1> QED BY <1>1, <1>2, <1>3, <1>4, <1>5, <1>6, <1>7, <1>8, <1>9

(* A clone that is complete. *)
LEMMA CompleteCloneStep ==
  ASSUME Undisturbed, IInv, TypeOK', NEW g \in Clones, CompleteClone(g)
  PROVE  IInv'
<1> USE QueueAssumption DEF IInv, TypeOK, Events, listVars, eventVars, readyVars, schedVars
<1>1. InHand' BY DEF CompleteClone, InHand, Started
<1>2. Custody' BY DEF CompleteClone, Custody
<1>3. Ordered' BY DEF CompleteClone, Ordered, Enqueued
<1>4. WaitLists' BY DEF CompleteClone, WaitLists, Enqueued
<1>5. StartsInOrder' BY DEF CompleteClone, StartsInOrder, Started, Ahead, Enqueued, Precedes, Overtakable, IsExecutable, IsComplete
<1>6. Executing' BY DEF CompleteClone, Executing
<1>7. InTurn' BY DEF CompleteClone, InTurn, Started, IsComplete
<1>8. MarkersLast' BY DEF CompleteClone, MarkersLast, Enqueued, Precedes, Started
<1>9. MarkersBound' BY DEF CompleteClone, MarkersBound, Started
<1> QED BY <1>1, <1>2, <1>3, <1>4, <1>5, <1>6, <1>7, <1>8, <1>9

-----------------------------------------------------------------------------

LEMMA Preserved ==
  ASSUME Undisturbed, IInv, [Next]_vars
  PROVE  IInv'
<1>1. CASE Next
  <2>t. TypeOK'
    BY <1>1, TypeStep DEF IInv
  <2>1. CASE HostCall
    BY <2>t, <2>1, EnqueueStep, ProgressStep DEF HostCall
  <2>2. CASE Scheduler
    BY <2>t, <2>2, BeginPassStep, PeekNothingStep, PeekStep, UnresolvedStep, SubmitStep,
       CompleteAtOnceStep, DequeueStep DEF Scheduler
  <2>3. ASSUME NEW d \in Devices, Issuer(d)
        PROVE  IInv'
    BY <2>t, <2>3, TakeReadyStep, SetAsCompleteStep DEF Issuer
  <2>4. ASSUME NEW g \in Clones, CompleteClone(g)
        PROVE  IInv'
    BY <2>t, <2>4, CompleteCloneStep
  <2> QED BY <1>1, <2>1, <2>2, <2>3, <2>4 DEF Next
<1>2. CASE UNCHANGED vars
  BY <1>2 DEF vars, listVars, eventVars, readyVars, schedVars, IInv, TypeOK, InHand, Custody, Ordered,
     WaitLists, StartsInOrder, Executing, InTurn, MarkersLast, MarkersBound, Started, Enqueued,
     Ahead, Precedes, Overtakable, IsExecutable, IsComplete
<1> QED BY <1>1, <1>2

(* The inductive invariant of CLOutOfOrderCommandQueue and its scheduler. *)
THEOREM Invariance == ASSUME Undisturbed PROVE Spec => []IInv
<1>1. IInv /\ [Next]_vars => IInv' BY Preserved
<1> QED BY <1>1, Initially, PTL DEF Spec

(* Every variable keeps to its type. *)
THEOREM TypeCorrect == ASSUME Undisturbed PROVE Spec => []TypeOK
<1>1. IInv => TypeOK BY DEF IInv
<1> QED BY <1>1, Invariance, PTL

(* A marker that is complete covers what went to its device before: what   *)
(* clFinish() may rely on. *)
THEOREM FinishIsSound == ASSUME Undisturbed PROVE Spec => []FinishCovers
<1>1. IInv => FinishCovers
  <2> SUFFICES ASSUME IInv, NEW m \in Markers, NEW c \in Commands, IsComplete(m),
                      status[c] # "none", Precedes(c, m), bound[c] = bound[m]
               PROVE  IsComplete(c)
    BY DEF FinishCovers
  <2>1. m \in Commands /\ bound[m] # None
    BY QueueAssumption DEF IInv, MarkersBound, Started, IsComplete
  <2>2. turn[c] < turn[m]
    BY <2>1 DEF IInv, MarkersLast, Enqueued
  <2> QED BY <2>1, <2>2 DEF IInv, InTurn, IsComplete
<1> QED BY <1>1, Invariance, PTL

-----------------------------------------------------------------------------
(* The queue implements QueueOrder. *)

LEMMA OrderInitial == Init => Abstract!Init
<1> SUFFICES ASSUME Init PROVE Abstract!Init OBVIOUS
<1>1. \A c \in Commands : Stage(c) = "none" /\ waits[c] \ Clones = {} /\ Ahead(c) = {}
  BY DEF Init, Stage, Ahead, Enqueued, Events
<1> QED BY <1>1 DEF Abstract!Init

(* What a step that enqueues nothing leaves as it is. *)
LEMMA SameOrder ==
  ASSUME order' = order,
         \A c \in Commands : status'[c] = "none" <=> status[c] = "none",
         \A c \in Commands : waits'[c] \ Clones = waits[c] \ Clones,
         \A m \in Markers : waits'[m] = waits[m]
  PROVE  /\ [c \in Commands |-> Ahead(c)]' = [c \in Commands |-> Ahead(c)]
         /\ [c \in Commands |-> waits[c] \ Clones]' = [c \in Commands |-> waits[c] \ Clones]
<1>1. \A c \in Commands : Ahead(c)' = Ahead(c)
  BY QueueAssumption DEF Ahead, Enqueued, Precedes, Overtakable
<1> QED BY <1>1

LEMMA Stutters ==
  ASSUME order' = order,
         \A c \in Commands : Stage(c)' = Stage(c) /\ (status'[c] = "none" <=> status[c] = "none"),
         \A c \in Commands : waits'[c] \ Clones = waits[c] \ Clones,
         \A m \in Markers : waits'[m] = waits[m]
  PROVE  UNCHANGED Abstract!vars
<1>1. [c \in Commands |-> Stage(c)]' = [c \in Commands |-> Stage(c)] OBVIOUS
<1> QED BY <1>1, SameOrder DEF Abstract!vars

LEMMA EnqueueEnqueues ==
  ASSUME Undisturbed, IInv, NEW c \in Commands, NEW W \in SUBSET Enqueued,
         NEW same \in MayInherit, Enqueue(c, W, same)
  PROVE  Abstract!Enqueue(c, W) /\ W \in SUBSET Abstract!Enqueued
<1> USE QueueAssumption DEF IInv, TypeOK, Events
<1>a. /\ status[c] = "none" /\ status' = [status EXCEPT ![c] = "queued"]
      /\ waits' = [waits EXCEPT ![c] = W]
      /\ order' = [order EXCEPT ![c] = issued + 1]
  BY DEF Enqueue
<1>b. Abstract!Enqueued = Enqueued
  BY DEF Abstract!Enqueued, Enqueued, Stage
<1>1. /\ Stage(c) = "none"
      /\ [b \in Commands |-> Stage(b)]' = [[b \in Commands |-> Stage(b)] EXCEPT ![c] = "queued"]
  BY <1>a DEF Stage
<1>2. [b \in Commands |-> waits[b] \ Clones]' =
        [[b \in Commands |-> waits[b] \ Clones] EXCEPT ![c] = W]
  <2>1. W \ Clones = W
    BY DEF Enqueued
  <2>2. \A b \in Commands : waits'[b] = IF b = c THEN W ELSE waits[b]
    BY <1>a
  <2> QED BY <2>1, <2>2
<1>3. [b \in Commands |-> Ahead(b)]' =
        [[b \in Commands |-> Ahead(b)] EXCEPT ![c] = Abstract!Ahead(c)]
  <2>1. \A b \in Commands : b # c => Ahead(b)' = Ahead(b)
    BY <1>a DEF Ahead, Enqueued, Precedes, Overtakable, Ordered
  <2>2. Ahead(c)' = Abstract!Ahead(c)
    <3>1. \A b \in Enqueued : b # c /\ Precedes(b, c)' /\ waits'[b] = waits[b]
      BY <1>a DEF Enqueued, Precedes, Ordered
    <3>2. Enqueued' = Enqueued \cup {c} /\ ~Precedes(c, c)'
      BY <1>a DEF Enqueued, Precedes
    <3>3. \A b \in Enqueued : Overtakable(b, c)' <=>
            c \notin Markers /\ ~(b \in Markers /\ waits[b] = {})
      BY <3>1 DEF Overtakable
    <3>4. Ahead(c)' = {b \in Enqueued : c \in Markers \/ (b \in Markers /\ waits[b] = {})}
      BY <3>1, <3>2, <3>3 DEF Ahead
    <3>5. \A b \in Enqueued \cap Markers :
            [x \in Commands |-> waits[x] \ Clones][b] = waits[b]
      BY DEF WaitLists
    <3>6. CASE c \in Markers
      BY <1>b, <3>4, <3>6 DEF Abstract!Ahead
    <3>7. CASE c \notin Markers
      <4>1. Ahead(c)' = {b \in Enqueued \cap Markers : waits[b] = {}}
        BY <3>4, <3>7
      <4>2. Abstract!Ahead(c) =
              {b \in Enqueued \cap Markers : [x \in Commands |-> waits[x] \ Clones][b] = {}}
        BY <1>b, <3>7 DEF Abstract!Ahead
      <4>3. {b \in Enqueued \cap Markers : [x \in Commands |-> waits[x] \ Clones][b] = {}} =
              {b \in Enqueued \cap Markers : waits[b] = {}}
        BY <3>5
      <4> QED BY <4>1, <4>2, <4>3
    <3> QED BY <3>6, <3>7
  <2> QED BY <2>1, <2>2
<1> QED BY <1>1, <1>2, <1>3, <1>b DEF Abstract!Enqueue

(* The command in hand may start. *)
LEMMA CurrentMayStart ==
  ASSUME IInv, schedAt = "resolve"
  PROVE  current \in Commands /\ Abstract!MayStart(current)
<1> USE DEF IInv
<1>1. current \in Commands /\ status[current] = "queued" BY DEF InHand
<1>2. \A b \in Commands : IsComplete(b) => Stage(b) = "complete" BY DEF IsComplete, Stage
<1>3. \A b \in Commands : Started(b) => Stage(b) \in {"started", "complete"} BY DEF Started, Stage
<1>4. waits[current] \ Clones \subseteq Commands /\ Ahead(current) \subseteq Commands
  BY <1>1 DEF WaitLists, Enqueued, Ahead
<1>5. \A b \in waits[current] \ Clones : IsComplete(b) BY DEF StartsInOrder, IsExecutable
<1>6. \A b \in Ahead(current) : Started(b) BY DEF StartsInOrder
<1>7. Stage(current) = "queued" BY <1>1 DEF Stage
<1> QED BY <1>1, <1>2, <1>3, <1>4, <1>5, <1>6, <1>7 DEF Abstract!MayStart

LEMMA Implements ==
  ASSUME Undisturbed, IInv, [Next]_vars
  PROVE  [Abstract!Next]_(Abstract!vars)
<1> USE QueueAssumption DEF listVars, eventVars, readyVars, schedVars
<1>t. TypeOK /\ InHand BY DEF IInv
<1>1. CASE HostCall
  <2>1. ASSUME NEW c \in Commands, NEW W \in SUBSET Enqueued, NEW same \in MayInherit, Enqueue(c, W, same)
        PROVE  Abstract!Next
    BY <2>1, EnqueueEnqueues DEF Abstract!Next
  <2>2. ASSUME NEW d \in Devices, Progress(d)
        PROVE  UNCHANGED Abstract!vars
    <3>1. UNCHANGED <<order, status, waits>> BY <2>2 DEF Progress
    <3> QED BY <3>1, Stutters DEF Stage
  <2> QED BY <1>1, <2>1, <2>2 DEF HostCall
<1>2. ASSUME UNCHANGED <<order, status, waits>>
      PROVE  UNCHANGED Abstract!vars
  BY <1>2, Stutters DEF Stage
<1>3. CASE BeginPass \/ PeekNothing \/ Dequeue \/ \E c \in Commands : Peek(c)
  BY <1>2, <1>3 DEF BeginPass, PeekNothing, Dequeue, Peek
<1>4. ASSUME NEW g \in Clones, Unresolved(g)
      PROVE  UNCHANGED Abstract!vars
  <2>1. current \in Commands \ Markers /\ order' = order /\ waits' = [waits EXCEPT ![current] = @ \cup {g}]
    BY <1>t, <1>4 DEF Unresolved, InHand
  <2>2. \A c \in Commands : status'[c] = status[c]
    BY <1>4 DEF Unresolved
  <2>3. \A c \in Commands : waits'[c] \ Clones = waits[c] \ Clones
    BY <1>t, <2>1 DEF TypeOK
  <2>4. \A m \in Markers : waits'[m] = waits[m]
    BY <1>t, <2>1 DEF TypeOK
  <2> QED BY <2>1, <2>2, <2>3, <2>4, Stutters DEF Stage
<1>5. ASSUME NEW d \in Devices, Submit(d)
      PROVE  Abstract!Next
  <2>1. current \in Commands /\ Abstract!MayStart(current)
    BY <1>5, CurrentMayStart DEF Submit
  <2>2. status' = [status EXCEPT ![current] = "submitted"] /\ UNCHANGED <<order, waits>>
    BY <1>5 DEF Submit
  <2>3. status'[current] = "submitted" /\ \A b \in Commands : b # current => status'[b] = status[b]
    BY <1>t, <2>1, <2>2 DEF TypeOK, Events
  <2>4. status[current] = "queued" BY <1>t, <1>5 DEF Submit, InHand
  <2>5. [c \in Commands |-> Stage(c)]' = [[c \in Commands |-> Stage(c)] EXCEPT ![current] = "started"]
    BY <2>1, <2>3 DEF Stage
  <2>6. /\ [c \in Commands |-> Ahead(c)]' = [c \in Commands |-> Ahead(c)]
        /\ [c \in Commands |-> waits[c] \ Clones]' = [c \in Commands |-> waits[c] \ Clones]
    BY <2>2, <2>3, <2>4, SameOrder
  <2> QED BY <2>1, <2>5, <2>6 DEF Abstract!Next, Abstract!Start
<1>6. CASE CompleteAtOnce
  <2>1. current \in Commands /\ Abstract!MayStart(current)
    BY <1>6, CurrentMayStart DEF CompleteAtOnce
  <2>2. status' = [status EXCEPT ![current] = "complete"] /\ UNCHANGED <<order, waits>>
    BY <1>6 DEF CompleteAtOnce
  <2>3. status'[current] = "complete" /\ \A b \in Commands : b # current => status'[b] = status[b]
    BY <1>t, <2>1, <2>2 DEF TypeOK, Events
  <2>4. status[current] = "queued" BY <1>t, <1>6 DEF CompleteAtOnce, InHand
  <2>5. [c \in Commands |-> Stage(c)]' = [[c \in Commands |-> Stage(c)] EXCEPT ![current] = "complete"]
    BY <2>1, <2>3 DEF Stage
  <2>6. /\ [c \in Commands |-> Ahead(c)]' = [c \in Commands |-> Ahead(c)]
        /\ [c \in Commands |-> waits[c] \ Clones]' = [c \in Commands |-> waits[c] \ Clones]
    BY <2>2, <2>3, <2>4, SameOrder
  <2> QED BY <2>1, <2>5, <2>6 DEF Abstract!Next, Abstract!Complete
<1>7. ASSUME NEW d \in Devices, NEW c \in Commands, TakeReady(d, c)
      PROVE  UNCHANGED Abstract!vars
  <2>1. status[c] = "submitted" /\ status' = [status EXCEPT ![c] = "running"] /\ UNCHANGED <<order, waits>>
    BY <1>7 DEF TakeReady, Ready
  <2>2. status'[c] = "running" /\ \A b \in Commands : b # c => status'[b] = status[b]
    BY <1>t, <2>1 DEF TypeOK, Events
  <2>3. \A b \in Commands : Stage(b)' = Stage(b) /\ (status'[b] = "none" <=> status[b] = "none")
    BY <2>1, <2>2 DEF Stage
  <2> QED BY <2>1, <2>3, Stutters
<1>8. ASSUME NEW d \in Devices, SetAsComplete(d)
      PROVE  Abstract!Next
  <2>1. PICK c \in Commands : executing[d] = c /\ status[c] = "running"
    BY <1>t, <1>8 DEF SetAsComplete, IInv, Executing, TypeOK
  <2>2. status' = [status EXCEPT ![c] = "complete"] /\ UNCHANGED <<order, waits>>
    BY <1>8, <2>1 DEF SetAsComplete
  <2>3. status'[c] = "complete" /\ \A b \in Commands : b # c => status'[b] = status[b]
    BY <1>t, <2>1, <2>2 DEF TypeOK, Events
  <2>4. /\ Stage(c) = "started"
        /\ [b \in Commands |-> Stage(b)]' = [[b \in Commands |-> Stage(b)] EXCEPT ![c] = "complete"]
    BY <2>1, <2>3 DEF Stage
  <2>5. /\ [b \in Commands |-> Ahead(b)]' = [b \in Commands |-> Ahead(b)]
        /\ [b \in Commands |-> waits[b] \ Clones]' = [b \in Commands |-> waits[b] \ Clones]
    BY <2>1, <2>2, <2>3, SameOrder
  <2> QED BY <2>1, <2>4, <2>5 DEF Abstract!Next, Abstract!Complete
<1>9. ASSUME NEW g \in Clones, CompleteClone(g)
      PROVE  UNCHANGED Abstract!vars
  <2>1. UNCHANGED <<order, waits>> /\ \A c \in Commands : status'[c] = status[c]
    BY <1>9 DEF CompleteClone
  <2> QED BY <2>1, Stutters DEF Stage
<1>10. CASE UNCHANGED vars
  BY <1>2, <1>10 DEF vars
<1> QED BY <1>1, <1>3, <1>4, <1>5, <1>6, <1>7, <1>8, <1>9, <1>10 DEF Next, Scheduler, Issuer

(* Commands start in an order that QueueOrder allows. *)
THEOREM Refinement == ASSUME Undisturbed PROVE Spec => ImplementsQueueOrder
<1>1. IInv /\ [Next]_vars => [Abstract!Next]_(Abstract!vars) BY Implements
<1> QED BY <1>1, Invariance, OrderInitial, PTL DEF Spec, ImplementsQueueOrder, Abstract!Spec
=============================================================================
