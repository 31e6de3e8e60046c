------------------------- MODULE CommandPipelineInv -------------------------
(***************************************************************************)
(* The inductive invariant of CommandPipeline, in named parts.             *)
(***************************************************************************)
EXTENDS CommandPipeline

(* The scheduler holds a command between Peek() and Dequeue(), and it is   *)
(* at the head of its ring; an issuer holds one between DequeueReadyQueue()*)
(* and its deletion, and no two hold the same.                             *)
Held ==
  /\ current = None <=> schedAt \in {"wait", "scan"}
  /\ current # None =>
       /\ queueOf[current] \in Queues
       /\ pending[queueOf[current]] # <<>>
       /\ Head(pending[queueOf[current]]) = current
  /\ \A d \in Devices : executing[d] = None <=> issuerAt[d] = "wait"
  /\ \A d, f \in Devices : executing[d] = executing[f] /\ executing[d] # None => d = f

(* Rings hold the commands of their queue, each once, which are queued but *)
(* for the one the scheduler has submitted and not yet dropped.            *)
Rings ==
  /\ \A c \in Work : status[c] = "none" => queueOf[c] = None
  /\ \A q \in Queues : \A i \in DOMAIN pending[q] :
       /\ queueOf[pending[q][i]] = q
       /\ status[pending[q][i]] # "queued" =>
            pending[q][i] = current /\ schedAt \in {"push", "invoke", "dequeue"}
       /\ \A j \in DOMAIN pending[q] : pending[q][i] = pending[q][j] => i = j

(* A command in a ready queue is submitted, and is in one place only. *)
InReady ==
  \A d \in Devices : \A i \in DOMAIN ready[d] :
    /\ status[ready[d][i]] = "submitted"
    /\ \A f \in Devices : \A j \in DOMAIN ready[f] :
         ready[d][i] = ready[f][j] => d = f /\ i = j

(* The status of an issuer's command follows the issuer's steps. *)
Issuing ==
  \A d \in Devices :
    /\ issuerAt[d] = "execute" => status[executing[d]] = "running"
    /\ issuerAt[d] \in {"callbacks", "invoke"} => IsComplete(executing[d])

(* A write waiting for the callback of its read is queued, and waits for   *)
(* one read only.                                                          *)
Chained ==
  \A r \in Work : callback[r] # None =>
    /\ status[callback[r]] # "none"
    /\ (\A d \in Devices : executing[d] = r => issuerAt[d] # "invoke") =>
         /\ status[callback[r]] = "queued"
         /\ \A s \in Work : callback[s] = callback[r] => s = r

(* The status of the command in the scheduler's hands. *)
InHand ==
  /\ schedAt \in {"resolve", "submit", "complete"} => status[current] = "queued"
  /\ schedAt = "resolve" => waits[current] \subseteq Clones
  /\ schedAt \in {"submit", "complete"} => waits[current] = {}
  /\ schedAt = "push" =>
       /\ status[current] = "submitted"
       /\ \A d \in Devices : \A i \in DOMAIN ready[d] : ready[d][i] # current
  /\ schedAt \in {"invoke", "dequeue"} => Started(current)

(* Commands of a queue are numbered without gaps, and last_event_ is the   *)
(* event of the last one.                                                  *)
Numbered ==
  /\ \A c \in Commands : queueOf[c] # None => ticket[c] \in 1 .. issued[queueOf[c]]
  /\ \A b, c \in Commands :
       queueOf[b] # None /\ queueOf[b] = queueOf[c] /\ ticket[b] = ticket[c] => b = c
  /\ \A q \in Queues : \A n \in 1 .. issued[q] :
       \E c \in Commands : queueOf[c] = q /\ ticket[c] = n
  /\ \A q \in Queues :
       /\ last[q] = None <=> issued[q] = 0
       /\ last[q] # None => queueOf[last[q]] = q /\ ticket[last[q]] = issued[q]

(* A queued command still waits for its predecessor in the queue, and for  *)
(* each event of its wait list, or that event is complete.                 *)
StillWaits ==
  \A c \in Commands : status[c] = "queued" =>
    /\ \A e \in deps[c] : e \in waits[c] \/ IsComplete(e)
    /\ \A b \in Commands :
         queueOf[b] = queueOf[c] /\ ticket[c] = ticket[b] + 1 => b \in waits[c] \/ IsComplete(b)

(* A command whose call is at the ring is queued and in no ring yet; only   *)
(* the owner of its queue has it. *)
AtRing ==
  \A h \in Hosts : Pushing(h) =>
    /\ blockedOn[h] \in Commands
    /\ status[blockedOn[h]] = "queued"
    /\ queueOf[blockedOn[h]] \in Queues /\ Owner[queueOf[blockedOn[h]]] = h
    /\ blockedOn[h] \notin InRing(queueOf[blockedOn[h]])

IInv ==
  /\ TypeOK /\ AtRing
  /\ Held /\ Rings /\ InReady /\ Issuing /\ Chained /\ InHand
  /\ Numbered /\ StillWaits
  /\ InOrderExecution /\ WaitListRespected

-----------------------------------------------------------------------------
(* What Custody needs besides: where commands on their way to a device are. *)

(* A command that is about to enter a ready queue is bound to a device. *)
Directed ==
  /\ schedAt \in {"resolve", "submit", "push"} => bound[current] \in Devices
  /\ \A r \in Work : callback[r] # None /\ status[callback[r]] = "queued" =>
       bound[callback[r]] \in Devices

InReadyQueue(c) == \E d \in Devices : \E i \in DOMAIN ready[d] : ready[d][i] = c

(* A submitted command is in a ready queue, or the scheduler is pushing it *)
(* there; a running one is in the hands of an issuer. *)
Placed ==
  /\ \A d \in Devices : Len(ready[d]) <= ReadySize
  /\ \A c \in Work : status[c] = "submitted" =>
       InReadyQueue(c) \/ (schedAt = "push" /\ c = current)
  /\ \A c \in Work : status[c] = "running" => \E d \in Devices : executing[d] = c

-----------------------------------------------------------------------------
(* What NoLostWakeup needs besides. *)

(* A post of sem_schedule_ is there or is on its way. *)
Busy ==
  \/ posts > 0
  \/ \E d \in Devices : issuerAt[d] # "wait" \/ ready[d] # <<>>
  \/ \E h \in Hosts : hostAt[h] = "invoke"

(* A pass that leaves a queue behind has given cause for another one: the  *)
(* command it submitted, or the clones it submitted for it. *)
Followed ==
  /\ schedAt = "dequeue" => Busy
  /\ schedAt = "resolve" /\ waits[current] # {} => Busy

(* A queue with work for the scheduler is still to be visited, or another  *)
(* pass will come. *)
Visited ==
  \A q \in Queues : Peekable(q) /\ Head(pending[q]) \in flushed =>
    Busy \/ schedAt = "invoke" \/ (schedAt # "wait" /\ q \in todo)

FlushedAreQueued ==
  /\ \A c \in flushed : queueOf[c] # None
  /\ \A h \in Hosts : Pushing(h) => blockedOn[h] \notin flushed

(* A command that has been enqueued has a queue, so a flush by a waiting   *)
(* host is a flush of a queue. *)
EnqueuedHaveQueues ==
  /\ \A c \in Commands : status[c] # "none" => queueOf[c] # None
  /\ \A h \in Hosts : blockedOn[h] \in Commands => queueOf[blockedOn[h]] # None
=============================================================================
