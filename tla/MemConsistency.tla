--------------------------- MODULE MemConsistency ---------------------------
(***************************************************************************)
(* Where the contents of memory objects are.  A memory object has a copy   *)
(* on each device that has used it, and dev_latest_ lists the devices      *)
(* whose copy is the latest.  Before the scheduler submits a command it    *)
(* brings what the command needs to its device (ResolveConsistency()) and  *)
(* notes what the command will change (UpdateConsistency...()), while the  *)
(* copies themselves change later, when issuer threads execute commands    *)
(* and the internal commands that move data (CloneMem()).                  *)
(*                                                                         *)
(* The application orders the commands of its queues that use a memory     *)
(* object in common, also those that only read it.  All devices are on one *)
(* node.                                                                   *)
(* Versions count the writes to a memory object; None is a mixture.        *)
(***************************************************************************)
EXTENDS Naturals, Sequences, FiniteSets

CONSTANTS
  Queues, Devices, Mems, Commands,
  Context,        \* CLDevice::context() of each device: None on CPU devices
  Writable,       \* memory objects not created with CL_MEM_READ_ONLY
  HostInit,       \* those created with CL_MEM_COPY_HOST_PTR
  Ops,            \* what the application's commands do
  RebindMidway,   \* may a queue change its device between two passes over a command?
  Host,           \* LATEST_HOST
  None

ASSUME MemAssumption ==
  /\ Context \in [Devices -> Devices \cup {None}]
  /\ Writable \subseteq Mems /\ HostInit \subseteq Mems
  /\ Ops \subseteq [kind : {"kernel", "read", "map", "write", "fill", "copy"},
                    src : Mems \cup {None}, dst : Mems \cup {None}, whole : BOOLEAN]
  /\ \A o \in Ops :
       /\ o.src # o.dst
       /\ o.kind \in {"read", "map", "copy"} => o.src \in Mems
       /\ o.kind \in {"write", "fill", "copy"} => o.dst \in Mems
       /\ o.kind \in {"read", "map"} => o.dst = None
       /\ o.kind \in {"write", "fill"} => o.src = None
  /\ None \notin Ops /\ Commands \cap (Commands \X Mems) = {}
  /\ RebindMidway \in BOOLEAN
  /\ Host \notin Devices \cup {None} /\ None \notin Commands \cup Devices \cup Mems

VARIABLES
  op,        \* a command's type and arguments, None until it is enqueued
  queueOf,   \* CLCommand::queue_
  waits,     \* wait_events_
  resolved,  \* consistency_resolved_
  source,    \* device whose handle a copy reads, None if it reads a temporary buffer
  target,    \* device whose handle a copy writes
  device,    \* CLCommandQueue::device_
  last,      \* last_event_
  pending,   \* queue_
  ready,     \* CLDevice::ready_queue_, with the command in the issuer's hands
  done,      \* commands and transfers that are complete
  latest,    \* CLMem::dev_latest_
  copy,      \* the version each device's copy of a memory object holds
  temp,      \* the version in the temporary buffer of a transfer
  value,     \* history: the version an application expects
  crashed    \* the process has dereferenced LATEST_HOST

commandVars == <<op, queueOf>>
resolveVars == <<waits, resolved, source, target>>
dataVars    == <<copy, temp, value>>
vars == <<commandVars, resolveVars, device, last, pending, ready, done, latest, dataVars, crashed>>

-----------------------------------------------------------------------------
(* What the commands need and change *)

(* Slip: a partial write does not bring the rest of the memory object. *)
Located_Slip(o) ==
  CASE o.kind = "kernel" -> {o.src, o.dst} \ {None}
    [] o.kind = "map"    -> {o.src}
    [] OTHER -> {}

(* LocateMemOnDevice(): memory objects that must be on the device itself.  *)
(* A fill is taken to write all of its memory object. *)
Located(o) ==
  CASE o.kind = "kernel" -> {o.src, o.dst} \ {None}
    [] o.kind = "map"    -> {o.src}
    [] o.kind \in {"write", "copy"} /\ ~o.whole -> {o.dst}
    [] OTHER -> {}

(* ChangeDeviceToReadMem(): read wherever the latest copy is. *)
Fetched(o) == IF o.kind \in {"read", "copy"} THEN {o.src} ELSE {}

(* AccessMemOnDevice(): a kernel is taken to write every writable argument. *)
Written(o) ==
  CASE o.kind = "kernel" -> ({o.src, o.dst} \ {None}) \cap Writable
    [] o.kind \in {"write", "fill", "copy"} -> {o.dst}
    [] OTHER -> {}

Touched(o)     == {o.src, o.dst} \ {None}
Conflict(a, b) == Touched(a) \cap Touched(b) # {}

(* A write to an object whose only flag is CL_MEM_READ_ONLY goes to every  *)
(* device; a copy that reads a temporary buffer has become a write. *)
OnEveryDevice(m) == m \notin Writable \cup HostInit
WritesAll(c) ==
  /\ op[c].kind = "write" \/ (op[c].kind = "copy" /\ source[c] = None)
  /\ OnEveryDevice(op[c].dst)

(* No part of the memory object keeps what it had. *)
Overwrites(o) == o.kind \in {"write", "fill", "copy"} /\ o.whole

(* GetNearestLatest(): distances are left open, but d is nearest to itself. *)
Sources(m, d) == IF latest[m] = {} \/ d \in latest[m] THEN {d} ELSE latest[m]

(* GetCopyPattern(): one copy command, or a read and a write. *)
UseCopy(s, d) == s = d \/ (Context[s] = Context[d] /\ Context[s] # None)

Init ==
  /\ op = [c \in Commands |-> None] /\ queueOf = [c \in Commands |-> None]
  /\ waits = [c \in Commands |-> {}] /\ resolved = [c \in Commands |-> FALSE]
  /\ source = [c \in Commands |-> None] /\ target = [c \in Commands |-> None]
  /\ device \in [Queues -> Devices]
  /\ last = [q \in Queues |-> None]
  /\ pending = [q \in Queues |-> <<>>]
  /\ ready = [d \in Devices |-> <<>>]
  /\ done = {}
  /\ latest = [m \in Mems |-> IF m \in HostInit THEN {Host} ELSE {}]
  /\ copy = [m \in Mems |-> [d \in Devices \cup {Host} |->
               IF m \in HostInit /\ d # Host THEN None ELSE 0]]
  /\ temp = [k \in Commands \X Mems |-> None]
  /\ value = [m \in Mems |-> 0]
  /\ crashed = FALSE

-----------------------------------------------------------------------------
(* Host threads *)

(* Slip: last_event_ is waited for although there is none. *)
Enqueue_Slip(q, c, o) ==
  /\ ~crashed /\ op[c] = None
  /\ op' = [op EXCEPT ![c] = o]
  /\ queueOf' = [queueOf EXCEPT ![c] = q]
  /\ waits' = [waits EXCEPT ![c] = {last[q]} \cup
                 {b \in Commands : op[b] # None /\ Conflict(op[b], o)}]
  /\ last' = [last EXCEPT ![q] = c]
  /\ pending' = [pending EXCEPT ![q] = Append(@, c)]
  /\ UNCHANGED <<resolved, source, target, device, ready, done, latest, dataVars, crashed>>

(* A clEnqueue call: the command waits for last_event_ and for the         *)
(* commands that the application orders before it.                         *)
Enqueue(q, c, o) ==
  /\ ~crashed /\ op[c] = None
  /\ op' = [op EXCEPT ![c] = o]
  /\ queueOf' = [queueOf EXCEPT ![c] = q]
  /\ waits' = [waits EXCEPT ![c] = ({last[q]} \ {None}) \cup
                 {b \in Commands : op[b] # None /\ Conflict(op[b], o)}]
  /\ last' = [last EXCEPT ![q] = c]
  /\ pending' = [pending EXCEPT ![q] = Append(@, c)]
  /\ UNCHANGED <<resolved, source, target, device, ready, done, latest, dataVars, crashed>>

(* The scheduler has resolved the head of the ring, which waits for the    *)
(* transfers. *)
Midway(q) == pending[q] # <<>> /\ resolved[Head(pending[q])]

(* A flush lets Progress() bind the queue to another device. *)
Rebind(q, d) ==
  /\ ~crashed /\ d # device[q]
  /\ RebindMidway \/ ~Midway(q)
  /\ device' = [device EXCEPT ![q] = d]
  /\ UNCHANGED <<commandVars, resolveVars, last, pending, ready, done, latest, dataVars, crashed>>

-----------------------------------------------------------------------------
(* The scheduler thread *)

Executable(q) == ~crashed /\ pending[q] # <<>> /\ waits[Head(pending[q])] \subseteq done

(* Slip: a write adds its device to the list. *)
Access_Slip(o, d, L) ==
  [m \in Mems |->
     IF m \in Touched(o) /\ ~(o.kind = "copy" /\ m = o.src) THEN L[m] \cup {d} ELSE L[m]]

(* UpdateConsistency...(): AccessMemOnDevice() of each memory object. *)
Access(o, d, L) ==
  [m \in Mems |->
     IF m \in Written(o) THEN {d}
     ELSE IF m \in Touched(o) /\ ~(o.kind = "copy" /\ m = o.src) THEN L[m] \cup {d}
     ELSE L[m]]

(* Slip: the two devices are swapped. *)
CloneTask_Slip(c, m, s, d) ==
  IF UseCopy(s, d) THEN [what |-> "copy", on |-> s, cmd |-> c, mem |-> m, from |-> d, to |-> s]
                   ELSE [what |-> "read", on |-> d, cmd |-> c, mem |-> m, from |-> d, to |-> s]

(* CloneMem() from s to d for command c, and the read of a copy that goes  *)
(* through a temporary buffer (to = None). *)
CloneTask(c, m, s, d) ==
  IF UseCopy(s, d) THEN [what |-> "copy", on |-> d, cmd |-> c, mem |-> m, from |-> s, to |-> d]
                   ELSE [what |-> "read", on |-> s, cmd |-> c, mem |-> m, from |-> s, to |-> d]
ReadTask(c, m, s) ==
  [what |-> "read", on |-> s, cmd |-> c, mem |-> m, from |-> s, to |-> None]
ExecTask(c, d) ==
  [what |-> "exec", on |-> d, cmd |-> c, mem |-> None, from |-> None, to |-> None]

(* The tasks a command needs before it can be submitted to device d, given *)
(* the device each memory object is taken from. *)
Transfers(c, d, from) ==
  LET o == op[c]
      clone(m) == IF m \in Located(o) /\ from[m] # d
                    THEN <<CloneTask(c, m, from[m], d)>> ELSE <<>>
      read == IF o.kind = "copy" /\ ~UseCopy(from[o.src], d)
                THEN <<ReadTask(c, o.src, from[o.src])>> ELSE <<>>
  IN clone(o.src) \o clone(o.dst) \o read

(* EnqueueReadyQueue() of one task, and of the one or two that a command   *)
(* has. *)
Add(r, t) == [r EXCEPT ![t.on] = Append(@, t)]
Submitted(tasks) ==
  IF Len(tasks) = 1 THEN Add(ready, tasks[1]) ELSE Add(Add(ready, tasks[1]), tasks[2])

(* The device each memory object of a command is taken from. *)
Choices(o, d) ==
  {from \in [Touched(o) \cup {None} -> Devices \cup {Host}] :
     from[None] = d /\ \A m \in Touched(o) : from[m] \in Sources(m, d)}

(* Nothing has to move: the command is submitted, a read to the device     *)
(* that has the latest copy.  Otherwise it waits for the transfers, whose  *)
(* destination counts as up to date from now on. *)
Bring(q, c, d, from) ==
  LET o == op[c]
      tasks == Transfers(c, d, from)
      at == IF o.kind = "read" THEN from[o.src] ELSE d
      moved == {m \in Located(o) : from[m] # d}
  IN
  /\ resolved' = [resolved EXCEPT ![c] = TRUE]
  /\ source' = [source EXCEPT ![c] =
       IF o.kind = "copy" /\ UseCopy(from[o.src], d) THEN from[o.src] ELSE None]
  /\ target' = [target EXCEPT ![c] = d]
  /\ waits' = [waits EXCEPT ![c] = {<<c, tasks[i].mem>> : i \in DOMAIN tasks}]
  /\ IF tasks = <<>>
       THEN /\ latest' = Access(o, at, latest)
            /\ ready' = Submitted(<<ExecTask(c, at)>>)
            /\ pending' = [pending EXCEPT ![q] = Tail(@)]
       ELSE /\ latest' = [m \in Mems |-> IF m \in moved THEN latest[m] \cup {d} ELSE latest[m]]
            /\ ready' = Submitted(tasks)
            /\ UNCHANGED pending

(* ResolveConsistency() of the head of a ring for the first time.  Taking  *)
(* a memory object from LATEST_HOST asks that constant for its context.    *)
Resolve(q) ==
  LET c == Head(pending[q])  o == op[c]  d == device[q] IN
  /\ Executable(q) /\ ~resolved[c]
  /\ \E from \in Choices(o, d) :
       IF \E m \in Located(o) \cup Fetched(o) : from[m] = Host
         THEN /\ crashed' = TRUE
              /\ UNCHANGED <<resolveVars, pending, ready, latest>>
         ELSE Bring(q, c, d, from) /\ UNCHANGED crashed
  /\ UNCHANGED <<commandVars, device, last, done, dataVars>>

(* A later pass, when the transfers are complete: the memory is taken to   *)
(* be consistent, and the command goes to the device its queue has now.    *)
Submit(q) ==
  LET c == Head(pending[q]) IN
  /\ Executable(q) /\ resolved[c]
  /\ latest' = Access(op[c], device[q], latest)
  /\ ready' = Submitted(<<ExecTask(c, device[q])>>)
  /\ pending' = [pending EXCEPT ![q] = Tail(@)]
  /\ UNCHANGED <<commandVars, resolveVars, device, last, done, dataVars, crashed>>

-----------------------------------------------------------------------------
(* The issuer thread of device d *)

(* The version a command finds in a memory object it uses on device d. *)
Found(c, d, m) ==
  IF op[c].kind = "copy" /\ m = op[c].src
    THEN IF source[c] = None THEN temp[<<c, m>>] ELSE copy[m][source[c]]
    ELSE copy[m][d]

Fresh(c, d) ==
  \A m \in Located(op[c]) \cup Fetched(op[c]) : Found(c, d, m) = value[m]

(* The devices a command writes: the one it executes on, the one whose     *)
(* handle a copy command holds, or all of them. *)
Destinations(c, d) ==
  IF WritesAll(c) THEN Devices
  ELSE IF op[c].kind = "copy" /\ source[c] # None THEN {target[c]}
  ELSE {d}

(* Writing part of a copy that is not the latest leaves a mixture. *)
Result(c, d, m, e) ==
  IF Fresh(c, d) /\ (Overwrites(op[c]) \/ copy[m][e] = value[m]) THEN value[m] + 1 ELSE None

Execute(d) ==
  LET t == Head(ready[d])  o == op[t.cmd] IN
  /\ ~crashed /\ ready[d] # <<>> /\ t.what = "exec"
  /\ copy' = [m \in Mems |->
                IF m \notin Written(o) THEN copy[m]
                ELSE [e \in Devices \cup {Host} |->
                        IF e \in Destinations(t.cmd, d) THEN Result(t.cmd, d, m, e)
                                                       ELSE copy[m][e]]]
  /\ value' = [m \in Mems |-> IF m \in Written(o) THEN value[m] + 1 ELSE value[m]]
  /\ latest' = [m \in Mems |-> IF WritesAll(t.cmd) /\ m = o.dst THEN latest[m] \cup Devices
                                                           ELSE latest[m]]
  /\ ready' = [ready EXCEPT ![d] = Tail(@)]
  /\ done' = done \cup {t.cmd}
  /\ UNCHANGED <<commandVars, resolveVars, device, last, pending, temp, crashed>>

(* A transfer: a copy between two devices, or a read whose callback        *)
(* submits the write, or that write, which Execute() sends to every device *)
(* like any other write. *)
Transfer(d) ==
  LET t == Head(ready[d])  k == <<t.cmd, t.mem>>
      all == t.what = "write" /\ OnEveryDevice(t.mem)
  IN
  /\ ~crashed /\ ready[d] # <<>> /\ t.what # "exec"
  /\ copy' = CASE t.what = "copy"  -> [copy EXCEPT ![t.mem][d] = copy[t.mem][t.from]]
               [] t.what = "write" -> [copy EXCEPT ![t.mem] =
                    [e \in Devices \cup {Host} |->
                       IF e = d \/ (all /\ e # Host) THEN temp[k] ELSE @[e]]]
               [] OTHER -> copy
  /\ latest' = IF all THEN [latest EXCEPT ![t.mem] = @ \cup Devices] ELSE latest
  /\ temp' = IF t.what = "read" THEN [temp EXCEPT ![k] = copy[t.mem][d]] ELSE temp
  /\ IF t.what = "read" /\ t.to # None
       THEN /\ ready' = Add([ready EXCEPT ![d] = Tail(@)],
                           [t EXCEPT !.what = "write", !.on = t.to])
            /\ UNCHANGED done
       ELSE /\ ready' = [ready EXCEPT ![d] = Tail(@)]
            /\ done' = done \cup {k}
  /\ UNCHANGED <<commandVars, resolveVars, device, last, pending, value, crashed>>

-----------------------------------------------------------------------------
Next ==
  \/ \E q \in Queues :
       \/ \E c \in Commands, o \in Ops : Enqueue(q, c, o)
       \/ \E d \in Devices : Rebind(q, d)
       \/ Resolve(q)
       \/ Submit(q)
  \/ \E d \in Devices : Execute(d) \/ Transfer(d)

Spec == Init /\ [][Next]_vars

-----------------------------------------------------------------------------
(* Properties *)

Versions == Nat \cup {None}
Transferred == Commands \X Mems

(* Every variable keeps to its type; a task is in the ready queue of the *)
(* device it is for. *)
TypeOK ==
  /\ op \in [Commands -> Ops \cup {None}]
  /\ queueOf \in [Commands -> Queues \cup {None}]
  /\ waits \in [Commands -> SUBSET (Commands \cup Transferred)]
  /\ resolved \in [Commands -> BOOLEAN]
  /\ source \in [Commands -> Devices \cup {None}] /\ target \in [Commands -> Devices \cup {None}]
  /\ device \in [Queues -> Devices]
  /\ last \in [Queues -> Commands \cup {None}]
  /\ pending \in [Queues -> Seq(Commands)]
  /\ \A d \in Devices : \A i \in DOMAIN ready[d] : ready[d][i].on = d /\ ready[d][i].cmd \in Commands
  /\ done \subseteq Commands \cup Transferred
  /\ latest \in [Mems -> SUBSET (Devices \cup {Host})]
  /\ copy \in [Mems -> [Devices \cup {Host} -> Versions]]
  /\ temp \in [Transferred -> Versions]
  /\ value \in [Mems -> Nat]
  /\ crashed \in BOOLEAN

(* A command that its issuer may execute now finds, on its device, what    *)
(* the last writer of each of its memory objects wrote, wherever that was  *)
(* and however the data came: the copies behave as one memory object.      *)
FreshData ==
  \A d \in Devices : ready[d] # <<>> /\ Head(ready[d]).what = "exec" =>
    Fresh(Head(ready[d]).cmd, d)

(* Nothing that concerns m is on its way. *)
Quiet(m) ==
  \A d \in Devices : \A i \in DOMAIN ready[d] :
    LET t == ready[d][i] IN t.mem # m /\ (t.what = "exec" => m \notin Touched(op[t.cmd]))

(* dev_latest_ is ahead of the copies while commands are in flight, and    *)
(* right when none is: the devices it lists hold the latest contents.      *)
DirectoryRight ==
  \A m \in Mems : Quiet(m) => \A d \in latest[m] : copy[m][d] = value[m]

(* The latest contents of a memory object are never overwritten by the     *)
(* only copy that holds them becoming older.                               *)
ContentsKept == \A m \in Mems : \E d \in Devices \cup {Host} : copy[m][d] = value[m]
=============================================================================
