---------------------------- MODULE ProgramBuild ----------------------------
(* The builds of one program: clBuildProgram, clLinkProgram and             *)
(* clCompileProgram calls of several host threads, the issuer threads that  *)
(* build for their devices, the notification of a call, the kernels made    *)
(* from the program and the information about them (CLProgram).             *)
(*                                                                         *)
(* A program is made from source, and then built and compiled, or by a     *)
(* link, and then built: a program without source is never compiled, and   *)
(* is built here for devices that have a binary only (the back end reads a *)
(* null pointer for another).  The program has one kernel name.  What the  *)
(* vendor's driver does is a choice: any build may fail, and so may reading *)
(* the kernels of a build.                                                 *)
EXTENDS Integers, FiniteSets, Sequences

CONSTANTS
  Devices,   \* devices_
  Builds,    \* build calls
  Kernels,   \* kernel objects that threads may make
  MaxList,   \* bound of the devices that a call lists
  MaxWork,   \* bound of the devices that all calls list
  None

ASSUME BuildAssumption ==
  /\ IsFiniteSet(Devices) /\ Devices # {}
  /\ MaxList \in Nat /\ MaxWork \in Nat
  /\ None \notin Builds \cup {"in_use", "released"}

VARIABLES
  call,       \* the calls: what they build, for which devices, where their loop is
  count,      \* ProgramCallback::count_
  status,     \* build_status_
  executable, \* executable_: None, or a handle that is in use or was released
  successes,  \* build_success_cnt_
  refs,       \* kernels_ref_cnt_, -1 when there is no kernel information
  infos,      \* devices that the kernel's CLKernelInfo in kernels_ knows
  dangling,   \* kernels_ holds pointers to deleted CLKernelInfo objects
  callback,   \* build_callback_
  ready,      \* commands of the devices' issuers, the current one first
  at,         \* how far an issuer is with the current one
  kernels,    \* kernels that exist
  asked,      \* kernels whose clCreateKernel has passed HasOneExecutable()
  notified,   \* history: calls whose pfn_notify has run
  completed,  \* history: devices that have completed a call's build
  overtook,   \* history: calls a and c such that c has entered the build of a
              \* device that has completed a's and not cleared its callback
  fault       \* undefined behaviour that stopped the process

programVars == <<status, executable, successes, refs>>
infoVars    == <<infos, dangling>>
kernelVars  == <<kernels, asked>>
vars == <<call, count, programVars, infoVars, callback, ready, at, kernelVars,
          notified, completed, overtook, fault>>

NoCall == [kind |-> None, notify |-> FALSE, targets |-> <<>>, next |-> 1]
Waiting == [step |-> "wait", ok |-> FALSE, cb |-> None]

Init ==
  /\ call = [b \in Builds |-> NoCall]
  /\ count = [b \in Builds |-> 0]
  /\ status = [d \in Devices |-> "none"]
  /\ executable = [d \in Devices |-> None]
  /\ successes = 0
  /\ refs = 0
  /\ infos = {} /\ dangling = FALSE
  /\ callback = [d \in Devices |-> None]
  /\ ready = [d \in Devices |-> <<>>]
  /\ at = [d \in Devices |-> Waiting]
  /\ kernels = {} /\ asked = {}
  /\ notified = {}
  /\ completed = [b \in Builds |-> {}]
  /\ overtook = {}
  /\ fault = None

Crash(kind) ==
  /\ fault' = kind
  /\ UNCHANGED <<call, count, programVars, infoVars, callback, ready, at, kernelVars,
                 notified, completed, overtook>>

-----------------------------------------------------------------------------
(* Build calls *)

(* Devices that a call lists, and those that its loop has not reached.     *)
Named(list) == {list[i] : i \in DOMAIN list}
Targets(b) == Named(call[b].targets)
Left(b) == {call[b].targets[i] : i \in call[b].next..Len(call[b].targets)}

(* The build that the issuer of d is busy with. *)
Current(d) == Head(ready[d])

(* The issuer of d has set the status of a build and not cleared its callback. *)
Passing(d) == at[d].step \in {"callback", "clear"}

Busy(list) == \E d \in Named(list) : status[d] = "in_progress"

(* Slip: a program with kernels is built all the same. *)
MayEnter_Slip(list) == ~Busy(list)

MayEnter(list) == refs <= 0 /\ ~Busy(list)

(* build_success_cnt_ without the executables that are built again; a      *)
(* device that is listed twice is subtracted twice.                        *)
Counted(list) == successes - Cardinality({i \in DOMAIN list : executable[list[i]] # None})

(* Slip: one device is taken not to count down. *)
SetCount_Slip(list, notify) == IF notify /\ Len(list) > 1 THEN Len(list) - 1 ELSE Len(list)

(* set_count() *)
SetCount(list, notify) == IF notify THEN Len(list) ELSE 0

(* A call begins: EnterBuild() of all its devices.  A call that is refused *)
(* has changed nothing.                                                    *)
EnterBuild(b, kind, list, notify) ==
  /\ fault = None /\ call[b] = NoCall
  /\ MayEnter(list)
  /\ call' = [call EXCEPT ![b] = [kind |-> kind, notify |-> notify, targets |-> list, next |-> 1]]
  /\ count' = [count EXCEPT ![b] = SetCount(list, notify)]
  /\ status' = [d \in Devices |-> IF d \in Named(list) THEN "in_progress" ELSE status[d]]
  /\ successes' = Counted(list)
  /\ refs' = IF successes' = 0 THEN -1 ELSE refs
  /\ overtook' = overtook \cup {<<Current(d), b>> : d \in {e \in Named(list) : Passing(e)}}
  /\ UNCHANGED <<executable, infoVars, callback, ready, at, kernelVars, notified, completed, fault>>

Work == Cardinality({x \in Builds \X (1..MaxList) : x[2] <= Len(call[x[1]].targets)})
Lists == UNION {[1..n -> Devices] : n \in {m \in 0..MaxList : Work + m <= MaxWork}}

Distinct(list) == \A i, j \in DOMAIN list : list[i] = list[j] => i = j

(* clLinkProgram returns its program when the loop is over and, unless it  *)
(* is to notify, every device has linked.                                  *)
Returned(b) ==
  /\ Left(b) = {}
  /\ call[b].notify \/ \A d \in Devices : \A i \in DOMAIN ready[d] : ready[d][i] # b

Linked == \E b \in Builds : call[b].kind = "link"
HasHandle == \A b \in Builds : call[b].kind = "link" => Returned(b)

(* The devices of the application's list, or all; nothing rejects a device *)
(* that is listed twice. *)
BuildCall(b) ==
  /\ HasHandle
  /\ \E list \in Lists \ {<<>>}, notify \in BOOLEAN :
       /\ Linked => \A d \in Named(list) : status[d] = "success"
       /\ EnterBuild(b, "build", list, notify)

CompileCall(b) ==
  /\ ~Linked
  /\ \E list \in Lists \ {<<>>}, notify \in BOOLEAN : EnterBuild(b, "compile", list, notify)

(* The new program's devices for which all input programs have a binary,   *)
(* which may be none. *)
LinkCall(b) ==
  /\ \A c \in Builds : call[c] = NoCall
  /\ \E list \in Lists, notify \in BOOLEAN :
       Distinct(list) /\ EnterBuild(b, "link", list, notify)

(* The next device of the loop gets the callback and a command. *)
Issue(b) ==
  LET d == call[b].targets[call[b].next] IN
  /\ fault = None /\ call[b].next <= Len(call[b].targets)
  /\ call' = [call EXCEPT ![b].next = @ + 1]
  /\ callback' = [callback EXCEPT ![d] = IF call[b].notify THEN b ELSE None]
  /\ ready' = [ready EXCEPT ![d] = Append(@, b)]
  /\ UNCHANGED <<count, programVars, infoVars, at, kernelVars, notified, completed, overtook,
                 fault>>

-----------------------------------------------------------------------------
(* The issuer of device d *)

Building(d, step) == fault = None /\ ready[d] # <<>> /\ at[d].step = step
Go(d, step) == at' = [at EXCEPT ![d].step = step]

(* ChangeExecutable() releases what it has just stored, not what it replaces. *)
Stored(d, ok) ==
  IF ~ok THEN None ELSE IF executable[d] = None THEN "in_use" ELSE "released"

(* Slip: a failed build counts too. *)
Gained_Slip(kind, ok) == IF kind # "compile" THEN 1 ELSE 0

Gained(kind, ok) == IF kind # "compile" /\ ok THEN 1 ELSE 0

(* CompleteBuild() up to its unlock; a compilation leaves executable_ alone. *)
CompleteBuild(d, ok) ==
  LET b == Current(d)  kind == call[b].kind IN
  /\ Building(d, "wait")
  /\ executable' = IF kind = "compile" THEN executable
                                       ELSE [executable EXCEPT ![d] = Stored(d, ok)]
  /\ status' = [status EXCEPT ![d] = IF ok THEN "success" ELSE "error"]
  /\ successes' = successes + Gained(kind, ok)
  /\ completed' = [completed EXCEPT ![b] = @ \cup {d}]
  /\ at' = [at EXCEPT ![d] = [step |-> "callback", ok |-> ok, cb |-> None]]
  /\ UNCHANGED <<call, count, refs, infoVars, callback, ready, kernelVars, notified, overtook,
                 fault>>

(* CountdownBuildCallback() reads the callback without the mutex, ...      *)
ReadCallback(d) ==
  /\ Building(d, "callback")
  /\ at' = [at EXCEPT ![d].cb = callback[d], ![d].step = "clear"]
  /\ UNCHANGED <<call, count, programVars, infoVars, callback, ready, kernelVars, notified,
                 completed, overtook, fault>>

(* ... takes it out of the program ...                                     *)
ClearCallback(d) ==
  /\ Building(d, "clear")
  /\ callback' = [callback EXCEPT ![d] = None]
  /\ Go(d, IF at[d].cb = None THEN "register" ELSE "countdown")
  /\ UNCHANGED <<call, count, programVars, infoVars, ready, kernelVars, notified,
                 completed, overtook, fault>>

(* Slip: a failed build does not count down. *)
Countdown_Slip(d) ==
  LET b == at[d].cb IN
  /\ Building(d, "countdown")
  /\ count' = [count EXCEPT ![b] = IF at[d].ok THEN @ - 1 ELSE @]
  /\ notified' = IF count'[b] = 0 THEN notified \cup {b} ELSE notified
  /\ Go(d, "register")
  /\ UNCHANGED <<call, programVars, infoVars, callback, ready, kernelVars, completed, overtook,
                 fault>>

(* ... and counts it down; the last one runs pfn_notify.  The optimised    *)
(* build reads count_ once, so that its compare-and-swap is a decrement.   *)
Countdown(d) ==
  LET b == at[d].cb IN
  /\ Building(d, "countdown")
  /\ count' = [count EXCEPT ![b] = @ - 1]
  /\ notified' = IF count'[b] = 0 THEN notified \cup {b} ELSE notified
  /\ Go(d, "register")
  /\ UNCHANGED <<call, programVars, infoVars, callback, ready, kernelVars, completed, overtook,
                 fault>>

(* The command ends: its event completes. *)
EndCommand(d) ==
  /\ ready' = [ready EXCEPT ![d] = Tail(@)]
  /\ at' = [at EXCEPT ![d] = Waiting]

Registers(d) == call[Current(d)].kind # "compile" /\ at[d].ok

(* A failed build and a compilation have nothing to register, and nothing  *)
(* is registered while the program has kernels. *)
SkipRegister(d) ==
  /\ Building(d, "register")
  /\ ~Registers(d) \/ refs > 0
  /\ EndCommand(d)
  /\ UNCHANGED <<call, count, programVars, infoVars, callback, kernelVars, notified, completed,
                 overtook, fault>>

(* BeginRegisterKernelInfo() deletes the objects and keeps the pointers. *)
Deletes == refs = -1 /\ (infos # {} \/ dangling)

(* ReadKernelInfo() under the mutex.  It asks the driver for the kernels   *)
(* of the executable, which may fail; registering them walks kernels_.     *)
ReadKernelInfo(d, read) ==
  /\ Building(d, "register") /\ Registers(d) /\ refs <= 0
  /\ ~(Deletes /\ dangling)
  /\ read => executable[d] # "released" /\ ~Deletes /\ ~dangling
  /\ dangling' = (dangling \/ Deletes)
  /\ infos' = IF Deletes THEN {} ELSE IF read THEN infos \cup {d} ELSE infos
  /\ refs' = 0
  /\ EndCommand(d)
  /\ UNCHANGED <<call, count, status, executable, successes, callback, kernelVars,
                 notified, completed, overtook, fault>>

(* The executable was released, or kernels_ is walked, or deleted again,   *)
(* over deleted objects. *)
ReadReleased(d) ==
  /\ Building(d, "register") /\ Registers(d) /\ refs <= 0
  /\ \/ executable[d] = "released" /\ Crash("released executable")
     \/ (Deletes \/ dangling) /\ Crash("deleted kernel information")

-----------------------------------------------------------------------------
(* Kernels *)

HasOneExecutable == successes > 0
HasAllExecutable == successes = Cardinality(Devices)

(* clCreateKernel looks at the count without the mutex ... *)
AskKernel(k) ==
  /\ fault = None /\ k \notin kernels \cup asked
  /\ HasHandle
  /\ HasOneExecutable
  /\ asked' = asked \cup {k}
  /\ UNCHANGED <<call, count, programVars, infoVars, callback, ready, at, kernels,
                 notified, completed, overtook, fault>>

(* ... and CreateKernel() looks the name up under it. *)
CreateKernel(k) ==
  /\ fault = None /\ k \in asked
  /\ refs # -1 => ~dangling
  /\ asked' = asked \ {k}
  /\ IF refs # -1 /\ infos # {}
       THEN kernels' = kernels \cup {k} /\ refs' = refs + 1
       ELSE UNCHANGED <<kernels, refs>>
  /\ UNCHANGED <<call, count, status, executable, successes, infoVars, callback, ready, at,
                 notified, completed, overtook, fault>>

(* Both calls that make kernels read the deleted information.              *)
CreateDangling(k) ==
  /\ fault = None /\ refs # -1 /\ dangling
  /\ \/ k \in asked
     \/ k \notin kernels \cup asked /\ HasHandle /\ HasAllExecutable
  /\ Crash("deleted kernel information")

(* Slip: kernels_ref_cnt_ is left alone. *)
CreateKernelsInProgram_Slip(k) ==
  /\ fault = None /\ k \notin kernels \cup asked
  /\ HasHandle /\ HasAllExecutable /\ refs # -1
  /\ infos # {} /\ ~dangling
  /\ kernels' = kernels \cup {k}
  /\ UNCHANGED <<call, count, programVars, infoVars, callback, ready, at,
                 asked, notified, completed, overtook, fault>>

(* clCreateKernelsInProgram checks both under the mutex. *)
CreateKernelsInProgram(k) ==
  /\ fault = None /\ k \notin kernels \cup asked
  /\ HasHandle /\ HasAllExecutable /\ refs # -1
  /\ infos # {} /\ ~dangling
  /\ kernels' = kernels \cup {k}
  /\ refs' = refs + 1
  /\ UNCHANGED <<call, count, status, executable, successes, infoVars, callback, ready, at,
                 asked, notified, completed, overtook, fault>>

(* ~CLKernel() *)
ReleaseKernel(k) ==
  /\ fault = None /\ k \in kernels
  /\ kernels' = kernels \ {k}
  /\ refs' = refs - 1
  /\ UNCHANGED <<call, count, status, executable, successes, infoVars, callback, ready, at,
                 asked, notified, completed, overtook, fault>>

-----------------------------------------------------------------------------
Host ==
  \/ \E b \in Builds : BuildCall(b) \/ CompileCall(b) \/ LinkCall(b) \/ Issue(b)
  \/ \E k \in Kernels :
       \/ AskKernel(k)
       \/ CreateKernel(k)
       \/ CreateDangling(k)
       \/ CreateKernelsInProgram(k)
       \/ ReleaseKernel(k)

Issuer(d) ==
  \/ \E ok \in BOOLEAN : CompleteBuild(d, ok)
  \/ ReadCallback(d)
  \/ ClearCallback(d)
  \/ Countdown(d)
  \/ SkipRegister(d)
  \/ \E read \in BOOLEAN : ReadKernelInfo(d, read)
  \/ ReadReleased(d)

Next ==
  \/ Host
  \/ \E d \in Devices : Issuer(d)

Spec == Init /\ [][Next]_vars

-----------------------------------------------------------------------------
(* Properties *)

(* Every variable keeps to its type. *)
TypeOK ==
  /\ \A b \in Builds :
       /\ call[b].kind \in {"build", "compile", "link", None} /\ call[b].notify \in BOOLEAN
       /\ call[b].targets \in Seq(Devices) /\ Len(call[b].targets) <= MaxList
       /\ call[b].next \in 1..Len(call[b].targets) + 1
  /\ count \in [Builds -> 0..MaxList]
  /\ status \in [Devices -> {"none", "in_progress", "success", "error"}]
  /\ executable \in [Devices -> {None, "in_use", "released"}]
  /\ successes \in Int
  /\ refs \in -1..Cardinality(Kernels)
  /\ infos \subseteq Devices /\ dangling \in BOOLEAN
  /\ callback \in [Devices -> Builds \cup {None}]
  /\ ready \in [Devices -> Seq(Builds)]
  /\ at \in [Devices -> [step : {"wait", "callback", "clear", "countdown", "register"},
                         ok : BOOLEAN, cb : Builds \cup {None}]]
  /\ kernels \subseteq Kernels /\ asked \subseteq Kernels
  /\ notified \subseteq Builds
  /\ completed \in [Builds -> SUBSET Devices]
  /\ overtook \subseteq Builds \X Builds

(* kernels_ref_cnt_ counts the kernels that exist, or says that there is   *)
(* no information to make one from: a call that finds it positive is       *)
(* refused, and one that does not never meets a kernel.                    *)
RefsCountKernels ==
  IF kernels = {} THEN refs \in {-1, 0} ELSE refs = Cardinality(kernels)

(* No call lists a device twice.  One that does builds it twice, counts   *)
(* two executables where there is one, and leaves the first of the two    *)
(* callbacks to be overwritten.                                           *)
NoRepeats == \A b \in Builds : Distinct(call[b].targets)

(* build_success_cnt_ never counts more executables than the devices hold: *)
(* a program that HasAllExecutable() has a handle in executable_ for each  *)
(* device, even while others build, fail and build again.  (The handle may *)
(* be one that ChangeExecutable() has released.)                           *)
CountSound ==
  NoRepeats =>
    successes <= Cardinality({d \in Devices : executable[d] # None /\ status[d] # "in_progress"})

(* The information about kernels is not deleted while a kernel points to   *)
(* it, whatever builds were under way when the kernel was made.            *)
InfosKept == [][dangling' /\ ~dangling => kernels = {}]_vars

Overtaker(b) == \E a \in Builds : <<a, b>> \in overtook
Overtaken(b) == \E c \in Builds : <<b, c>> \in overtook

(* pfn_notify runs when every device has completed the build of its call,  *)
(* unless the call has itself entered a device whose issuer had completed  *)
(* another build and not yet cleared the callback of that one.             *)
NotifiedLast ==
  NoRepeats => \A b \in notified : ~Overtaker(b) => completed[b] = Targets(b)

(* Countdowns that call b may still get: of devices that its loop has not  *)
(* reached, of callbacks in build_callback_ (but for one that is about to  *)
(* be cleared) and of callbacks that an issuer has read.                   *)
Loop(b) == IF call[b].notify THEN Len(call[b].targets) + 1 - call[b].next ELSE 0
Kept(b) == {d \in Devices : callback[d] = b /\ at[d].step # "clear"}
Held(b) == {d \in Devices : at[d].step \in {"clear", "countdown"} /\ at[d].cb = b}
Owed(b) == Loop(b) + Cardinality(Kept(b)) + Cardinality(Held(b))

(* No notification is lost: what a call's count_ still lacks, the call's   *)
(* loop, the program or an issuer has in hand, unless an overtaking call   *)
(* and this one have disturbed each other; no call, disturbed or not, is   *)
(* counted down too often; and pfn_notify has run at zero and not before.  *)
(* A link of no device has nothing to count and is never notified.         *)
NoticeNotLost ==
  \A b \in Builds :
    /\ count[b] >= Owed(b)
    /\ NoRepeats /\ ~Overtaker(b) /\ ~Overtaken(b) => count[b] = Owed(b)
    /\ b \in notified <=> call[b].notify /\ call[b].targets # <<>> /\ count[b] = 0
=============================================================================
