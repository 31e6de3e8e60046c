-------------------------- MODULE ProgramBuild_proofs ------------------------
(* What kernels_ref_cnt_, build_success_cnt_ and the notification counts     *)
(* guarantee, for every number of devices, build calls and kernels.          *)
EXTENDS ProgramBuild, FiniteSetTheorems, TLAPS

(* The inductive invariant: a kernel being asked for does not exist, and     *)
(* the number of kernels is a number. *)
KernelInv ==
  /\ IsFiniteSet(kernels)
  /\ kernels \cap asked = {}
  /\ RefsCountKernels

(* A counter that is not positive means that there are no kernels: this is   *)
(* what EnterBuild() and BeginRegisterKernelInfo() rely on. *)
LEMMA NoKernels ==
  ASSUME KernelInv, refs <= 0
  PROVE  kernels = {}
<1>1. Cardinality(kernels) \in Nat BY FS_CardinalityType DEF KernelInv
<1>2. kernels # {} => Cardinality(kernels) # 0 BY FS_EmptySet DEF KernelInv
<1> QED BY <1>1, <1>2 DEF KernelInv, RefsCountKernels

(* A counter that says there is information counts the kernels. *)
LEMMA Counts ==
  ASSUME KernelInv, refs # -1
  PROVE  refs = Cardinality(kernels) /\ refs \in Nat
<1>1. Cardinality(kernels) \in Nat BY FS_CardinalityType DEF KernelInv
<1>2. kernels = {} => Cardinality(kernels) = 0 BY FS_EmptySet
<1> QED BY <1>1, <1>2 DEF KernelInv, RefsCountKernels

(* A kernel is added and counted. *)
LEMMA AddKernel ==
  ASSUME KernelInv, refs # -1, NEW k, k \notin kernels,
         kernels' = kernels \cup {k}, refs' = refs + 1
  PROVE  IsFiniteSet(kernels') /\ RefsCountKernels'
<1>1. IsFiniteSet(kernels') /\ Cardinality(kernels') = Cardinality(kernels) + 1
  BY FS_AddElement DEF KernelInv
<1>2. kernels' # {} OBVIOUS
<1> QED BY <1>1, <1>2, Counts DEF RefsCountKernels

(* Every step but those that change the counter or the kernels. *)
LEMMA KernelInvFrame ==
  ASSUME KernelInv, UNCHANGED <<refs, kernels, asked>>
  PROVE  KernelInv'
BY DEF KernelInv, RefsCountKernels

(* The calls of the application, up to the end of EnterBuild().            *)
Enters(b) ==
  \E kind \in {"build", "compile", "link"}, list \in Lists, notify \in BOOLEAN :
    EnterBuild(b, kind, list, notify)

(* Every call begins with an EnterBuild() of some list of devices.         *)
LEMMA CallsEnter ==
  ASSUME NEW b, BuildCall(b) \/ CompileCall(b) \/ LinkCall(b)
  PROVE  Enters(b)
BY DEF BuildCall, CompileCall, LinkCall, Enters

(* Every step preserves KernelInv. *)
LEMMA KernelInvStep ==
  ASSUME KernelInv, [Next]_vars
  PROVE  KernelInv'
<1> USE DEF programVars, infoVars, kernelVars
<1>1. ASSUME NEW b \in Builds, Enters(b)
      PROVE  KernelInv'
  <2>1. UNCHANGED <<kernels, asked>> BY <1>1 DEF Enters, EnterBuild
  <2>2. CASE refs' = refs BY <2>1, <2>2, KernelInvFrame
  <2>3. CASE refs' # refs
    <3>1. refs <= 0 /\ refs' = -1 BY <1>1, <2>3 DEF Enters, EnterBuild, MayEnter
    <3>2. kernels = {} BY <3>1, NoKernels
    <3> QED BY <2>1, <3>1, <3>2 DEF KernelInv, RefsCountKernels
  <2> QED BY <2>2, <2>3
<1>2. ASSUME NEW k \in Kernels, AskKernel(k)
      PROVE  KernelInv'
  BY <1>2 DEF AskKernel, KernelInv, RefsCountKernels
<1>3. ASSUME NEW k \in Kernels, CreateKernel(k)
      PROVE  KernelInv'
  <2>1. asked' = asked \ {k} /\ k \in asked BY <1>3 DEF CreateKernel
  <2>2. CASE refs # -1 /\ infos # {}
    <3>1. kernels' = kernels \cup {k} /\ refs' = refs + 1 BY <1>3, <2>2 DEF CreateKernel
    <3>2. k \notin kernels BY <2>1 DEF KernelInv
    <3>3. IsFiniteSet(kernels') /\ RefsCountKernels' BY <2>2, <3>1, <3>2, AddKernel
    <3>4. kernels' \cap asked' = {} BY <2>1, <3>1 DEF KernelInv
    <3> QED BY <3>3, <3>4 DEF KernelInv
  <2>3. CASE ~(refs # -1 /\ infos # {})
    BY <1>3, <2>1, <2>3 DEF CreateKernel, KernelInv, RefsCountKernels
  <2> QED BY <2>2, <2>3
<1>4. ASSUME NEW k \in Kernels, CreateKernelsInProgram(k)
      PROVE  KernelInv'
  <2>1. /\ refs # -1 /\ k \notin kernels /\ k \notin asked
        /\ kernels' = kernels \cup {k} /\ refs' = refs + 1 /\ asked' = asked
    BY <1>4 DEF CreateKernelsInProgram
  <2>2. IsFiniteSet(kernels') /\ RefsCountKernels' BY <2>1, AddKernel
  <2>3. kernels' \cap asked' = {} BY <2>1 DEF KernelInv
  <2> QED BY <2>2, <2>3 DEF KernelInv
<1>5. ASSUME NEW k \in Kernels, ReleaseKernel(k)
      PROVE  KernelInv'
  <2>1. /\ k \in kernels /\ kernels' = kernels \ {k}
        /\ refs' = refs - 1 /\ asked' = asked
    BY <1>5 DEF ReleaseKernel
  <2>2. /\ IsFiniteSet(kernels')
        /\ Cardinality(kernels') = Cardinality(kernels) - 1
    BY <2>1, FS_RemoveElement DEF KernelInv
  <2>3. refs' = Cardinality(kernels')
    BY <2>1, <2>2 DEF KernelInv, RefsCountKernels
  <2>4. kernels' = {} => Cardinality(kernels') = 0 BY FS_EmptySet
  <2>5. kernels' \cap asked' = {} BY <2>1 DEF KernelInv
  <2> QED BY <2>2, <2>3, <2>4, <2>5 DEF KernelInv, RefsCountKernels
<1>6. ASSUME NEW d \in Devices, NEW read \in BOOLEAN, ReadKernelInfo(d, read)
      PROVE  KernelInv'
  <2>1. refs <= 0 /\ refs' = 0 /\ UNCHANGED <<kernels, asked>> BY <1>6 DEF ReadKernelInfo
  <2>2. kernels = {} BY <2>1, NoKernels
  <2> QED BY <2>1, <2>2 DEF KernelInv, RefsCountKernels
<1>7. ASSUME NEW d \in Devices, Issuer(d),
             ~ \E read \in BOOLEAN : ReadKernelInfo(d, read)
      PROVE  KernelInv'
  <2>1. UNCHANGED <<refs, kernels, asked>>
    BY <1>7 DEF Issuer, CompleteBuild, ReadCallback, ClearCallback, Countdown, SkipRegister,
                ReadReleased, Crash
  <2> QED BY <2>1, KernelInvFrame
<1>8. ASSUME NEW b \in Builds, Issue(b)
      PROVE  KernelInv'
  BY <1>8, KernelInvFrame DEF Issue
<1>9. ASSUME NEW k \in Kernels, CreateDangling(k)
      PROVE  KernelInv'
  BY <1>9, KernelInvFrame DEF CreateDangling, Crash
<1>10. CASE UNCHANGED vars BY <1>10, KernelInvFrame DEF vars
<1> QED BY <1>1, <1>2, <1>3, <1>4, <1>5, <1>6, <1>7, <1>8, <1>9, <1>10, CallsEnter
        DEF Next, Host, Issuer

(* KernelInv is an invariant. *)
LEMMA KernelInvAlways == Spec => []KernelInv
<1>1. Init => KernelInv BY FS_EmptySet DEF Init, KernelInv, RefsCountKernels
<1>2. KernelInv /\ [Next]_vars => KernelInv' BY KernelInvStep
<1> QED BY <1>1, <1>2, PTL DEF Spec

(* kernels_ref_cnt_ is the number of kernels made from the program, or, when *)
(* there are none, 0 or -1. *)
THEOREM KernelsCounted == Spec => []RefsCountKernels
<1>1. KernelInv => RefsCountKernels BY DEF KernelInv
<1> QED BY <1>1, KernelInvAlways, PTL

(* BeginRegisterKernelInfo() never deletes the information that a kernel     *)
(* points to. *)
THEOREM InfosNotDeleted == Spec => InfosKept
<1>1. ASSUME KernelInv, [Next]_vars
      PROVE  [dangling' /\ ~dangling => kernels = {}]_vars
  <2>1. ASSUME NEW d \in Devices, NEW read \in BOOLEAN, ReadKernelInfo(d, read)
        PROVE  kernels = {}
    BY <1>1, <2>1, NoKernels DEF ReadKernelInfo
  <2>2. ASSUME NEW d \in Devices, Issuer(d),
               ~ \E read \in BOOLEAN : ReadKernelInfo(d, read)
        PROVE  dangling' = dangling
    BY <2>2 DEF Issuer, CompleteBuild, ReadCallback, ClearCallback, Countdown, SkipRegister,
                ReadReleased, Crash, infoVars
  <2>3. ASSUME NEW b \in Builds, Enters(b) \/ Issue(b)
        PROVE  dangling' = dangling
    BY <2>3 DEF Enters, EnterBuild, Issue, infoVars
  <2>4. ASSUME NEW k \in Kernels,
               AskKernel(k) \/ CreateKernel(k) \/ CreateDangling(k) \/ CreateKernelsInProgram(k)
                 \/ ReleaseKernel(k)
        PROVE  dangling' = dangling
    BY <2>4 DEF AskKernel, CreateKernel, CreateDangling, CreateKernelsInProgram, ReleaseKernel,
                Crash, infoVars
  <2>5. CASE Next BY <2>1, <2>2, <2>3, <2>4, <2>5, CallsEnter DEF Next, Host
  <2> QED BY <1>1, <2>5
<1> QED BY <1>1, KernelInvAlways, PTL DEF Spec, InfosKept

-----------------------------------------------------------------------------
(* Builds *)

(* Commands of the issuer of d whose build is not complete. *)
Pending(d) == IF at[d].step = "wait" THEN ready[d] ELSE Tail(ready[d])

Calls == [kind : {"build", "compile", "link", None}, notify : BOOLEAN,
          targets : Seq(Devices), next : Nat]

(* Types; an issuer that is busy has a command, and a callback belongs to  *)
(* a call that is to be notified.                                          *)
CallTypes ==
  /\ call \in [Builds -> Calls]
  /\ \A b \in Builds : /\ call[b].next \in 1..Len(call[b].targets) + 1
                       /\ Len(call[b].targets) <= MaxList
  /\ status \in [Devices -> {"none", "in_progress", "success", "error"}]
  /\ executable \in [Devices -> {None, "in_use", "released"}]
  /\ successes \in Int
  /\ ready \in [Devices -> Seq(Builds)]
  /\ at \in [Devices -> [step : {"wait", "callback", "clear", "countdown", "register"},
                         ok : BOOLEAN, cb : Builds \cup {None}]]
  /\ callback \in [Devices -> Builds \cup {None}]
  /\ completed \in [Builds -> SUBSET Devices]
  /\ overtook \subseteq Builds \X Builds
  /\ \A d \in Devices : at[d].step # "wait" => ready[d] # <<>>

(* The rest of a ready queue. *)
LEMMA Rest ==
  ASSUME NEW s \in Seq(Builds)
  PROVE  /\ Len(s) \in Nat /\ (Len(s) = 0 <=> s = <<>>)
         /\ s # <<>> => /\ Head(s) = s[1] /\ Head(s) \in Builds
                        /\ Tail(s) \in Seq(Builds) /\ Len(Tail(s)) = Len(s) - 1
                        /\ \A i \in 1 .. Len(s) - 1 : Tail(s)[i] = s[i + 1]
<1>1. Len(s) \in Nat /\ (Len(s) = 0 <=> s = <<>>)
  OBVIOUS
<1>2. ASSUME s # <<>> PROVE /\ Head(s) = s[1] /\ Head(s) \in Builds
                            /\ Tail(s) \in Seq(Builds) /\ Len(Tail(s)) = Len(s) - 1
                            /\ \A i \in 1 .. Len(s) - 1 : Tail(s)[i] = s[i + 1]
  <2>1. Len(s) # 0
    BY <1>1, <1>2
  <2> QED BY <1>1, <1>2, <2>1
<1> QED BY <1>1, <1>2

(* What a ready queue is after a command is appended. *)
LEMMA Lines ==
  ASSUME NEW s \in Seq(Builds), NEW b \in Builds
  PROVE  /\ Append(s, b) \in Seq(Builds) /\ Append(s, b) # <<>>
         /\ s = <<>> => Len(Append(s, b)) = 1 /\ Head(Append(s, b)) = b
         /\ s # <<>> => Head(Append(s, b)) = Head(s)
         /\ s # <<>> /\ Tail(s) = <<>> =>
              /\ Tail(Append(s, b)) # <<>> /\ Len(Tail(Append(s, b))) = 1
              /\ Head(Tail(Append(s, b))) = b
<1> DEFINE t == Append(s, b)
<1>1. /\ Len(s) \in Nat /\ t \in Seq(Builds) /\ Len(t) = Len(s) + 1
      /\ t[Len(s) + 1] = b /\ \A i \in 1 .. Len(s) : t[i] = s[i]
  OBVIOUS
<1> HIDE DEF t
<1>2. t # <<>> /\ Head(t) = t[1]
  BY <1>1, Rest
<1>3. s = <<>> => Len(t) = 1 /\ Head(t) = b
  <2>1. s = <<>> => Len(s) = 0
    BY Rest
  <2> QED BY <1>1, <1>2, <2>1
<1>4. s # <<>> => Head(t) = Head(s)
  <2>1. s # <<>> => Len(s) # 0 /\ Head(s) = s[1]
    BY Rest
  <2> QED BY <1>1, <1>2, <2>1
<1>5. ASSUME s # <<>>, Tail(s) = <<>> PROVE Tail(t) # <<>> /\ Len(Tail(t)) = 1 /\ Head(Tail(t)) = b
  <2>1. Len(Tail(s)) = 0 /\ Len(Tail(s)) = Len(s) - 1
    BY <1>5, Rest
  <2>2. Len(s) = 1 /\ Len(t) = 2 /\ t[2] = b
    BY <1>1, <2>1
  <2>3. Tail(t) \in Seq(Builds) /\ Len(Tail(t)) = 1 /\ Tail(t)[1] = t[2]
    BY <1>1, <1>2, <2>2, Rest
  <2>4. Tail(t) # <<>> /\ Head(Tail(t)) = Tail(t)[1]
    <3> DEFINE u == Tail(t)
    <3>1. u \in Seq(Builds) /\ Len(u) = 1
      BY <2>3
    <3> HIDE DEF u
    <3>2. Len(u) # 0 /\ Len(u) \in Nat
      BY <3>1
    <3>3. u # <<>>
      BY <3>2
    <3>4. Head(u) = u[1]
      BY <3>1, <3>3, Rest
    <3> QED BY <3>3, <3>4 DEF u
  <2> QED BY <2>2, <2>3, <2>4
<1> QED BY <1>1, <1>2, <1>3, <1>4, <1>5 DEF t

(* The devices of a call. *)
LEMMA ListTypes ==
  ASSUME NEW list \in Lists
  PROVE  /\ list \in Seq(Devices) /\ Len(list) \in Nat /\ Len(list) <= MaxList
         /\ DOMAIN list = 1..Len(list) /\ Named(list) \subseteq Devices
<1>1. PICK n \in 0..MaxList : list \in [1..n -> Devices]
  BY DEF Lists
<1>2. n \in Nat /\ n <= MaxList
  BY <1>1, BuildAssumption
<1>3. list \in Seq(Devices) /\ Len(list) = n
  BY <1>1, <1>2
<1> QED BY <1>1, <1>2, <1>3 DEF Named

(* What EnterBuild() does to the calls. *)
LEMMA Entered ==
  ASSUME CallTypes, NEW b \in Builds, NEW kind \in {"build", "compile", "link"},
         NEW list \in Lists, NEW notify \in BOOLEAN, EnterBuild(b, kind, list, notify)
  PROVE  /\ call[b] = NoCall
         /\ call' \in [Builds -> Calls]
         /\ call'[b].kind = kind /\ call'[b].notify = notify
         /\ call'[b].targets = list /\ call'[b].next = 1
         /\ \A a \in Builds : a # b => call'[a] = call[a]
<1>1. /\ call[b] = NoCall
      /\ call' = [call EXCEPT ![b] = [kind |-> kind, notify |-> notify, targets |-> list, next |-> 1]]
  BY DEF EnterBuild
<1>2. [kind |-> kind, notify |-> notify, targets |-> list, next |-> 1] \in Calls
  BY ListTypes DEF Calls
<1> QED BY <1>1, <1>2 DEF CallTypes

(* What the loop of a call does. *)
LEMMA Issued ==
  ASSUME CallTypes, NEW b \in Builds, Issue(b),
         NEW d, d = call[b].targets[call[b].next]
  PROVE  /\ d \in Devices /\ call[b].next \in DOMAIN call[b].targets
         /\ call[b].next <= Len(call[b].targets)
         /\ call' \in [Builds -> Calls]
         /\ call'[b].next = call[b].next + 1
         /\ \A a \in Builds : /\ call'[a].notify = call[a].notify /\ call'[a].kind = call[a].kind
                              /\ call'[a].targets = call[a].targets
                              /\ a # b => call'[a].next = call[a].next
         /\ callback'[d] = (IF call[b].notify THEN b ELSE None)
         /\ ready'[d] = Append(ready[d], b) /\ ready[d] \in Seq(Builds)
         /\ \A f \in Devices : f # d => ready'[f] = ready[f] /\ callback'[f] = callback[f]
<1>1. /\ call[b].next <= Len(call[b].targets)
      /\ call' = [call EXCEPT ![b].next = @ + 1]
      /\ callback' = [callback EXCEPT ![d] = IF call[b].notify THEN b ELSE None]
      /\ ready' = [ready EXCEPT ![d] = Append(@, b)]
  BY DEF Issue
<1>2. call[b] \in Calls /\ call[b].next \in 1..Len(call[b].targets) + 1
  BY DEF CallTypes
<1>3. call[b].targets \in Seq(Devices) /\ call[b].next \in Nat
  BY <1>2 DEF Calls
<1>4. call[b].next \in 1..Len(call[b].targets)
  BY <1>1, <1>2, <1>3
<1>5. d \in Devices /\ call[b].next \in DOMAIN call[b].targets
  BY <1>3, <1>4
<1>6. [call[b] EXCEPT !.next = @ + 1] \in Calls
  BY <1>2 DEF Calls
<1> QED BY <1>1, <1>5, <1>6 DEF CallTypes, Calls

(* Every step of a call or of an issuer keeps the types.                   *)
LEMMA TypesEnter ==
  ASSUME CallTypes, NEW b \in Builds, NEW kind \in {"build", "compile", "link"},
         NEW list \in Lists, NEW notify \in BOOLEAN, EnterBuild(b, kind, list, notify)
  PROVE  CallTypes'
<1>1. /\ status' = [d \in Devices |-> IF d \in Named(list) THEN "in_progress" ELSE status[d]]
      /\ successes' = Counted(list)
      /\ overtook' = overtook \cup {<<Current(d), b>> : d \in {e \in Named(list) : Passing(e)}}
      /\ UNCHANGED <<executable, ready, at, callback, completed>>
  BY DEF EnterBuild
<1>2. Counted(list) \in Int
  <2> DEFINE X == {i \in DOMAIN list : executable[list[i]] # None}
  <2>1. X \subseteq 1..Len(list) /\ Len(list) \in Nat
    BY ListTypes
  <2>2. IsFiniteSet(X)
    <3>1. IsFiniteSet(1..Len(list))
      BY <2>1, FS_Interval
    <3> HIDE DEF X
    <3> QED BY <2>1, <3>1, FS_Subset
  <2>3. Cardinality(X) \in Nat
    BY <2>2, FS_CardinalityType
  <2> HIDE DEF X
  <2>4. successes - Cardinality(X) \in Int
    BY <2>3 DEF CallTypes
  <2> QED BY <2>4 DEF X, Counted
<1>3. ASSUME NEW d \in Named(list), Passing(d) PROVE Current(d) \in Builds
  <2>1. d \in Devices /\ ready[d] \in Seq(Builds) /\ ready[d] # <<>>
    BY <1>3, ListTypes DEF CallTypes, Passing
  <2> QED BY <2>1, Rest DEF Current
<1>4. overtook' \subseteq Builds \X Builds
  BY <1>1, <1>3 DEF CallTypes
<1>5. ASSUME NEW a \in Builds
      PROVE  call'[a].next \in 1..Len(call'[a].targets) + 1 /\ Len(call'[a].targets) <= MaxList
  <2>1. CASE a = b
    <3>1. call'[a].next = 1 /\ call'[a].targets = list
      BY <2>1, Entered
    <3> QED BY <3>1, ListTypes
  <2>2. CASE a # b
    <3>1. call'[a] = call[a]
      BY <2>2, Entered
    <3> QED BY <3>1 DEF CallTypes
  <2> QED BY <2>1, <2>2
<1>6. call' \in [Builds -> Calls]
  BY Entered
<1> QED BY <1>1, <1>2, <1>4, <1>5, <1>6 DEF CallTypes

(* The loop of a call. *)
LEMMA TypesIssue ==
  ASSUME CallTypes, NEW b \in Builds, Issue(b)
  PROVE  CallTypes'
<1> DEFINE d == call[b].targets[call[b].next]
<1>1. /\ callback' = [callback EXCEPT ![d] = IF call[b].notify THEN b ELSE None]
      /\ ready' = [ready EXCEPT ![d] = Append(@, b)]
      /\ UNCHANGED <<status, executable, successes, at, completed, overtook>>
  BY DEF Issue, programVars
<1> HIDE DEF d
<1>2. /\ d \in Devices /\ call' \in [Builds -> Calls] /\ call'[b].next = call[b].next + 1
      /\ call[b].next <= Len(call[b].targets)
      /\ \A a \in Builds : /\ call'[a].targets = call[a].targets
                           /\ a # b => call'[a].next = call[a].next
      /\ ready[d] \in Seq(Builds)
  BY Issued DEF d
<1>3. Append(ready[d], b) \in Seq(Builds) /\ Append(ready[d], b) # <<>>
  BY <1>2, Lines
<1>4. ready' \in [Devices -> Seq(Builds)] /\ callback' \in [Devices -> Builds \cup {None}]
  BY <1>1, <1>2, <1>3 DEF CallTypes
<1>5. \A f \in Devices : at'[f].step # "wait" => ready'[f] # <<>>
  BY <1>1, <1>2, <1>3 DEF CallTypes
<1>6. ASSUME NEW a \in Builds
      PROVE  call'[a].next \in 1..Len(call'[a].targets) + 1 /\ Len(call'[a].targets) <= MaxList
  <2>1. call[a].targets \in Seq(Devices) /\ call[a].next \in 1..Len(call[a].targets) + 1
        /\ Len(call[a].targets) <= MaxList
    BY DEF CallTypes, Calls
  <2>2. Len(call[a].targets) \in Nat
    BY <2>1
  <2> QED BY <1>2, <2>1, <2>2
<1> QED BY <1>1, <1>2, <1>4, <1>5, <1>6 DEF CallTypes

(* What CompleteBuild() does. *)
LEMMA Completed ==
  ASSUME CallTypes, NEW d \in Devices, NEW ok \in BOOLEAN, CompleteBuild(d, ok)
  PROVE  /\ Current(d) \in Builds /\ ready[d] # <<>> /\ at[d].step = "wait"
         /\ at'[d].step = "callback" /\ \A f \in Devices : f # d => at'[f] = at[f]
         /\ status'[d] # "in_progress" /\ \A f \in Devices : f # d => status'[f] = status[f]
         /\ completed'[Current(d)] = completed[Current(d)] \cup {d}
         /\ \A a \in Builds : a # Current(d) => completed'[a] = completed[a]
         /\ UNCHANGED <<call, count, ready, callback, notified, overtook>>
         /\ CallTypes'
<1> DEFINE kind == call[Current(d)].kind
<1>1. /\ ready[d] # <<>> /\ at[d].step = "wait"
      /\ executable' = IF kind = "compile" THEN executable
                                             ELSE [executable EXCEPT ![d] = Stored(d, ok)]
      /\ status' = [status EXCEPT ![d] = IF ok THEN "success" ELSE "error"]
      /\ successes' = successes + Gained(kind, ok)
      /\ completed' = [completed EXCEPT ![Current(d)] = @ \cup {d}]
      /\ at' = [at EXCEPT ![d] = [step |-> "callback", ok |-> ok, cb |-> None]]
      /\ UNCHANGED <<call, count, ready, callback, notified, overtook>>
  BY DEF CompleteBuild, Building
<1>2. Current(d) \in Builds
  BY <1>1, Rest DEF Current, CallTypes
<1>3. Stored(d, ok) \in {None, "in_use", "released"} /\ Gained(kind, ok) \in Int
  BY DEF Stored, Gained
<1> HIDE DEF kind
<1>4. executable' \in [Devices -> {None, "in_use", "released"}] /\ successes' \in Int
  BY <1>1, <1>3 DEF CallTypes
<1>5. status' \in [Devices -> {"none", "in_progress", "success", "error"}]
  BY <1>1 DEF CallTypes
<1>6. completed' \in [Builds -> SUBSET Devices]
  BY <1>1, <1>2 DEF CallTypes
<1>7. /\ at' \in [Devices -> [step : {"wait", "callback", "clear", "countdown", "register"},
                             ok : BOOLEAN, cb : Builds \cup {None}]]
      /\ \A f \in Devices : at'[f].step # "wait" => ready[f] # <<>>
  BY <1>1 DEF CallTypes
<1>8. CallTypes'
  BY <1>1, <1>4, <1>5, <1>6, <1>7 DEF CallTypes
<1> QED BY <1>1, <1>2, <1>8 DEF CallTypes

(* The issuer reads the callback, clears it and counts it down. *)
Turns(d) == ReadCallback(d) \/ ClearCallback(d) \/ Countdown(d)

(* What it does meanwhile. *)
LEMMA Turned ==
  ASSUME CallTypes, NEW d \in Devices, Turns(d)
  PROVE  /\ at[d].step # "wait" /\ at'[d].step # "wait"
         /\ ready[d] # <<>> /\ Current(d) \in Builds
         /\ \A f \in Devices : f # d => at'[f] = at[f] /\ callback'[f] = callback[f]
         /\ UNCHANGED <<call, status, executable, successes, ready, completed, overtook>>
         /\ CallTypes'
<1>1. at[d] \in [step : {"wait", "callback", "clear", "countdown", "register"},
                 ok : BOOLEAN, cb : Builds \cup {None}]
  BY DEF CallTypes
<1>2. /\ at[d].step # "wait" /\ at'[d].step # "wait" /\ ready[d] # <<>>
      /\ \A f \in Devices : f # d => at'[f] = at[f] /\ callback'[f] = callback[f]
      /\ at' \in [Devices -> [step : {"wait", "callback", "clear", "countdown", "register"},
                              ok : BOOLEAN, cb : Builds \cup {None}]]
      /\ callback' \in [Devices -> Builds \cup {None}]
      /\ UNCHANGED <<call, status, executable, successes, ready, completed, overtook>>
  <2>1. CASE ReadCallback(d)
    BY <1>1, <2>1 DEF ReadCallback, Building, CallTypes, programVars
  <2>2. CASE ClearCallback(d)
    BY <1>1, <2>2 DEF ClearCallback, Building, Go, CallTypes, programVars
  <2>3. CASE Countdown(d)
    BY <1>1, <2>3 DEF Countdown, Building, Go, CallTypes, programVars
  <2> QED BY <2>1, <2>2, <2>3 DEF Turns
<1>3. Current(d) \in Builds
  BY <1>2, Rest DEF Current, CallTypes
<1>4. CallTypes'
  BY <1>2 DEF CallTypes
<1> QED BY <1>2, <1>3, <1>4

Ends(d) == SkipRegister(d) \/ \E read \in BOOLEAN : ReadKernelInfo(d, read)

(* The command ends: what is behind it stays where it is. *)
LEMMA Ended ==
  ASSUME CallTypes, NEW d \in Devices, Ends(d)
  PROVE  /\ at[d].step = "register" /\ at'[d].step = "wait" /\ ready[d] # <<>>
         /\ ready'[d] = Tail(ready[d])
         /\ \A f \in Devices : f # d => at'[f] = at[f] /\ ready'[f] = ready[f]
         /\ UNCHANGED <<call, count, status, executable, successes, callback, notified, completed,
                        overtook>>
         /\ CallTypes'
<1>1. /\ at[d].step = "register" /\ ready[d] # <<>>
      /\ ready' = [ready EXCEPT ![d] = Tail(@)] /\ at' = [at EXCEPT ![d] = Waiting]
      /\ UNCHANGED <<call, count, status, executable, successes, callback, notified, completed,
                     overtook>>
  BY DEF Ends, SkipRegister, ReadKernelInfo, Building, EndCommand, programVars
<1>2. ready' \in [Devices -> Seq(Builds)]
  BY <1>1, Rest DEF CallTypes
<1>3. /\ at' \in [Devices -> [step : {"wait", "callback", "clear", "countdown", "register"},
                             ok : BOOLEAN, cb : Builds \cup {None}]]
      /\ at'[d].step = "wait" /\ \A f \in Devices : f # d => at'[f] = at[f] /\ ready'[f] = ready[f]
      /\ ready'[d] = Tail(ready[d])
  BY <1>1 DEF CallTypes, Waiting
<1>4. \A f \in Devices : at'[f].step # "wait" => ready'[f] # <<>>
  BY <1>3 DEF CallTypes
<1>5. CallTypes'
  BY <1>1, <1>2, <1>3, <1>4 DEF CallTypes
<1> QED BY <1>1, <1>3, <1>5

(* Steps that make, look up or release kernels, and those that end the     *)
(* process, are about none of this.                                        *)
Aside ==
  \/ \E k \in Kernels : AskKernel(k) \/ CreateKernel(k) \/ CreateDangling(k)
                          \/ CreateKernelsInProgram(k) \/ ReleaseKernel(k)
  \/ \E d \in Devices : ReadReleased(d)
  \/ UNCHANGED vars

(* What the steps aside leave alone. *)
LEMMA AsideLeaves ==
  Aside => UNCHANGED <<call, count, status, executable, successes, callback, ready, at,
                       notified, completed, overtook>>
BY DEF Aside, AskKernel, CreateKernel, CreateDangling, CreateKernelsInProgram, ReleaseKernel,
       ReadReleased, Crash, vars, programVars, infoVars, kernelVars

(* The steps, as the invariants of the builds tell them apart. *)
LEMMA StepCases ==
  ASSUME [Next]_vars
  PROVE  \/ \E b \in Builds, kind \in {"build", "compile", "link"}, list \in Lists,
               notify \in BOOLEAN : EnterBuild(b, kind, list, notify)
         \/ \E b \in Builds : Issue(b)
         \/ \E d \in Devices : \/ \E ok \in BOOLEAN : CompleteBuild(d, ok)
                               \/ Turns(d) \/ Ends(d)
         \/ Aside
BY CallsEnter DEF Enters, Next, Host, Issuer, Aside, Ends, Turns

(* Every step keeps the types. *)
LEMMA CallTypesStep ==
  ASSUME CallTypes, [Next]_vars
  PROVE  CallTypes'
<1>1. CASE Aside
  BY <1>1, AsideLeaves DEF CallTypes
<1> QED BY <1>1, StepCases, TypesEnter, TypesIssue, Completed, Turned, Ended

(* A new program is well typed. *)
LEMMA CallTypesInitial == Init => CallTypes
BY BuildAssumption DEF Init, CallTypes, Calls, NoCall, Waiting

-----------------------------------------------------------------------------
(* Notifications, whatever the calls list and whatever overtakes *)

(* A callback belongs to a call that is to be notified. *)
AnswerAt(d) ==
  /\ callback[d] # None => call[callback[d]].notify
  /\ at[d].step \in {"clear", "countdown"} /\ at[d].cb # None => call[at[d].cb].notify
  /\ at[d].step = "countdown" => at[d].cb # None

(* The count of a call. *)
CountOf(b) ==
  /\ Owed(b) <= count[b] /\ count[b] <= Len(call[b].targets)
  /\ b \in notified <=> call[b].notify /\ call[b].targets # <<>> /\ count[b] = 0

NoticeInv ==
  /\ count \in [Builds -> Int] /\ notified \subseteq Builds
  /\ \A d \in Devices : AnswerAt(d)
  /\ \A b \in Builds : CountOf(b)

(* The parts of Owed are numbers. *)
LEMMA OwedParts ==
  ASSUME CallTypes, NEW b \in Builds
  PROVE  /\ Loop(b) \in Nat /\ Owed(b) \in Nat
         /\ IsFiniteSet(Kept(b)) /\ Cardinality(Kept(b)) \in Nat
         /\ IsFiniteSet(Held(b)) /\ Cardinality(Held(b)) \in Nat
         /\ Held(b) # {} => Owed(b) >= 1
<1>1. Loop(b) \in Nat
  <2>1. call[b] \in Calls /\ call[b].next \in 1..Len(call[b].targets) + 1
    BY DEF CallTypes
  <2>2. Len(call[b].targets) \in Nat
    BY <2>1 DEF Calls
  <2> QED BY <2>1, <2>2 DEF Loop
<1>2. IsFiniteSet(Kept(b)) /\ IsFiniteSet(Held(b))
  <2>1. Kept(b) \subseteq Devices /\ Held(b) \subseteq Devices /\ IsFiniteSet(Devices)
    BY BuildAssumption DEF Kept, Held
  <2> QED BY <2>1, FS_Subset
<1>3. Cardinality(Kept(b)) \in Nat /\ Cardinality(Held(b)) \in Nat
  BY <1>2, FS_CardinalityType
<1>4. Held(b) # {} => Cardinality(Held(b)) # 0
  BY <1>2, FS_EmptySet
<1> QED BY <1>1, <1>2, <1>3, <1>4 DEF Owed

(* A set without one of its elements. *)
LEMMA OneLess ==
  ASSUME NEW S, IsFiniteSet(S), NEW x \in S, NEW T, T = S \ {x}
  PROVE  Cardinality(T) = Cardinality(S) - 1
<1>1. Cardinality(S \ {x}) = Cardinality(S) - 1
  BY FS_RemoveElement
<1> QED BY <1>1

(* A set with one more element. *)
LEMMA OneMore ==
  ASSUME NEW S, IsFiniteSet(S), NEW x, x \notin S, NEW T, T = S \cup {x}
  PROVE  Cardinality(T) = Cardinality(S) + 1
<1>1. Cardinality(S \cup {x}) = Cardinality(S) + 1
  BY FS_AddElement
<1> QED BY <1>1

(* Calls whose callbacks stay where they are. *)
LEMMA OwedFrame ==
  ASSUME NEW b \in Builds, call'[b] = call[b],
         \A d \in Devices : /\ callback'[d] = b /\ at'[d].step # "clear"
                                 <=> callback[d] = b /\ at[d].step # "clear"
                            /\ at'[d].step \in {"clear", "countdown"} /\ at'[d].cb = b
                                 <=> at[d].step \in {"clear", "countdown"} /\ at[d].cb = b
  PROVE  Owed(b)' = Owed(b)
<1>1. Kept(b)' = Kept(b) /\ Held(b)' = Held(b)
  BY DEF Kept, Held
<1>2. Loop(b)' = Loop(b)
  BY DEF Loop
<1> QED BY <1>1, <1>2 DEF Owed

(* A new call is owed what its count says. *)
LEMMA OwedEnter ==
  ASSUME CallTypes, NoticeInv, NEW b \in Builds, NEW kind \in {"build", "compile", "link"},
         NEW list \in Lists, NEW notify \in BOOLEAN, EnterBuild(b, kind, list, notify)
  PROVE  /\ \A a \in Builds : a # b => Owed(a)' = Owed(a)
         /\ Owed(b)' = SetCount(list, notify)
         /\ count[b] = 0 /\ Owed(b) = 0 /\ b \notin notified
<1>1. UNCHANGED <<at, callback>>
  BY DEF EnterBuild
<1>2. /\ call[b] = NoCall /\ call'[b].notify = notify
      /\ call'[b].targets = list /\ call'[b].next = 1
      /\ \A a \in Builds : a # b => call'[a] = call[a]
  BY Entered
<1>3. \A a \in Builds : a # b => Owed(a)' = Owed(a)
  BY <1>1, <1>2, OwedFrame
<1>4. Kept(b) = {} /\ Held(b) = {}
  <2>1. ~call[b].notify /\ b # None
    BY <1>2, BuildAssumption DEF NoCall
  <2>2. ASSUME NEW d \in Devices PROVE d \notin Kept(b) /\ d \notin Held(b)
    BY <2>1 DEF NoticeInv, AnswerAt, Kept, Held
  <2> QED BY <2>2 DEF Kept, Held
<1>5. Kept(b)' = {} /\ Held(b)' = {}
  BY <1>1, <1>4 DEF Kept, Held
<1>6. Cardinality(Kept(b)') = 0 /\ Cardinality(Held(b)') = 0
  BY <1>5, FS_EmptySet
<1>7. Loop(b)' = SetCount(list, notify) /\ SetCount(list, notify) \in Nat
  BY <1>2, ListTypes DEF Loop, SetCount
<1>8. count[b] = 0 /\ Owed(b) = 0 /\ b \notin notified
  <2>1. CountOf(b) /\ count[b] \in Int
    BY DEF NoticeInv
  <2>2. Owed(b) \in Nat
    BY OwedParts
  <2>3. call[b].targets = <<>> /\ Len(call[b].targets) = 0
    BY <1>2 DEF NoCall
  <2> QED BY <2>1, <2>2, <2>3 DEF CountOf
<1> QED BY <1>3, <1>6, <1>7, <1>8 DEF Owed

(* The loop hands the callback over to the program; what was there, and    *)
(* what is put where an issuer is about to clear, is lost.                 *)
LEMMA OwedIssue ==
  ASSUME CallTypes, NEW b \in Builds, Issue(b),
         NEW d, d = call[b].targets[call[b].next], NEW a \in Builds
  PROVE  /\ Owed(a)' \in Int /\ Owed(a)' <= Owed(a)
         /\ a # b /\ callback[d] # a => Owed(a)' = Owed(a)
         /\ a = b /\ callback[d] # b /\ at[d].step # "clear" => Owed(a)' = Owed(a)
<1>1. /\ d \in Devices /\ call[b].next <= Len(call[b].targets)
      /\ call'[b].next = call[b].next + 1
      /\ call'[a].notify = call[a].notify /\ call'[a].targets = call[a].targets
      /\ a # b => call'[a].next = call[a].next
      /\ callback'[d] = (IF call[b].notify THEN b ELSE None)
      /\ \A f \in Devices : f # d => callback'[f] = callback[f]
  BY Issued
<1>2. at' = at
  BY DEF Issue
<1>3. Held(a)' = Held(a)
  BY <1>2 DEF Held
<1>4. /\ Loop(a) \in Nat /\ IsFiniteSet(Kept(a)) /\ Cardinality(Kept(a)) \in Nat
      /\ Cardinality(Held(a)) \in Nat /\ a # None
  BY OwedParts, BuildAssumption
<1>5. CASE a = b /\ call[b].notify
  <2>1. Loop(a)' = Loop(a) - 1
    <3>1. Len(call[a].targets) \in Nat /\ call[a].next \in Nat
      BY DEF CallTypes, Calls
    <3>2. /\ call'[a].notify = call[a].notify /\ call[a].notify
          /\ call'[a].targets = call[a].targets /\ call'[a].next = call[a].next + 1
      BY <1>1, <1>5
    <3> QED BY <3>1, <3>2 DEF Loop
  <2>2. CASE at[d].step = "clear"
    <3>1. Kept(a)' = Kept(a)
      BY <1>1, <1>2, <2>2 DEF Kept
    <3> QED BY <1>3, <1>4, <1>5, <2>1, <2>2, <3>1 DEF Owed
  <2>3. CASE at[d].step # "clear" /\ callback[d] = b
    <3>1. Kept(a)' = Kept(a)
      BY <1>1, <1>2, <1>5, <2>3 DEF Kept
    <3> QED BY <1>3, <1>4, <1>5, <2>1, <2>3, <3>1 DEF Owed
  <2>4. CASE at[d].step # "clear" /\ callback[d] # b
    <3>1. d \notin Kept(a) /\ Kept(a)' = Kept(a) \cup {d}
      BY <1>1, <1>2, <1>5, <2>4 DEF Kept
    <3>2. Cardinality(Kept(a)') = Cardinality(Kept(a)) + 1
      BY <1>4, <3>1, OneMore
    <3> QED BY <1>3, <1>4, <1>5, <2>1, <3>2 DEF Owed
  <2> QED BY <2>2, <2>3, <2>4
<1>6. CASE ~(a = b /\ call[b].notify)
  <2>1. Loop(a)' = Loop(a)
    BY <1>1, <1>6 DEF Loop
  <2>2. callback'[d] # a
    BY <1>1, <1>4, <1>6
  <2>3. CASE d \notin Kept(a)
    <3>1. Kept(a)' = Kept(a)
      BY <1>1, <1>2, <2>2, <2>3 DEF Kept
    <3> QED BY <1>3, <1>4, <2>1, <3>1 DEF Owed
  <2>4. CASE d \in Kept(a)
    <3>1. Kept(a)' = Kept(a) \ {d} /\ callback[d] = a
      BY <1>1, <1>2, <2>2, <2>4 DEF Kept
    <3>2. Cardinality(Kept(a)') = Cardinality(Kept(a)) - 1
      BY <1>4, <2>4, <3>1, OneLess
    <3> QED BY <1>3, <1>4, <2>1, <3>1, <3>2 DEF Owed
  <2> QED BY <2>3, <2>4
<1> QED BY <1>5, <1>6

(* An issuer that reads the callback has it. *)
LEMMA OwedRead ==
  ASSUME CallTypes, NEW d \in Devices, ReadCallback(d), NEW a \in Builds
  PROVE  Owed(a)' = Owed(a)
<1>1. /\ at[d].step = "callback"
      /\ at' = [at EXCEPT ![d].cb = callback[d], ![d].step = "clear"]
      /\ UNCHANGED <<call, callback>>
  BY DEF ReadCallback, Building
<1>2. /\ at'[d].step = "clear" /\ at'[d].cb = callback[d]
      /\ \A f \in Devices : f # d => at'[f] = at[f]
  BY <1>1 DEF CallTypes
<1>3. CASE callback[d] # a
  BY <1>1, <1>2, <1>3, OwedFrame
<1>4. CASE callback[d] = a
  <2>1. d \in Kept(a) /\ Kept(a)' = Kept(a) \ {d}
    BY <1>1, <1>2, <1>4 DEF Kept
  <2>2. d \notin Held(a) /\ Held(a)' = Held(a) \cup {d}
    BY <1>1, <1>2, <1>4 DEF Held
  <2>3. /\ IsFiniteSet(Kept(a)) /\ Cardinality(Kept(a)) \in Nat
        /\ IsFiniteSet(Held(a)) /\ Cardinality(Held(a)) \in Nat /\ Loop(a) \in Nat
    BY OwedParts
  <2>4. /\ Cardinality(Kept(a)') = Cardinality(Kept(a)) - 1
        /\ Cardinality(Held(a)') = Cardinality(Held(a)) + 1
    BY <2>1, <2>2, <2>3, OneLess, OneMore
  <2>5. Loop(a)' = Loop(a)
    BY <1>1 DEF Loop
  <2> QED BY <2>3, <2>4, <2>5 DEF Owed
<1> QED BY <1>3, <1>4

(* Clearing takes nothing from it. *)
LEMMA OwedClear ==
  ASSUME CallTypes, NEW d \in Devices, ClearCallback(d), NEW a \in Builds
  PROVE  Owed(a)' = Owed(a)
<1>1. /\ at[d].step = "clear"
      /\ callback' = [callback EXCEPT ![d] = None]
      /\ at' = [at EXCEPT ![d].step = IF at[d].cb = None THEN "register" ELSE "countdown"]
      /\ call' = call
  BY DEF ClearCallback, Building, Go
<1>2. /\ at'[d].step = (IF at[d].cb = None THEN "register" ELSE "countdown")
      /\ at'[d].cb = at[d].cb /\ callback'[d] = None
      /\ \A f \in Devices : f # d => at'[f] = at[f] /\ callback'[f] = callback[f]
  BY <1>1 DEF CallTypes
<1>3. a # None
  BY BuildAssumption
<1>4. ASSUME NEW f \in Devices
      PROVE  /\ callback'[f] = a /\ at'[f].step # "clear"
                  <=> callback[f] = a /\ at[f].step # "clear"
             /\ at'[f].step \in {"clear", "countdown"} /\ at'[f].cb = a
                  <=> at[f].step \in {"clear", "countdown"} /\ at[f].cb = a
  <2>1. CASE f = d
    BY <1>1, <1>2, <1>3, <2>1
  <2>2. CASE f # d
    BY <1>2, <2>2
  <2> QED BY <2>1, <2>2
<1> QED BY <1>1, <1>4, OwedFrame

(* What the countdown does. *)
LEMMA CountedDown ==
  ASSUME CallTypes, NoticeInv, NEW d \in Devices, Countdown(d)
  PROVE  /\ at[d].step = "countdown" /\ at'[d].step = "register" /\ ready[d] # <<>>
         /\ \A f \in Devices : f # d => at'[f] = at[f]
         /\ at[d].cb \in Builds /\ call[at[d].cb].notify
         /\ count'[at[d].cb] = count[at[d].cb] - 1
         /\ \A a \in Builds : a # at[d].cb => count'[a] = count[a]
         /\ count' \in [Builds -> Int]
         /\ notified' = (IF count'[at[d].cb] = 0 THEN notified \cup {at[d].cb} ELSE notified)
         /\ UNCHANGED <<call, ready, callback, completed, overtook>>
<1>1. /\ at[d].step = "countdown" /\ ready[d] # <<>>
      /\ count' = [count EXCEPT ![at[d].cb] = @ - 1]
      /\ notified' = IF count'[at[d].cb] = 0 THEN notified \cup {at[d].cb} ELSE notified
      /\ at' = [at EXCEPT ![d].step = "register"]
      /\ UNCHANGED <<call, ready, callback, completed, overtook>>
  BY DEF Countdown, Building, Go
<1>2. at[d].cb \in Builds /\ call[at[d].cb].notify
  BY <1>1 DEF CallTypes, NoticeInv, AnswerAt
<1>3. count \in [Builds -> Int]
  BY DEF NoticeInv
<1>4. at'[d].step = "register" /\ \A f \in Devices : f # d => at'[f] = at[f]
  BY <1>1 DEF CallTypes
<1>5. count' \in [Builds -> Int] /\ count'[at[d].cb] = count[at[d].cb] - 1
      /\ \A a \in Builds : a # at[d].cb => count'[a] = count[a]
  BY <1>1, <1>2, <1>3
<1> QED BY <1>1, <1>2, <1>4, <1>5

(* It pays what the issuer owes, and only that. *)
LEMMA OwedCountdown ==
  ASSUME CallTypes, NoticeInv, NEW d \in Devices, Countdown(d), NEW a \in Builds
  PROVE  /\ a = at[d].cb => Owed(a)' = Owed(a) - 1 /\ Owed(a) >= 1
         /\ a # at[d].cb => Owed(a)' = Owed(a)
<1>1. /\ at[d].step = "countdown" /\ at'[d].step = "register"
      /\ \A f \in Devices : f # d => at'[f] = at[f]
      /\ UNCHANGED <<call, callback>>
  BY CountedDown
<1>2. CASE a # at[d].cb
  BY <1>1, <1>2, OwedFrame
<1>3. CASE a = at[d].cb
  <2>1. d \in Held(a) /\ Held(a)' = Held(a) \ {d}
    BY <1>1, <1>3 DEF Held
  <2>2. Kept(a)' = Kept(a) /\ Loop(a)' = Loop(a)
    BY <1>1 DEF Kept, Loop
  <2>3. /\ Cardinality(Kept(a)) \in Nat /\ IsFiniteSet(Held(a)) /\ Loop(a) \in Nat
        /\ Cardinality(Held(a)) \in Nat /\ Owed(a) >= 1
    BY <2>1, OwedParts
  <2>4. Cardinality(Held(a)') = Cardinality(Held(a)) - 1
    BY <2>1, <2>3, OneLess
  <2> QED BY <1>3, <2>2, <2>3, <2>4 DEF Owed
<1> QED BY <1>2, <1>3

(* The other steps of an issuer move no callback. *)
LEMMA OwedRest ==
  ASSUME CallTypes, NEW d \in Devices, Ends(d) \/ \E ok \in BOOLEAN : CompleteBuild(d, ok),
         NEW a \in Builds
  PROVE  Owed(a)' = Owed(a)
<1>1. /\ at[d].step \in {"wait", "register"} /\ at'[d].step \in {"wait", "callback"}
      /\ \A f \in Devices : f # d => at'[f] = at[f]
      /\ UNCHANGED <<call, callback>>
  BY Ended, Completed
<1> QED BY <1>1, OwedFrame

(* Every step preserves NoticeInv. *)
LEMMA NoticeInvStep ==
  ASSUME CallTypes, NoticeInv, [Next]_vars
  PROVE  NoticeInv'
<1>t. count \in [Builds -> Int] /\ notified \subseteq Builds
  BY DEF NoticeInv
<1>1. ASSUME NEW b \in Builds, NEW kind \in {"build", "compile", "link"}, NEW list \in Lists,
             NEW notify \in BOOLEAN, EnterBuild(b, kind, list, notify)
      PROVE  NoticeInv'
  <2>1. /\ call[b] = NoCall /\ call'[b].notify = notify /\ call'[b].targets = list
        /\ \A a \in Builds : a # b => call'[a] = call[a]
    BY <1>1, Entered
  <2>2. UNCHANGED <<at, callback, notified>> /\ count' = [count EXCEPT ![b] = SetCount(list, notify)]
    BY <1>1 DEF EnterBuild
  <2>3. SetCount(list, notify) \in Nat /\ SetCount(list, notify) <= Len(list)
        /\ (notify /\ list # <<>> => SetCount(list, notify) # 0)
    <3>1. list \in Seq(Devices) /\ Len(list) \in Nat
      BY ListTypes
    <3>2. list # <<>> => Len(list) # 0
      BY <3>1
    <3> QED BY <3>1, <3>2 DEF SetCount
  <2>4. count' \in [Builds -> Int] /\ count'[b] = SetCount(list, notify)
        /\ \A a \in Builds : a # b => count'[a] = count[a]
    BY <1>t, <2>2, <2>3
  <2>5. ASSUME NEW d \in Devices PROVE AnswerAt(d)'
    <3>1. AnswerAt(d) /\ callback[d] \in Builds \cup {None} /\ at[d].cb \in Builds \cup {None}
      BY DEF NoticeInv, CallTypes
    <3>2. \A a \in Builds : call[a].notify => a # b
      BY <2>1 DEF NoCall
    <3>3. \A a \in Builds : call[a].notify => call'[a].notify
      BY <2>1, <3>2
    <3> QED BY <2>2, <3>1, <3>3 DEF AnswerAt
  <2>6. ASSUME NEW a \in Builds PROVE CountOf(a)'
    <3>1. CASE a = b
      <4>1. Owed(b)' = SetCount(list, notify) /\ b \notin notified
        BY <1>1, OwedEnter
      <4> QED BY <2>1, <2>2, <2>3, <2>4, <3>1, <4>1 DEF CountOf
    <3>2. CASE a # b
      <4>1. Owed(a)' = Owed(a)
        BY <1>1, <3>2, OwedEnter
      <4> QED BY <2>1, <2>2, <2>4, <3>2, <4>1 DEF CountOf, NoticeInv
    <3> QED BY <3>1, <3>2
  <2> QED BY <1>t, <2>2, <2>4, <2>5, <2>6 DEF NoticeInv
<1>2. ASSUME NEW b \in Builds, Issue(b)
      PROVE  NoticeInv'
  <2> DEFINE d == call[b].targets[call[b].next]
  <2>1. UNCHANGED <<at, count, notified>>
    BY <1>2 DEF Issue
  <2>2. /\ d \in Devices
        /\ \A a \in Builds : call'[a].notify = call[a].notify /\ call'[a].targets = call[a].targets
        /\ callback'[d] = (IF call[b].notify THEN b ELSE None)
        /\ \A f \in Devices : f # d => callback'[f] = callback[f]
    BY <1>2, Issued
  <2>3. \A a \in Builds : Owed(a)' \in Int /\ Owed(a)' <= Owed(a)
    BY <1>2, OwedIssue
  <2> HIDE DEF d
  <2>4. ASSUME NEW f \in Devices PROVE AnswerAt(f)'
    <3>1. AnswerAt(f) /\ callback[f] \in Builds \cup {None} /\ at[f].cb \in Builds \cup {None}
      BY DEF NoticeInv, CallTypes
    <3> QED BY <2>1, <2>2, <3>1 DEF AnswerAt
  <2>5. ASSUME NEW a \in Builds PROVE CountOf(a)'
    <3>1. Owed(a)' \in Int /\ Owed(a)' <= Owed(a) /\ Owed(a) \in Nat
      BY <2>3, OwedParts
    <3>2. CountOf(a) /\ count[a] \in Int
      BY DEF NoticeInv
    <3> QED BY <2>1, <2>2, <3>1, <3>2 DEF CountOf
  <2> QED BY <1>t, <2>1, <2>4, <2>5 DEF NoticeInv
<1>3. ASSUME NEW d \in Devices, ReadCallback(d) \/ ClearCallback(d)
      PROVE  NoticeInv'
  <2>1. /\ UNCHANGED <<call, count, notified>>
        /\ \A f \in Devices : f # d => at'[f] = at[f] /\ callback'[f] = callback[f]
    BY <1>3, Turned DEF Turns, ReadCallback, ClearCallback
  <2>2. \A a \in Builds : Owed(a)' = Owed(a)
    BY <1>3, OwedRead, OwedClear
  <2>3. AnswerAt(d)'
    <3>1. AnswerAt(d)
      BY DEF NoticeInv
    <3>2. CASE ReadCallback(d)
      <4>1. at'[d].step = "clear" /\ at'[d].cb = callback[d] /\ callback' = callback
        BY <3>2 DEF ReadCallback, CallTypes
      <4> QED BY <2>1, <3>1, <4>1 DEF AnswerAt
    <3>3. CASE ClearCallback(d)
      <4>1. /\ at[d].step = "clear" /\ at'[d].cb = at[d].cb /\ callback'[d] = None
            /\ at'[d].step = (IF at[d].cb = None THEN "register" ELSE "countdown")
        BY <3>3 DEF ClearCallback, Building, Go, CallTypes
      <4> QED BY <2>1, <3>1, <4>1 DEF AnswerAt
    <3> QED BY <1>3, <3>2, <3>3
  <2>4. ASSUME NEW f \in Devices, f # d PROVE AnswerAt(f)'
    BY <2>1, <2>4 DEF NoticeInv, AnswerAt
  <2>5. \A a \in Builds : CountOf(a)'
    BY <2>1, <2>2 DEF NoticeInv, CountOf
  <2> QED BY <1>t, <2>1, <2>3, <2>4, <2>5 DEF NoticeInv
<1>4. ASSUME NEW d \in Devices, Countdown(d), NEW b, b = at[d].cb
      PROVE  NoticeInv'
  <2>1. /\ at'[d].step = "register" /\ \A f \in Devices : f # d => at'[f] = at[f]
        /\ b \in Builds /\ call[b].notify /\ count'[b] = count[b] - 1
        /\ \A a \in Builds : a # b => count'[a] = count[a]
        /\ count' \in [Builds -> Int]
        /\ notified' = (IF count'[b] = 0 THEN notified \cup {b} ELSE notified)
        /\ UNCHANGED <<call, callback>>
    BY <1>4, CountedDown
  <2>2. Owed(b)' = Owed(b) - 1 /\ Owed(b) >= 1 /\ \A a \in Builds : a # b => Owed(a)' = Owed(a)
    BY <1>4, <2>1, OwedCountdown
  <2>3. ASSUME NEW f \in Devices PROVE AnswerAt(f)'
    BY <2>1 DEF NoticeInv, AnswerAt
  <2>4. CountOf(b)'
    <3>1. CountOf(b) /\ count[b] \in Int /\ Owed(b) \in Nat
      BY <2>1, OwedParts DEF NoticeInv
    <3>2. count[b] >= 1 /\ b \notin notified
      BY <2>2, <3>1 DEF CountOf
    <3>3. call[b].targets # <<>> /\ Len(call[b].targets) \in Nat
      <4>1. call[b].targets \in Seq(Devices)
        BY <2>1 DEF CallTypes, Calls
      <4> QED BY <3>1, <3>2, <4>1 DEF CountOf
    <3> QED BY <2>1, <2>2, <3>1, <3>2, <3>3 DEF CountOf
  <2>5. ASSUME NEW a \in Builds, a # b PROVE CountOf(a)'
    BY <2>1, <2>2, <2>5 DEF NoticeInv, CountOf
  <2> QED BY <1>t, <2>1, <2>3, <2>4, <2>5 DEF NoticeInv
<1>5. ASSUME NEW d \in Devices, Ends(d) \/ \E ok \in BOOLEAN : CompleteBuild(d, ok)
      PROVE  NoticeInv'
  <2>1. /\ at'[d].step \in {"wait", "callback"} /\ \A f \in Devices : f # d => at'[f] = at[f]
        /\ UNCHANGED <<call, count, callback, notified>>
    BY <1>5, Ended, Completed
  <2>2. \A a \in Builds : Owed(a)' = Owed(a)
    BY <1>5, OwedRest
  <2>3. ASSUME NEW f \in Devices PROVE AnswerAt(f)'
    BY <2>1 DEF NoticeInv, AnswerAt
  <2> QED BY <1>t, <2>1, <2>2, <2>3 DEF NoticeInv, CountOf
<1>6. CASE Aside
  <2>1. UNCHANGED <<call, count, callback, at, notified>>
    BY <1>6, AsideLeaves
  <2>2. \A a \in Builds : Owed(a)' = Owed(a)
    BY <2>1, OwedFrame
  <2> QED BY <1>t, <2>1, <2>2 DEF NoticeInv, AnswerAt, CountOf
<1> QED BY <1>1, <1>2, <1>3, <1>4, <1>5, <1>6, StepCases DEF Turns

(* A new program satisfies NoticeInv. *)
LEMMA NoticeInvInitial == Init => NoticeInv
<1> SUFFICES ASSUME Init PROVE NoticeInv
  OBVIOUS
<1>1. ASSUME NEW b \in Builds PROVE CountOf(b)
  <2>1. Kept(b) = {} /\ Held(b) = {} /\ Loop(b) = 0
    BY BuildAssumption DEF Init, Kept, Held, Loop, NoCall, Waiting
  <2>2. Owed(b) = 0
    BY <2>1, FS_EmptySet DEF Owed
  <2>3. Len(call[b].targets) = 0 /\ call[b].targets = <<>> /\ count[b] = 0 /\ b \notin notified
    BY DEF Init, NoCall
  <2> QED BY <2>2, <2>3 DEF CountOf
<1> QED BY <1>1 DEF Init, NoticeInv, AnswerAt, NoCall, Waiting

-----------------------------------------------------------------------------
(* Builds of calls that list no device twice *)

(* A device is in the hands of one call at a time, whose build is in       *)
(* progress until the issuer completes it. *)
InLineAt(d) ==
  /\ Len(Pending(d)) <= 1
  /\ Pending(d) # <<>> => status[d] = "in_progress"
  /\ \A b \in Builds : d \in Left(b) =>
       /\ Pending(d) = <<>> /\ status[d] = "in_progress"
       /\ \A a \in Builds : d \in Left(a) => a = b

InLine == \A d \in Devices : InLineAt(d)

(* The devices whose executables count. *)
Usable == {d \in Devices : executable[d] # None /\ status[d] # "in_progress"}

CountBound == successes <= Cardinality(Usable)

LineInv == InLine /\ CountBound

(* A call that lists no device twice began so. *)
LEMMA RepeatsStay ==
  ASSUME CallTypes, [Next]_vars, NoRepeats'
  PROVE  NoRepeats
<1>1. ASSUME NEW b \in Builds, NEW kind \in {"build", "compile", "link"}, NEW list \in Lists,
             NEW notify \in BOOLEAN, EnterBuild(b, kind, list, notify)
      PROVE  NoRepeats
  <2>1. call[b] = NoCall /\ \A a \in Builds : a # b => call'[a] = call[a]
    BY <1>1, Entered
  <2>2. Distinct(call[b].targets)
    BY <2>1 DEF NoCall, Distinct
  <2>3. ASSUME NEW a \in Builds, a # b PROVE Distinct(call[a].targets)
    BY <2>1, <2>3 DEF NoRepeats, Distinct
  <2> QED BY <2>2, <2>3 DEF NoRepeats
<1>2. ASSUME NEW b \in Builds, Issue(b)
      PROVE  NoRepeats
  <2>1. \A a \in Builds : call'[a].targets = call[a].targets
    BY <1>2, Issued
  <2> QED BY <2>1 DEF NoRepeats, Distinct
<1>3. ASSUME call' = call PROVE NoRepeats
  BY <1>3 DEF NoRepeats, Distinct
<1> QED BY <1>1, <1>2, <1>3, StepCases, Completed, Turned, Ended, AsideLeaves

(* The loop of a new call. *)
LEMMA LeftEnter ==
  ASSUME CallTypes, NEW b \in Builds, NEW kind \in {"build", "compile", "link"},
         NEW list \in Lists, NEW notify \in BOOLEAN, EnterBuild(b, kind, list, notify)
  PROVE  /\ Left(b) = {} /\ Targets(b) = {}
         /\ Left(b)' = Named(list) /\ Targets(b)' = Named(list)
         /\ \A a \in Builds : a # b => Left(a)' = Left(a) /\ Targets(a)' = Targets(a)
<1>1. /\ call[b] = NoCall /\ call'[b].targets = list /\ call'[b].next = 1
      /\ \A a \in Builds : a # b => call'[a] = call[a]
  BY Entered
<1>2. Left(b) = {} /\ Targets(b) = {}
  <2>1. call[b].targets = <<>> /\ call[b].next = 1
    BY <1>1 DEF NoCall
  <2>2. Len(call[b].targets) = 0 /\ DOMAIN call[b].targets = {}
    BY <2>1
  <2>3. call[b].next..Len(call[b].targets) = {}
    BY <2>1, <2>2
  <2> QED BY <2>2, <2>3 DEF Left, Targets, Named
<1>3. Left(b)' = Named(list) /\ Targets(b)' = Named(list)
  BY <1>1, ListTypes DEF Left, Targets, Named
<1>4. \A a \in Builds : a # b => Left(a)' = Left(a) /\ Targets(a)' = Targets(a)
  BY <1>1 DEF Left, Targets, Named
<1> QED BY <1>2, <1>3, <1>4

(* The loop goes on: it never comes back to a device. *)
LEMMA LeftIssue ==
  ASSUME CallTypes, NoRepeats, NEW b \in Builds, Issue(b),
         NEW d, d = call[b].targets[call[b].next]
  PROVE  /\ d \in Left(b) /\ Left(b)' = Left(b) \ {d}
         /\ \A a \in Builds : /\ a # b => Left(a)' = Left(a)
                              /\ Targets(a)' = Targets(a)
<1> DEFINE s == call[b].targets
           n == call[b].next
<1>1. /\ n \in DOMAIN s /\ n <= Len(s) /\ call'[b].next = n + 1
      /\ \A a \in Builds : /\ call'[a].targets = call[a].targets
                           /\ a # b => call'[a].next = call[a].next
  BY Issued
<1>2. s \in Seq(Devices) /\ n \in Nat /\ n >= 1
  BY DEF CallTypes, Calls
<1>3. \A i, j \in DOMAIN s : s[i] = s[j] => i = j
  BY DEF NoRepeats, Distinct
<1>4. /\ Left(b) = {s[i] : i \in n..Len(s)} /\ d = s[n]
      /\ Left(b)' = {s[i] : i \in n + 1..Len(s)}
  BY <1>1 DEF Left
<1> HIDE DEF s, n
<1>5. DOMAIN s = 1..Len(s) /\ Len(s) \in Nat
  BY <1>2
<1>6. d \in Left(b)
  BY <1>1, <1>2, <1>4, <1>5
<1>7. Left(b)' = Left(b) \ {d}
  <2>1. ASSUME NEW x \in Left(b)' PROVE x \in Left(b) /\ x # d
    <3>1. PICK i \in n + 1..Len(s) : x = s[i]
      BY <1>4
    <3>2. i \in n..Len(s) /\ i \in DOMAIN s /\ i # n
      BY <1>2, <1>5, <3>1
    <3> QED BY <1>1, <1>3, <1>4, <3>1, <3>2
  <2>2. ASSUME NEW x \in Left(b), x # d PROVE x \in Left(b)'
    <3>1. PICK i \in n..Len(s) : x = s[i]
      BY <1>4
    <3>2. i \in n + 1..Len(s)
      BY <1>2, <1>4, <1>5, <2>2, <3>1
    <3> QED BY <1>4, <3>1, <3>2
  <2> QED BY <2>1, <2>2
<1>8. \A a \in Builds : /\ a # b => Left(a)' = Left(a)
                        /\ Targets(a)' = Targets(a)
  BY <1>1 DEF Left, Targets, Named
<1> QED BY <1>6, <1>7, <1>8

(* The calls of steps that are not theirs. *)
LEMMA LeftFrame ==
  ASSUME call' = call
  PROVE  \A b \in Builds : Left(b)' = Left(b) /\ Targets(b)' = Targets(b)
BY DEF Left, Targets, Named

(* What a call has left is in its list. *)
LEMMA LeftListed ==
  ASSUME CallTypes, NEW b \in Builds
  PROVE  Left(b) \subseteq Targets(b) /\ Targets(b) \subseteq Devices /\ IsFiniteSet(Targets(b))
<1>1. /\ call[b].targets \in Seq(Devices) /\ call[b].next \in 1..Len(call[b].targets) + 1
  BY DEF CallTypes, Calls
<1>2. /\ DOMAIN call[b].targets = 1..Len(call[b].targets)
      /\ call[b].next..Len(call[b].targets) \subseteq DOMAIN call[b].targets
  BY <1>1
<1>3. Left(b) \subseteq Targets(b) /\ Targets(b) \subseteq Devices
  BY <1>1, <1>2 DEF Left, Targets, Named
<1>4. IsFiniteSet(Devices)
  BY BuildAssumption
<1> QED BY <1>3, <1>4, FS_Subset

(* Steps that leave a device where it is. *)
LEMMA LineFrame ==
  ASSUME NEW d \in Devices, InLineAt(d), at'[d].step = at[d].step, ready'[d] = ready[d],
         status'[d] = status[d],
         \A b \in Builds : d \in Left(b)' => d \in Left(b)
  PROVE  InLineAt(d)'
<1>1. Pending(d)' = Pending(d)
  BY DEF Pending
<1> QED BY <1>1 DEF InLineAt

(* EnterBuild() takes the executables of its devices out of the count. *)
LEMMA BuildEnter ==
  ASSUME CallTypes, LineInv, NEW b \in Builds, NEW kind \in {"build", "compile", "link"},
         NEW list \in Lists, NEW notify \in BOOLEAN, EnterBuild(b, kind, list, notify)
  PROVE  LineInv'
<1> DEFINE D == Named(list)
           I == {i \in DOMAIN list : executable[list[i]] # None}
           X == {d \in D : executable[d] # None}
<1>1. /\ status' = [d \in Devices |-> IF d \in D THEN "in_progress" ELSE status[d]]
      /\ successes' = successes - Cardinality(I)
      /\ UNCHANGED <<executable, ready, at>>
      /\ \A d \in D : status[d] # "in_progress"
  BY DEF EnterBuild, Counted, MayEnter, Busy
<1>2. X \subseteq Usable /\ IsFiniteSet(Usable) /\ IsFiniteSet(X) /\ IsFiniteSet(Usable \ X)
  <2>1. X \subseteq Usable
    BY <1>1, ListTypes DEF Usable
  <2>2. IsFiniteSet(Usable)
    BY BuildAssumption, FS_Subset DEF Usable
  <2>3. Usable \ X \in SUBSET Usable
    OBVIOUS
  <2>4. IsFiniteSet(Usable \ X)
    BY <2>2, <2>3, FS_Subset
  <2> HIDE DEF X
  <2> QED BY <2>1, <2>2, <2>4, FS_Subset
<1>3. Cardinality(Usable \ X) = Cardinality(Usable) - Cardinality(X)
  <2>1. (Usable \ X) \cup X = Usable /\ (Usable \ X) \cap X = {}
    BY <1>2
  <2>2. Cardinality((Usable \ X) \cup X) =
          Cardinality(Usable \ X) + Cardinality(X) - Cardinality((Usable \ X) \cap X)
    BY <1>2, FS_Union
  <2>3. Cardinality(Usable \ X) \in Nat /\ Cardinality(X) \in Nat /\ Cardinality(Usable) \in Nat
    BY <1>2, FS_CardinalityType
  <2>4. Cardinality({}) = 0
    BY FS_EmptySet
  <2>5. Cardinality(Usable) = Cardinality(Usable \ X) + Cardinality(X) - 0
    BY <2>1, <2>2, <2>4
  <2> HIDE DEF X
  <2> QED BY <2>3, <2>5
<1>4. Cardinality(X) <= Cardinality(I) /\ Cardinality(I) \in Nat
  <2> DEFINE f == [i \in I |-> list[i]]
  <2>1. f \in Surjection(I, X)
    BY DEF Surjection, Named
  <2>2. I \subseteq 1..Len(list) /\ Len(list) \in Nat
    BY ListTypes
  <2> HIDE DEF I, X, f
  <2>3. IsFiniteSet(1..Len(list))
    BY <2>2, FS_Interval
  <2>4. IsFiniteSet(I)
    BY <2>2, <2>3, FS_Subset
  <2> QED BY <2>1, <2>4, FS_Surjection, FS_CardinalityType
<1>5. Usable' = Usable \ X
  BY <1>1 DEF Usable, CallTypes
<1>6. CountBound'
  <2>1. successes <= Cardinality(Usable) /\ successes \in Int
    BY DEF LineInv, CountBound, CallTypes
  <2>2. Cardinality(X) \in Nat /\ Cardinality(Usable) \in Nat
    BY <1>2, FS_CardinalityType
  <2> HIDE DEF X, I
  <2>3. successes' <= Cardinality(Usable')
    BY <1>1, <1>3, <1>4, <1>5, <2>1, <2>2
  <2> QED BY <2>3 DEF CountBound
<1>7. ASSUME NEW d \in Devices PROVE InLineAt(d)'
  <2>1. InLineAt(d)
    BY DEF LineInv, InLine
  <2>2. /\ Left(b) = {} /\ Left(b)' = D
        /\ \A a \in Builds : a # b => Left(a)' = Left(a)
    BY LeftEnter
  <2>3. CASE d \notin D
    <3>1. \A a \in Builds : d \in Left(a)' => d \in Left(a)
      BY <2>2, <2>3
    <3>2. status'[d] = status[d] /\ at'[d] = at[d] /\ ready'[d] = ready[d]
      BY <1>1, <2>3
    <3> QED BY <2>1, <3>1, <3>2, LineFrame
  <2>4. CASE d \in D
    <3>1. status[d] # "in_progress" /\ status'[d] = "in_progress"
      BY <1>1, <2>4
    <3>2. Pending(d) = <<>> /\ \A a \in Builds : d \notin Left(a)
      BY <2>1, <3>1 DEF InLineAt
    <3>3. \A a \in Builds : d \in Left(a)' => a = b
      BY <2>2, <3>2
    <3>4. Pending(d)' = Pending(d)
      BY <1>1 DEF Pending
    <3> QED BY <2>1, <3>1, <3>2, <3>3, <3>4 DEF InLineAt
  <2> QED BY <2>3, <2>4
<1> QED BY <1>6, <1>7 DEF LineInv, InLine

(* The device that the loop reaches has nothing pending until then.        *)
LEMMA PendingIssue ==
  ASSUME CallTypes, InLine, NoRepeats, NEW b \in Builds, Issue(b),
         NEW d, d = call[b].targets[call[b].next]
  PROVE  /\ d \in Devices /\ Pending(d) = <<>> /\ status[d] = "in_progress"
         /\ \A a \in Builds : d \in Left(a) => a = b
         /\ Pending(d)' # <<>> /\ Len(Pending(d)') = 1 /\ Head(Pending(d)') = b
         /\ at[d].step # "wait" => Current(d)' = Current(d)
<1>1. d \in Devices /\ ready'[d] = Append(ready[d], b) /\ ready[d] \in Seq(Builds)
  BY Issued
<1>2. at' = at
  BY DEF Issue
<1>3. d \in Left(b)
  BY LeftIssue
<1>4. /\ Pending(d) = <<>> /\ status[d] = "in_progress"
      /\ \A a \in Builds : d \in Left(a) => a = b
      /\ at[d].step # "wait" => ready[d] # <<>>
  BY <1>1, <1>3 DEF InLine, InLineAt, CallTypes
<1>5. Pending(d)' # <<>> /\ Len(Pending(d)') = 1 /\ Head(Pending(d)') = b
  <2>1. CASE at[d].step = "wait"
    BY <1>1, <1>2, <1>4, <2>1, Lines DEF Pending
  <2>2. CASE at[d].step # "wait"
    <3>1. ready[d] # <<>> /\ Tail(ready[d]) = <<>>
      BY <1>4, <2>2 DEF Pending
    <3>2. Pending(d)' = Tail(Append(ready[d], b))
      BY <1>1, <1>2, <2>2 DEF Pending
    <3> QED BY <1>1, <3>1, <3>2, Lines
  <2> QED BY <2>1, <2>2
<1>6. at[d].step # "wait" => Current(d)' = Current(d)
  BY <1>1, <1>4, Lines DEF Current
<1> QED BY <1>1, <1>4, <1>5, <1>6

(* A call hands a device's command to its issuer. *)
LEMMA BuildIssue ==
  ASSUME CallTypes, LineInv, NoRepeats, NEW b \in Builds, Issue(b)
  PROVE  LineInv'
<1> SUFFICES ASSUME NEW d, d = call[b].targets[call[b].next]
             PROVE  LineInv'
  OBVIOUS
<1>1. InLine /\ CountBound /\ UNCHANGED <<status, executable, successes, at>>
  BY DEF Issue, programVars, LineInv
<1>2. /\ Pending(d)' # <<>> /\ Len(Pending(d)') = 1 /\ status[d] = "in_progress"
      /\ \A a \in Builds : d \in Left(a) => a = b
  BY <1>1, PendingIssue
<1>3. Left(b)' = Left(b) \ {d} /\ \A a \in Builds : a # b => Left(a)' = Left(a)
  BY LeftIssue
<1>4. \A f \in Devices : f # d => ready'[f] = ready[f]
  BY Issued
<1>5. ASSUME NEW f \in Devices, f = d PROVE InLineAt(f)'
  <2>1. \A a \in Builds : d \notin Left(a)'
    BY <1>2, <1>3
  <2>2. Pending(f)' # <<>> /\ Len(Pending(f)') = 1
    BY <1>2, <1>5
  <2> QED BY <1>1, <1>2, <1>5, <2>1, <2>2 DEF InLineAt
<1>6. ASSUME NEW f \in Devices, f # d PROVE InLineAt(f)'
  <2>1. \A a \in Builds : f \in Left(a)' => f \in Left(a)
    BY <1>3
  <2> QED BY <1>1, <1>4, <1>6, <2>1, LineFrame DEF InLine
<1>7. CountBound'
  BY <1>1 DEF CountBound, Usable
<1> QED BY <1>5, <1>6, <1>7 DEF LineInv, InLine

(* A build that completes was the only one of its device. *)
LEMMA PendingComplete ==
  ASSUME CallTypes, InLine, NEW d \in Devices, NEW ok \in BOOLEAN, CompleteBuild(d, ok)
  PROVE  /\ Pending(d) = ready[d] /\ Pending(d) # <<>> /\ Head(Pending(d)) = Current(d)
         /\ status[d] = "in_progress" /\ \A b \in Builds : d \notin Left(b)
         /\ Pending(d)' = <<>> /\ Len(Pending(d)') = 0 /\ Current(d)' = Current(d)
<1>1. ready[d] # <<>> /\ at[d].step = "wait" /\ at'[d].step = "callback" /\ ready' = ready
  BY Completed
<1>2. /\ Pending(d) = ready[d] /\ status[d] = "in_progress"
      /\ Len(ready[d]) <= 1 /\ \A b \in Builds : d \notin Left(b)
  BY <1>1 DEF InLine, InLineAt, Pending
<1>3. Tail(ready[d]) = <<>>
  <2>1. ready[d] \in Seq(Builds)
    BY DEF CallTypes
  <2>2. Len(ready[d]) \in Nat /\ Len(ready[d]) # 0
    BY <1>1, <2>1
  <2> QED BY <1>2, <2>1, <2>2
<1>4. Pending(d)' = <<>> /\ Len(Pending(d)') = 0
  BY <1>1, <1>3 DEF Pending
<1> QED BY <1>1, <1>2, <1>4 DEF Current

(* A build that completes was in progress, so did not count before. *)
LEMMA BuildComplete ==
  ASSUME CallTypes, LineInv, NEW d \in Devices, NEW ok \in BOOLEAN, CompleteBuild(d, ok)
  PROVE  LineInv'
<1> DEFINE kind == call[Current(d)].kind
<1>t. InLine /\ CountBound
  BY DEF LineInv
<1>1. /\ executable' = IF kind = "compile" THEN executable
                                             ELSE [executable EXCEPT ![d] = Stored(d, ok)]
      /\ successes' = successes + Gained(kind, ok)
  BY DEF CompleteBuild
<1>2. /\ status'[d] # "in_progress" /\ \A f \in Devices : f # d => status'[f] = status[f]
      /\ \A f \in Devices : f # d => at'[f] = at[f]
      /\ UNCHANGED <<call, ready>>
  BY Completed
<1>3. /\ status[d] = "in_progress" /\ \A b \in Builds : d \notin Left(b)
      /\ Pending(d)' = <<>> /\ Len(Pending(d)') = 0
  BY <1>t, PendingComplete
<1>4. \A b \in Builds : Left(b)' = Left(b)
  BY <1>2, LeftFrame
<1>5. ASSUME NEW f \in Devices PROVE InLineAt(f)'
  <2>1. CASE f = d
    BY <1>3, <1>4, <2>1 DEF InLineAt
  <2>2. CASE f # d
    BY <1>t, <1>2, <1>4, <2>2, LineFrame DEF InLine
  <2> QED BY <2>1, <2>2
<1> HIDE DEF kind
<1>6. CountBound'
  <2>1. \A f \in Devices : f # d => executable'[f] = executable[f]
    BY <1>1 DEF CallTypes
  <2>2. Usable \subseteq Usable' /\ d \notin Usable
    BY <1>2, <1>3, <2>1 DEF Usable
  <2>3. IsFiniteSet(Usable) /\ IsFiniteSet(Usable')
    BY BuildAssumption, FS_Subset DEF Usable
  <2>4. Cardinality(Usable) \in Nat /\ Cardinality(Usable') \in Nat
    BY <2>3, FS_CardinalityType
  <2>5. successes <= Cardinality(Usable) /\ successes \in Int
    BY <1>t DEF CountBound, CallTypes
  <2>6. CASE kind # "compile" /\ ok
    <3>1. executable'[d] # None /\ status'[d] # "in_progress"
      BY <1>1, <1>2, <2>6, BuildAssumption DEF CallTypes, Stored
    <3>2. Usable \cup {d} \in SUBSET Usable'
      BY <2>2, <3>1 DEF Usable
    <3>3. Cardinality(Usable \cup {d}) = Cardinality(Usable) + 1
      BY <2>2, <2>3, FS_AddElement
    <3>4. Cardinality(Usable) + 1 <= Cardinality(Usable')
      BY <2>3, <3>2, <3>3, FS_Subset
    <3>5. successes' = successes + 1
      BY <1>1, <2>6 DEF Gained
    <3>6. successes' <= Cardinality(Usable')
      BY <2>4, <2>5, <3>4, <3>5
    <3> QED BY <3>6 DEF CountBound
  <2>7. CASE ~(kind # "compile" /\ ok)
    <3>1. successes' = successes
      BY <1>1, <2>5, <2>7 DEF Gained
    <3>2. Cardinality(Usable) <= Cardinality(Usable')
      BY <2>2, <2>3, FS_Subset
    <3>3. successes' <= Cardinality(Usable')
      BY <2>4, <2>5, <3>1, <3>2
    <3> QED BY <3>3 DEF CountBound
  <2> QED BY <2>6, <2>7
<1> QED BY <1>5, <1>6 DEF LineInv, InLine

(* What is behind the current command stays where it is. *)
LEMMA PendingStays ==
  ASSUME CallTypes, NEW d \in Devices, Turns(d) \/ Ends(d), NEW f \in Devices
  PROVE  Pending(f)' = Pending(f)
<1>1. CASE Turns(d)
  <2>1. /\ at[d].step # "wait" /\ at'[d].step # "wait" /\ ready' = ready
        /\ \A e \in Devices : e # d => at'[e] = at[e]
    BY <1>1, Turned
  <2> QED BY <2>1 DEF Pending
<1>2. CASE Ends(d)
  <2>1. /\ at[d].step = "register" /\ at'[d].step = "wait" /\ ready'[d] = Tail(ready[d])
        /\ \A e \in Devices : e # d => at'[e] = at[e] /\ ready'[e] = ready[e]
    BY <1>2, Ended
  <2> QED BY <2>1 DEF Pending
<1> QED BY <1>1, <1>2

(* The other steps of an issuer build nothing. *)
LEMMA BuildRest ==
  ASSUME CallTypes, LineInv, NEW d \in Devices, Turns(d) \/ Ends(d)
  PROVE  LineInv'
<1>1. UNCHANGED <<call, status, executable, successes>>
  BY Turned, Ended
<1>2. \A f \in Devices : Pending(f)' = Pending(f)
  BY PendingStays
<1>3. \A b \in Builds : Left(b)' = Left(b)
  BY <1>1, LeftFrame
<1>4. InLine'
  BY <1>1, <1>2, <1>3 DEF LineInv, InLine, InLineAt
<1>5. CountBound'
  BY <1>1 DEF LineInv, CountBound, Usable
<1> QED BY <1>4, <1>5 DEF LineInv

(* Every step preserves LineInv while no call lists a device twice. *)
LEMMA LineInvStep ==
  ASSUME CallTypes, LineInv, NoRepeats, [Next]_vars
  PROVE  LineInv'
<1>1. CASE Aside
  <2>1. UNCHANGED <<call, status, executable, successes, ready, at>>
    BY <1>1, AsideLeaves
  <2>2. \A b \in Builds : Left(b)' = Left(b)
    BY <2>1, LeftFrame
  <2>3. InLine'
    BY <2>1, <2>2, LineFrame DEF LineInv, InLine
  <2> QED BY <2>1, <2>3 DEF LineInv, CountBound, Usable
<1> QED BY <1>1, StepCases, BuildEnter, BuildIssue, BuildComplete, BuildRest

(* A new program satisfies LineInv. *)
LEMMA LineInvInitial == Init => LineInv
<1> SUFFICES ASSUME Init PROVE LineInv
  OBVIOUS
<1>1. \A b \in Builds : Left(b) = {}
  <2>1. Len(<<>>) = 0 /\ 1..0 = {}
    OBVIOUS
  <2>2. \A b \in Builds : call[b].targets = <<>> /\ call[b].next = 1
    BY DEF Init, NoCall
  <2> QED BY <2>1, <2>2 DEF Left
<1>2. InLine
  BY <1>1 DEF Init, InLine, InLineAt, Pending, Waiting
<1>3. CountBound
  <2>1. Usable = {}
    BY DEF Init, Usable
  <2>2. successes = 0 /\ Cardinality(Usable) = 0
    BY <2>1, FS_EmptySet DEF Init
  <2> QED BY <2>2 DEF CountBound
<1> QED BY <1>2, <1>3 DEF LineInv

-----------------------------------------------------------------------------
(* Notifications of calls that list no device twice *)

Calm(b) == ~Overtaker(b) /\ ~Overtaken(b)

(* Where a callback of the device is: with the program from the loop until *)
(* the issuer that has completed the build takes it, or with that issuer.  *)
(* Only what overtakes gets into the hands of another build.               *)
HandAt(d) ==
  /\ at[d].step # "wait" => d \in completed[Current(d)]
  /\ Pending(d) # <<>> =>
       d \in Targets(Head(Pending(d))) /\ d \notin completed[Head(Pending(d))]
  /\ Passing(d) => \A c \in Builds :
       d \in Left(c) \/ (Pending(d) # <<>> /\ Head(Pending(d)) = c) =>
         <<Current(d), c>> \in overtook
  /\ callback[d] # None =>
       \/ Pending(d) # <<>> /\ callback[d] = Head(Pending(d))
       \/ Pending(d) = <<>> /\ Passing(d) /\ callback[d] = Current(d)
  /\ at[d].step \in {"clear", "countdown"} /\ at[d].cb # None =>
       at[d].cb = Current(d) \/ <<Current(d), at[d].cb>> \in overtook

(* A device completes a call's build once, after the loop has reached it.  *)
PathOf(b) == Left(b) \cap completed[b] = {} /\ completed[b] \subseteq Targets(b)

ExactOf(b) == Calm(b) => count[b] = Owed(b)

(* Devices that have not completed a call's build, and those whose issuer  *)
(* may be about to count it down.                                          *)
Unfinished(b) ==
  {d \in Targets(b) : \/ d \notin completed[b]
                      \/ at[d].step \in {"callback", "clear", "countdown"} /\ Current(d) = b}

LateOf(b) == ~Overtaker(b) /\ call[b].notify => Cardinality(Unfinished(b)) <= count[b]

HandInv ==
  /\ \A d \in Devices : HandAt(d)
  /\ \A b \in Builds : PathOf(b) /\ ExactOf(b) /\ LateOf(b)

BuildInv == CallTypes /\ NoticeInv /\ (NoRepeats => LineInv /\ HandInv)

(* What is at the head of a device's commands is a call. *)
LEMMA HeadsAreCalls ==
  ASSUME CallTypes, NEW d \in Devices
  PROVE  /\ at[d].step # "wait" => Current(d) \in Builds
         /\ Pending(d) # <<>> => Head(Pending(d)) \in Builds
<1>1. ready[d] \in Seq(Builds) /\ (at[d].step # "wait" => ready[d] # <<>>)
  BY DEF CallTypes
<1>2. at[d].step # "wait" => Current(d) \in Builds
  BY <1>1, Rest DEF Current
<1>3. Pending(d) \in Seq(Builds)
  <2>1. ready[d] # <<>> => Tail(ready[d]) \in Seq(Builds)
    BY <1>1, Rest
  <2> QED BY <1>1, <2>1 DEF Pending
<1>4. Pending(d) # <<>> => Head(Pending(d)) \in Builds
  <2> DEFINE s == Pending(d)
  <2>1. s \in Seq(Builds)
    BY <1>3
  <2> HIDE DEF s
  <2>2. s # <<>> => Head(s) \in Builds
    BY <2>1, Rest
  <2> QED BY <2>2 DEF s
<1> QED BY <1>2, <1>4

(* Steps that are about other devices. *)
LEMMA HandFrame ==
  ASSUME CallTypes, NEW d \in Devices, HandAt(d),
         at'[d] = at[d], ready'[d] = ready[d], callback'[d] = callback[d],
         overtook \subseteq overtook',
         \A b \in Builds : /\ d \in completed'[b] <=> d \in completed[b]
                           /\ d \in Targets(b) => d \in Targets(b)',
         Passing(d) => \A c \in Builds :
           d \in Left(c)' => d \in Left(c) \/ <<Current(d), c>> \in overtook'
  PROVE  HandAt(d)'
<1>1. Pending(d)' = Pending(d) /\ Current(d)' = Current(d) /\ Passing(d)' = Passing(d)
  BY DEF Pending, Current, Passing
<1>2. /\ at[d].step # "wait" => Current(d) \in Builds
      /\ Pending(d) # <<>> => Head(Pending(d)) \in Builds
  BY HeadsAreCalls
<1>3. at'[d].step # "wait" => d \in completed'[Current(d)']
  BY <1>1, <1>2 DEF HandAt
<1>4. Pending(d)' # <<>> =>
        d \in Targets(Head(Pending(d)))' /\ d \notin completed'[Head(Pending(d))']
  <2> SUFFICES ASSUME Pending(d) # <<>>, NEW h \in Builds, h = Head(Pending(d))
               PROVE  d \in Targets(h)' /\ d \notin completed'[h]
    BY <1>1, <1>2 DEF Targets
  <2>1. d \in Targets(h) /\ d \notin completed[h]
    BY DEF HandAt
  <2> QED BY <2>1
<1>5. Passing(d)' => \A c \in Builds :
        d \in Left(c)' \/ (Pending(d)' # <<>> /\ Head(Pending(d)') = c) =>
          <<Current(d)', c>> \in overtook'
  BY <1>1 DEF HandAt
<1>6. callback'[d] # None =>
        \/ Pending(d)' # <<>> /\ callback'[d] = Head(Pending(d)')
        \/ Pending(d)' = <<>> /\ Passing(d)' /\ callback'[d] = Current(d)'
  BY <1>1 DEF HandAt
<1>7. at'[d].step \in {"clear", "countdown"} /\ at'[d].cb # None =>
        at'[d].cb = Current(d)' \/ <<Current(d)', at'[d].cb>> \in overtook'
  BY <1>1 DEF HandAt
<1> QED BY <1>3, <1>4, <1>5, <1>6, <1>7 DEF HandAt

(* Calls whose devices finish no less than they did. *)
LEMMA LateFrame ==
  ASSUME CallTypes, NEW b \in Builds, LateOf(b), Unfinished(b)' \subseteq Unfinished(b),
         count'[b] = count[b], count[b] \in Int, call'[b].notify = call[b].notify,
         Overtaker(b) => Overtaker(b)'
  PROVE  LateOf(b)'
<1>1. Unfinished(b) \subseteq Targets(b) /\ IsFiniteSet(Targets(b))
  BY LeftListed DEF Unfinished
<1>2. IsFiniteSet(Unfinished(b))
  BY <1>1, FS_Subset
<1>3. IsFiniteSet(Unfinished(b)') /\ Cardinality(Unfinished(b)') <= Cardinality(Unfinished(b))
  BY <1>2, FS_Subset
<1>4. Cardinality(Unfinished(b)') \in Nat /\ Cardinality(Unfinished(b)) \in Nat
  BY <1>2, <1>3, FS_CardinalityType
<1> QED BY <1>3, <1>4 DEF LateOf

(* A list has no more devices than places. *)
LEMMA ListBound ==
  ASSUME NEW list \in Lists
  PROVE  IsFiniteSet(Named(list)) /\ Cardinality(Named(list)) <= Len(list)
<1>1. list \in Seq(Devices) /\ Len(list) \in Nat /\ DOMAIN list = 1..Len(list)
  BY ListTypes
<1>2. list \in Surjection(1..Len(list), Named(list))
  BY <1>1 DEF Surjection, Named
<1>3. IsFiniteSet(1..Len(list)) /\ Cardinality(1..Len(list)) = Len(list)
  BY <1>1, FS_Interval
<1> QED BY <1>2, <1>3, FS_Surjection

(* A new call has no part in anything yet. *)
LEMMA HandEnter ==
  ASSUME CallTypes, NoticeInv, HandInv, NEW b \in Builds,
         NEW kind \in {"build", "compile", "link"}, NEW list \in Lists, NEW notify \in BOOLEAN,
         EnterBuild(b, kind, list, notify)
  PROVE  HandInv'
<1>1. /\ UNCHANGED <<callback, ready, at, completed>>
      /\ overtook' = overtook \cup {<<Current(d), b>> : d \in {e \in Named(list) : Passing(e)}}
      /\ count' = [count EXCEPT ![b] = SetCount(list, notify)]
  BY DEF EnterBuild
<1>2. /\ call'[b].notify = notify /\ \A a \in Builds : a # b => call'[a] = call[a]
  BY Entered
<1>3. /\ Left(b) = {} /\ Targets(b) = {}
      /\ Left(b)' = Named(list) /\ Targets(b)' = Named(list)
      /\ \A a \in Builds : a # b => Left(a)' = Left(a) /\ Targets(a)' = Targets(a)
  BY LeftEnter
<1>4. /\ count'[b] = SetCount(list, notify)
      /\ \A a \in Builds : a # b => count'[a] = count[a] /\ count[a] \in Int
  BY <1>1 DEF NoticeInv
<1>5. completed[b] = {}
  BY <1>3 DEF HandInv, PathOf
<1>6. ASSUME NEW d \in Devices PROVE HandAt(d)'
  <2>1. \A a \in Builds : d \in Targets(a) => d \in Targets(a)'
    BY <1>3
  <2>2. Passing(d) => \A c \in Builds :
          d \in Left(c)' => d \in Left(c) \/ <<Current(d), c>> \in overtook'
    BY <1>1, <1>3
  <2> QED BY <1>1, <2>1, <2>2, HandFrame DEF HandInv
<1>7. ASSUME NEW a \in Builds PROVE PathOf(a)'
  <2>1. CASE a = b
    BY <1>1, <1>5, <2>1 DEF PathOf
  <2>2. CASE a # b
    BY <1>1, <1>3, <2>2 DEF PathOf, HandInv
  <2> QED BY <2>1, <2>2
<1>8. \A a \in Builds : (Overtaker(a) => Overtaker(a)') /\ (Overtaken(a) => Overtaken(a)')
  BY <1>1 DEF Overtaker, Overtaken
<1>9. ASSUME NEW a \in Builds PROVE ExactOf(a)'
  <2>1. CASE a = b
    BY <1>4, <2>1, OwedEnter DEF ExactOf
  <2>2. CASE a # b
    <3>1. Owed(a)' = Owed(a)
      BY <2>2, OwedEnter
    <3> QED BY <1>4, <1>8, <2>2, <3>1 DEF ExactOf, Calm, HandInv
  <2> QED BY <2>1, <2>2
<1>10. ASSUME NEW a \in Builds PROVE LateOf(a)'
  <2>1. CASE a = b
    <3>1. Unfinished(b)' \subseteq Named(list)
      BY <1>3 DEF Unfinished
    <3>2. /\ IsFiniteSet(Named(list)) /\ Cardinality(Named(list)) <= Len(list)
          /\ Len(list) \in Nat
      BY ListBound, ListTypes
    <3>3. /\ IsFiniteSet(Unfinished(b)')
          /\ Cardinality(Unfinished(b)') <= Cardinality(Named(list))
      BY <3>1, <3>2, FS_Subset
    <3>4. Cardinality(Unfinished(b)') \in Nat /\ Cardinality(Named(list)) \in Nat
      BY <3>2, <3>3, FS_CardinalityType
    <3>5. notify => Cardinality(Unfinished(b)') <= count'[b]
      BY <1>4, <3>2, <3>3, <3>4 DEF SetCount
    <3> QED BY <1>2, <2>1, <3>5 DEF LateOf
  <2>2. CASE a # b
    <3>1. Unfinished(a)' = Unfinished(a)
      BY <1>1, <1>3, <2>2 DEF Unfinished, Current
    <3>2. LateOf(a) /\ call'[a].notify = call[a].notify
      BY <1>2, <2>2 DEF HandInv
    <3> QED BY <1>4, <1>8, <2>2, <3>1, <3>2, LateFrame
  <2> QED BY <2>1, <2>2
<1> QED BY <1>6, <1>7, <1>9, <1>10 DEF HandInv

(* The command takes its place with the issuer and, if its call is to be   *)
(* notified, leaves the callback with the program: over no other, unless   *)
(* it overtakes.                                                           *)
LEMMA HandIssue ==
  ASSUME CallTypes, NoticeInv, LineInv, HandInv, NoRepeats, NEW b \in Builds, Issue(b)
  PROVE  HandInv'
<1> SUFFICES ASSUME NEW d, d = call[b].targets[call[b].next]
             PROVE  HandInv'
  OBVIOUS
<1>1. UNCHANGED <<at, count, completed, overtook>>
  BY DEF Issue
<1>2. /\ d \in Devices /\ callback'[d] = (IF call[b].notify THEN b ELSE None)
      /\ \A a \in Builds : call'[a].notify = call[a].notify
      /\ \A f \in Devices : f # d => ready'[f] = ready[f] /\ callback'[f] = callback[f]
  BY Issued
<1>3. /\ Pending(d) = <<>> /\ \A a \in Builds : d \in Left(a) => a = b
      /\ Pending(d)' # <<>> /\ Head(Pending(d)') = b
      /\ at[d].step # "wait" => Current(d)' = Current(d)
  BY PendingIssue DEF LineInv
<1>4. /\ d \in Left(b) /\ Left(b)' = Left(b) \ {d}
      /\ \A a \in Builds : (a # b => Left(a)' = Left(a)) /\ Targets(a)' = Targets(a)
  BY LeftIssue
<1>5. HandAt(d) /\ PathOf(b)
  BY <1>2 DEF HandInv
<1>6. Passing(d) => <<Current(d), b>> \in overtook /\ Current(d) \in Builds
  BY <1>2, <1>4, <1>5, HeadsAreCalls DEF HandAt, Passing
<1>7. ASSUME NEW f \in Devices PROVE HandAt(f)'
  <2>1. CASE f # d
    <3>1. Passing(f) => \A c \in Builds :
            f \in Left(c)' => f \in Left(c) \/ <<Current(f), c>> \in overtook'
      BY <1>4
    <3> QED BY <1>1, <1>2, <1>4, <2>1, <3>1, HandFrame DEF HandInv
  <2>2. CASE f = d
    <3>1. Passing(d)' <=> Passing(d)
      BY <1>1 DEF Passing
    <3>2. at'[d].step # "wait" => d \in completed'[Current(d)']
      BY <1>1, <1>3, <1>5 DEF HandAt
    <3>3. d \in Targets(b)' /\ d \notin completed'[b]
      BY <1>1, <1>4, <1>5, LeftListed DEF PathOf
    <3>4. ASSUME Passing(d)', NEW c \in Builds,
                 d \in Left(c)' \/ (Pending(d)' # <<>> /\ Head(Pending(d)') = c)
          PROVE  <<Current(d)', c>> \in overtook'
      <4>1. c = b
        BY <1>3, <1>4, <3>4
      <4>2. Current(d)' = Current(d)
        BY <1>3, <3>1, <3>4 DEF Passing
      <4> QED BY <1>1, <1>6, <3>1, <3>4, <4>1, <4>2
    <3>5. callback'[d] # None => Pending(d)' # <<>> /\ callback'[d] = Head(Pending(d)')
      BY <1>2, <1>3
    <3>6. at'[d].step \in {"clear", "countdown"} /\ at'[d].cb # None =>
            at'[d].cb = Current(d)' \/ <<Current(d)', at'[d].cb>> \in overtook'
      BY <1>1, <1>3, <1>5 DEF HandAt
    <3>7. Pending(d)' # <<>> =>
            d \in Targets(Head(Pending(d)))' /\ d \notin completed'[Head(Pending(d))']
      BY <1>3, <3>3 DEF Targets
    <3>8. HandAt(d)'
      BY <3>2, <3>4, <3>5, <3>6, <3>7 DEF HandAt
    <3> QED BY <2>2, <3>8
  <2> QED BY <2>1, <2>2
<1>8. ASSUME NEW a \in Builds PROVE PathOf(a)'
  BY <1>1, <1>4 DEF PathOf, HandInv
<1>9. \A a \in Builds : (Overtaker(a) <=> Overtaker(a)') /\ (Overtaken(a) <=> Overtaken(a)')
  BY <1>1 DEF Overtaker, Overtaken
<1>10. ASSUME NEW a \in Builds PROVE ExactOf(a)'
  <2> SUFFICES ASSUME Calm(a) PROVE count'[a] = Owed(a)'
    BY <1>9 DEF ExactOf, Calm
  <2>1. count[a] = Owed(a)
    BY DEF HandInv, ExactOf
  <2>2. CASE a = b
    <3>1. ~Passing(d)
      BY <1>6, <2>2 DEF Calm, Overtaker
    <3>2. callback[d] # b /\ at[d].step # "clear"
      BY <1>3, <1>5, <3>1, BuildAssumption DEF HandAt, Passing
    <3> QED BY <1>1, <2>1, <2>2, <3>2, OwedIssue
  <2>3. CASE a # b
    <3>1. callback[d] # a
      <4>1. ASSUME callback[d] = a PROVE FALSE
        <5>1. Passing(d) /\ Current(d) = a
          BY <1>3, <1>5, <4>1, BuildAssumption DEF HandAt
        <5> QED BY <1>6, <5>1 DEF Calm, Overtaken
      <4> QED BY <4>1
    <3> QED BY <1>1, <2>1, <2>3, <3>1, OwedIssue
  <2> QED BY <2>2, <2>3
<1>11. ASSUME NEW a \in Builds PROVE LateOf(a)'
  <2>1. \A f \in Devices : at[f].step # "wait" => Current(f)' = Current(f)
    BY <1>2, <1>3 DEF Current
  <2>2. Targets(a) \subseteq Devices
    BY LeftListed
  <2>3. Unfinished(a)' = Unfinished(a)
    BY <1>1, <1>4, <2>1, <2>2 DEF Unfinished
  <2>4. LateOf(a) /\ count[a] \in Int
    BY DEF HandInv, NoticeInv
  <2> QED BY <1>1, <1>2, <1>9, <2>3, <2>4, LateFrame
<1> QED BY <1>7, <1>8, <1>10, <1>11 DEF HandInv

(* A completed build keeps its callback until the issuer takes it. *)
LEMMA HandComplete ==
  ASSUME CallTypes, NoticeInv, LineInv, HandInv, NEW d \in Devices, NEW ok \in BOOLEAN,
         CompleteBuild(d, ok)
  PROVE  HandInv'
<1> SUFFICES ASSUME NEW b, b = Current(d)
             PROVE  HandInv'
  OBVIOUS
<1>1. /\ b \in Builds /\ at[d].step = "wait"
      /\ at'[d].step = "callback" /\ \A f \in Devices : f # d => at'[f] = at[f]
      /\ completed'[b] = completed[b] \cup {d}
      /\ \A a \in Builds : a # b => completed'[a] = completed[a]
      /\ UNCHANGED <<call, count, ready, callback, overtook>>
  BY Completed
<1>2. /\ Pending(d) # <<>> /\ Head(Pending(d)) = b
      /\ \A a \in Builds : d \notin Left(a)
      /\ Pending(d)' = <<>> /\ Current(d)' = b
  BY PendingComplete DEF LineInv
<1>3. \A a \in Builds : Left(a)' = Left(a) /\ Targets(a)' = Targets(a)
  BY <1>1, LeftFrame
<1>4. HandAt(d) /\ d \in Targets(b) /\ d \notin completed[b]
  BY <1>2 DEF HandInv, HandAt
<1>5. ASSUME NEW f \in Devices PROVE HandAt(f)'
  <2>1. CASE f # d
    <3>1. \A a \in Builds : f \in completed'[a] <=> f \in completed[a]
      BY <1>1, <2>1
    <3> QED BY <1>1, <1>3, <2>1, <3>1, HandFrame DEF HandInv
  <2>2. CASE f = d
    <3>1. callback'[d] # None => callback'[d] = Current(d)'
      BY <1>1, <1>2, <1>4 DEF HandAt
    <3>2. Passing(d)'
      BY <1>1 DEF Passing
    <3>3. HandAt(d)'
      BY <1>1, <1>2, <1>3, <3>1, <3>2 DEF HandAt
    <3> QED BY <2>2, <3>3
  <2> QED BY <2>1, <2>2
<1>6. ASSUME NEW a \in Builds PROVE PathOf(a)'
  BY <1>1, <1>2, <1>3, <1>4 DEF PathOf, HandInv
<1>7. \A a \in Builds : (Overtaker(a) <=> Overtaker(a)') /\ (Overtaken(a) <=> Overtaken(a)')
  BY <1>1 DEF Overtaker, Overtaken
<1>8. ASSUME NEW a \in Builds PROVE ExactOf(a)'
  <2>1. Owed(a)' = Owed(a)
    BY OwedRest
  <2> QED BY <1>1, <1>7, <2>1 DEF ExactOf, Calm, HandInv
<1>9. ASSUME NEW a \in Builds PROVE LateOf(a)'
  <2>1. Unfinished(a)' \subseteq Unfinished(a)
    <3>1. ASSUME NEW f \in Targets(a), f # d, f \in Unfinished(a)' PROVE f \in Unfinished(a)
      <4>1. f \in Devices
        BY LeftListed
      <4> QED BY <1>1, <3>1, <4>1 DEF Unfinished, Current
    <3>2. ASSUME d \in Unfinished(a)' PROVE d \in Unfinished(a)
      BY <1>1, <1>2, <1>3, <1>4, <3>2 DEF Unfinished
    <3>3. Unfinished(a)' \subseteq Targets(a)
      BY <1>3 DEF Unfinished
    <3> QED BY <3>1, <3>2, <3>3
  <2>2. LateOf(a) /\ count[a] \in Int
    BY DEF HandInv, NoticeInv
  <2> QED BY <1>1, <1>7, <2>1, <2>2, LateFrame
<1> QED BY <1>5, <1>6, <1>8, <1>9 DEF HandInv

(* The issuer reads the callback, clears it and counts it down, or ends    *)
(* the command. *)
LEMMA HandRest ==
  ASSUME CallTypes, NoticeInv, LineInv, HandInv, NEW d \in Devices, Turns(d) \/ Ends(d)
  PROVE  HandInv'
<1>1. /\ at[d].step # "wait" /\ Current(d) \in Builds
      /\ \A f \in Devices : f # d => at'[f] = at[f] /\ callback'[f] = callback[f]
      /\ \A f \in Devices : f # d => ready'[f] = ready[f]
      /\ UNCHANGED <<call, completed, overtook>>
  BY Turned, Ended, HeadsAreCalls
<1>2. \A f \in Devices : Pending(f)' = Pending(f)
  BY PendingStays
<1>3. \A a \in Builds : Left(a)' = Left(a) /\ Targets(a)' = Targets(a)
  BY <1>1, LeftFrame
<1>4. HandAt(d)
  BY DEF HandInv
<1>5. HandAt(d)'
  <2>0. ASSUME Pending(d)' # <<>>
        PROVE  d \in Targets(Head(Pending(d)))' /\ d \notin completed'[Head(Pending(d))']
    <3>1. Pending(d) # <<>> /\ Pending(d)' = Pending(d)
      BY <1>2, <2>0
    <3> SUFFICES ASSUME NEW h, h = Head(Pending(d))
                 PROVE  d \in Targets(Head(Pending(d)))' /\ d \notin completed'[Head(Pending(d))']
      OBVIOUS
    <3>2. d \in Targets(h) /\ d \notin completed[h]
      BY <1>4, <3>1 DEF HandAt
    <3>3. Head(Pending(d))' = h
      BY <3>1
    <3> QED BY <1>1, <3>2, <3>3 DEF Targets
  <2>1. CASE ReadCallback(d)
    <3>1. /\ at[d].step = "callback" /\ at'[d].step = "clear" /\ at'[d].cb = callback[d]
          /\ callback' = callback /\ ready' = ready
      BY <2>1 DEF ReadCallback, Building, CallTypes
    <3>2. Passing(d) /\ Passing(d)' /\ Current(d)' = Current(d)
      BY <3>1 DEF Passing, Current
    <3>3. callback[d] # None =>
            callback[d] = Current(d) \/ <<Current(d), callback[d]>> \in overtook
      BY <1>4, <3>2, HeadsAreCalls DEF HandAt
    <3> QED BY <1>1, <1>2, <1>3, <1>4, <2>0, <3>1, <3>2, <3>3 DEF HandAt
  <2>2. CASE ClearCallback(d)
    <3>1. /\ at[d].step = "clear" /\ at'[d].step \in {"register", "countdown"}
          /\ at'[d].cb = at[d].cb /\ callback'[d] = None /\ ready' = ready
      BY <2>2 DEF ClearCallback, Building, Go, CallTypes
    <3>2. ~Passing(d)' /\ Current(d)' = Current(d)
      BY <3>1 DEF Passing, Current
    <3> QED BY <1>1, <1>2, <1>3, <1>4, <2>0, <3>1, <3>2 DEF HandAt
  <2>3. CASE Countdown(d)
    <3>1. /\ at[d].step = "countdown" /\ at'[d].step = "register"
          /\ callback' = callback /\ ready' = ready
      BY <2>3, CountedDown
    <3>2. ~Passing(d) /\ ~Passing(d)' /\ Current(d)' = Current(d)
      BY <3>1 DEF Passing, Current
    <3> QED BY <1>1, <1>2, <1>3, <1>4, <2>0, <3>1, <3>2 DEF HandAt
  <2>4. CASE Ends(d)
    <3>1. at[d].step = "register" /\ at'[d].step = "wait" /\ callback' = callback
      BY <2>4, Ended
    <3>2. ~Passing(d) /\ ~Passing(d)'
      BY <3>1 DEF Passing
    <3> QED BY <1>1, <1>2, <1>3, <1>4, <2>0, <3>1, <3>2 DEF HandAt
  <2> QED BY <2>1, <2>2, <2>3, <2>4 DEF Turns
<1>6. ASSUME NEW f \in Devices, f # d PROVE HandAt(f)'
  BY <1>1, <1>3, <1>6, HandFrame DEF HandInv
<1>7. ASSUME NEW a \in Builds PROVE PathOf(a)'
  BY <1>1, <1>3 DEF PathOf, HandInv
<1>8. \A a \in Builds : (Overtaker(a) <=> Overtaker(a)') /\ (Overtaken(a) <=> Overtaken(a)')
  BY <1>1 DEF Overtaker, Overtaken
<1>9. ASSUME NEW a \in Builds PROVE ExactOf(a)'
  <2> SUFFICES ASSUME Calm(a) PROVE count'[a] = Owed(a)'
    BY <1>8 DEF ExactOf, Calm
  <2>1. count[a] = Owed(a) /\ count[a] \in Int
    BY DEF HandInv, ExactOf, NoticeInv
  <2>2. CASE ~Countdown(d)
    <3>1. count' = count
      BY <2>2, Ended DEF Turns, ReadCallback, ClearCallback
    <3>2. Owed(a)' = Owed(a)
      BY <2>2, OwedRead, OwedClear, OwedRest DEF Turns
    <3> QED BY <2>1, <3>1, <3>2
  <2>3. CASE Countdown(d)
    <3>1. CASE a = at[d].cb
      <4>1. count'[a] = count[a] - 1 /\ Owed(a)' = Owed(a) - 1
        BY <2>3, <3>1, CountedDown, OwedCountdown
      <4> QED BY <2>1, <4>1
    <3>2. CASE a # at[d].cb
      <4>1. count'[a] = count[a] /\ Owed(a)' = Owed(a)
        BY <2>3, <3>2, CountedDown, OwedCountdown
      <4> QED BY <2>1, <4>1
    <3> QED BY <3>1, <3>2
  <2> QED BY <2>2, <2>3
<1>10. ASSUME NEW a \in Builds PROVE LateOf(a)'
  <2>0. LateOf(a) /\ PathOf(a) /\ count[a] \in Int
    BY DEF HandInv, NoticeInv
  <2>1. Unfinished(a)' \subseteq Unfinished(a)
    <3>1. ASSUME NEW f \in Targets(a), f # d, f \in Unfinished(a)' PROVE f \in Unfinished(a)
      <4>1. f \in Devices
        BY LeftListed
      <4> QED BY <1>1, <3>1, <4>1 DEF Unfinished, Current
    <3>2. ASSUME d \in Unfinished(a)' PROVE d \in Unfinished(a)
      <4>1. CASE ReadCallback(d)
        <5>1. at[d].step = "callback" /\ ready' = ready
          BY <4>1 DEF ReadCallback, Building
        <5> QED BY <1>1, <1>3, <3>2, <5>1 DEF Unfinished, Current
      <4>2. CASE ClearCallback(d)
        <5>1. at[d].step = "clear" /\ ready' = ready
          BY <4>2 DEF ClearCallback, Building
        <5> QED BY <1>1, <1>3, <3>2, <5>1 DEF Unfinished, Current
      <4>3. CASE Countdown(d) \/ Ends(d)
        <5>1. at'[d].step \in {"register", "wait"}
          BY <4>3, CountedDown, Ended
        <5> QED BY <1>1, <1>3, <3>2, <5>1 DEF Unfinished
      <4> QED BY <4>1, <4>2, <4>3 DEF Turns
    <3>3. Unfinished(a)' \subseteq Targets(a)
      BY <1>3 DEF Unfinished
    <3> QED BY <3>1, <3>2, <3>3
  <2>2. CASE Countdown(d) /\ a = at[d].cb /\ ~Overtaker(a) /\ call[a].notify
    <3>1. /\ at[d].step = "countdown" /\ at'[d].step = "register"
          /\ count'[a] = count[a] - 1
      BY <2>2, CountedDown
    <3>2. Current(d) = a
      BY <1>1, <1>4, <2>2, <3>1, BuildAssumption DEF HandAt, Overtaker
    <3>3. d \in completed[a] /\ d \in Targets(a)
      BY <1>4, <2>0, <3>1, <3>2 DEF HandAt, PathOf
    <3>4. d \in Unfinished(a) /\ d \notin Unfinished(a)'
      BY <1>1, <3>1, <3>2, <3>3 DEF Unfinished
    <3>5. IsFiniteSet(Unfinished(a)) /\ IsFiniteSet(Unfinished(a) \ {d})
      <4>1. Unfinished(a) \subseteq Targets(a) /\ IsFiniteSet(Targets(a))
        BY LeftListed DEF Unfinished
      <4> QED BY <4>1, FS_Subset
    <3>6. Cardinality(Unfinished(a) \ {d}) = Cardinality(Unfinished(a)) - 1
      BY <3>4, <3>5, OneLess
    <3>7. /\ Cardinality(Unfinished(a)') <= Cardinality(Unfinished(a) \ {d})
          /\ IsFiniteSet(Unfinished(a)')
      <4>1. Unfinished(a)' \in SUBSET (Unfinished(a) \ {d})
        BY <2>1, <3>4
      <4> QED BY <3>5, <4>1, FS_Subset
    <3>8. Cardinality(Unfinished(a)) \in Nat /\ Cardinality(Unfinished(a)') \in Nat
      BY <3>5, <3>7, FS_CardinalityType
    <3>9. Cardinality(Unfinished(a)) <= count[a]
      BY <2>0, <2>2 DEF LateOf
    <3>10. Cardinality(Unfinished(a)') <= count'[a]
      BY <2>0, <3>1, <3>6, <3>7, <3>8, <3>9
    <3> QED BY <3>10 DEF LateOf
  <2>3. CASE Overtaker(a) \/ ~call[a].notify
    BY <1>1, <1>8, <2>3 DEF LateOf
  <2>4. CASE ~(Countdown(d) /\ a = at[d].cb)
    <3>1. count'[a] = count[a]
      BY <2>4, CountedDown, Ended DEF Turns, ReadCallback, ClearCallback
    <3> QED BY <1>1, <1>8, <2>0, <2>1, <3>1, LateFrame
  <2> QED BY <2>2, <2>3, <2>4
<1> QED BY <1>5, <1>6, <1>7, <1>9, <1>10 DEF HandInv

(* Every step preserves BuildInv. *)
LEMMA BuildInvStep ==
  ASSUME BuildInv, [Next]_vars
  PROVE  BuildInv'
<1>1. CallTypes' /\ NoticeInv'
  BY CallTypesStep, NoticeInvStep DEF BuildInv
<1>2. ASSUME NoRepeats' PROVE LineInv' /\ HandInv'
  <2>1. NoRepeats /\ CallTypes /\ NoticeInv /\ LineInv /\ HandInv
    BY <1>2, RepeatsStay DEF BuildInv
  <2>2. LineInv'
    BY <2>1, LineInvStep
  <2>3. CASE Aside
    <3>1. UNCHANGED <<call, count, callback, ready, at, notified, completed, overtook>>
      BY <2>3, AsideLeaves
    <3>2. \A b \in Builds : /\ Left(b)' = Left(b) /\ Targets(b)' = Targets(b)
                            /\ Owed(b)' = Owed(b)
                            /\ (Overtaker(b) <=> Overtaker(b)') /\ (Overtaken(b) <=> Overtaken(b)')
      BY <3>1, LeftFrame, OwedFrame DEF Overtaker, Overtaken
    <3>3. \A d \in Devices : HandAt(d)'
      BY <2>1, <3>1, <3>2, HandFrame DEF HandInv
    <3>4. ASSUME NEW b \in Builds PROVE PathOf(b)' /\ ExactOf(b)' /\ LateOf(b)'
      <4>1. PathOf(b) /\ ExactOf(b) /\ LateOf(b) /\ count[b] \in Int
        BY <2>1 DEF HandInv, NoticeInv
      <4>2. Unfinished(b)' = Unfinished(b)
        BY <3>1, <3>2 DEF Unfinished, Current
      <4>3. LateOf(b)'
        BY <2>1, <3>1, <3>2, <4>1, <4>2, LateFrame
      <4> QED BY <3>1, <3>2, <4>1, <4>3 DEF PathOf, ExactOf, Calm
    <3> QED BY <2>2, <3>3, <3>4 DEF HandInv
  <2>4. HandInv'
    BY <2>1, <2>3, StepCases, HandEnter, HandIssue, HandComplete, HandRest
  <2> QED BY <2>2, <2>4
<1> QED BY <1>1, <1>2 DEF BuildInv

(* A new program satisfies BuildInv. *)
LEMMA BuildInvInitial == Init => BuildInv
<1> SUFFICES ASSUME Init PROVE BuildInv
  OBVIOUS
<1>1. CallTypes /\ NoticeInv /\ LineInv
  BY CallTypesInitial, NoticeInvInitial, LineInvInitial
<1>2. ASSUME NEW d \in Devices PROVE HandAt(d)
  BY DEF Init, HandAt, Pending, Passing, Waiting
<1>3. ASSUME NEW b \in Builds PROVE PathOf(b) /\ ExactOf(b) /\ LateOf(b)
  <2>1. Kept(b) = {} /\ Held(b) = {} /\ Loop(b) = 0
    BY BuildAssumption DEF Init, Kept, Held, Loop, NoCall, Waiting
  <2>2. Owed(b) = 0 /\ count[b] = 0
    BY <2>1, FS_EmptySet DEF Init, Owed
  <2>3. completed[b] = {} /\ ~call[b].notify
    BY DEF Init, NoCall
  <2> QED BY <2>2, <2>3 DEF PathOf, ExactOf, LateOf
<1> QED BY <1>1, <1>2, <1>3 DEF BuildInv, HandInv

(* BuildInv is an invariant. *)
LEMMA BuildInvAlways == Spec => []BuildInv
BY BuildInvInitial, BuildInvStep, PTL DEF Spec

(* build_success_cnt_ never counts more executables than the devices hold, *)
(* whatever builds, compilations and failures are under way, as long as no *)
(* call lists a device twice. *)
THEOREM ExecutablesCounted == Spec => []CountSound
<1>1. BuildInv => CountSound
  BY DEF BuildInv, LineInv, CountBound, Usable, CountSound
<1> QED BY <1>1, BuildInvAlways, PTL

(* A call's count_ is what the loop, build_callback_ and the issuers still *)
(* have in hand for it, and never less, and pfn_notify has run exactly at  *)
(* zero: for every call that no other overtakes, that overtakes none, and  *)
(* when no call lists a device twice. *)
THEOREM NoticesKept == Spec => []NoticeNotLost
<1>1. ASSUME BuildInv PROVE NoticeNotLost
  <2> SUFFICES ASSUME NEW b \in Builds
               PROVE  /\ count[b] >= Owed(b)
                      /\ NoRepeats /\ ~Overtaker(b) /\ ~Overtaken(b) => count[b] = Owed(b)
                      /\ b \in notified <=>
                           call[b].notify /\ call[b].targets # <<>> /\ count[b] = 0
    BY DEF NoticeNotLost
  <2>1. CallTypes /\ CountOf(b) /\ count[b] \in Int
    BY <1>1 DEF BuildInv, NoticeInv
  <2>2. count[b] >= Owed(b)
    BY <2>1, OwedParts DEF CountOf
  <2>3. NoRepeats /\ ~Overtaker(b) /\ ~Overtaken(b) => count[b] = Owed(b)
    BY <1>1 DEF BuildInv, HandInv, ExactOf, Calm
  <2> QED BY <2>1, <2>2, <2>3 DEF CountOf
<1> QED BY <1>1, BuildInvAlways, PTL

(* pfn_notify runs after the last device's build, unless its call has      *)
(* overtaken another or a call lists a device twice. *)
THEOREM NotifiedAtLast == Spec => []NotifiedLast
<1>1. ASSUME BuildInv PROVE NotifiedLast
  <2> SUFFICES ASSUME NoRepeats, NEW b \in notified, ~Overtaker(b)
               PROVE  completed[b] = Targets(b)
    BY DEF NotifiedLast
  <2>1. /\ CallTypes /\ b \in Builds /\ call[b].notify /\ count[b] = 0
        /\ PathOf(b) /\ LateOf(b)
    BY <1>1 DEF BuildInv, NoticeInv, CountOf, HandInv
  <2>2. Unfinished(b) = {}
    <3>1. Unfinished(b) \subseteq Targets(b) /\ IsFiniteSet(Targets(b))
      BY <2>1, LeftListed DEF Unfinished
    <3>2. IsFiniteSet(Unfinished(b))
      BY <3>1, FS_Subset
    <3>3. Cardinality(Unfinished(b)) <= 0 /\ Cardinality(Unfinished(b)) \in Nat
      BY <2>1, <3>2, FS_CardinalityType DEF LateOf
    <3>4. Cardinality(Unfinished(b)) = 0
      BY <3>3
    <3> QED BY <3>2, <3>4, FS_EmptySet
  <2>3. Targets(b) \subseteq completed[b]
    BY <2>2 DEF Unfinished
  <2> QED BY <2>1, <2>3 DEF PathOf
<1> QED BY <1>1, BuildInvAlways, PTL

-----------------------------------------------------------------------------
(* Type correctness *)

(* What the invariants above do not say of the types. *)
InfoTypes ==
  infos \subseteq Devices /\ dangling \in BOOLEAN /\ kernels \subseteq Kernels /\ asked \subseteq Kernels

(* Every step keeps InfoTypes. *)
LEMMA InfoTypesStep ==
  ASSUME InfoTypes, [Next]_vars
  PROVE  InfoTypes'
<1> USE DEF InfoTypes, infoVars, kernelVars
<1>1. ASSUME NEW k \in Kernels,
             AskKernel(k) \/ CreateKernel(k) \/ CreateDangling(k) \/ CreateKernelsInProgram(k)
               \/ ReleaseKernel(k)
      PROVE  InfoTypes'
  BY <1>1 DEF AskKernel, CreateKernel, CreateDangling, CreateKernelsInProgram, ReleaseKernel, Crash
<1>2. ASSUME NEW d \in Devices, NEW read \in BOOLEAN, ReadKernelInfo(d, read)
      PROVE  InfoTypes'
  BY <1>2 DEF ReadKernelInfo, Deletes
<1>3. ASSUME UNCHANGED <<infos, dangling, kernels, asked>>
      PROVE  InfoTypes'
  BY <1>3
<1>4. ASSUME NEW b \in Builds, Enters(b) \/ Issue(b)
      PROVE  InfoTypes'
  BY <1>3, <1>4 DEF Enters, EnterBuild, Issue
<1>5. CASE \E d \in Devices : \/ \E ok \in BOOLEAN : CompleteBuild(d, ok)
                              \/ Turns(d) \/ SkipRegister(d) \/ ReadReleased(d)
  BY <1>3, <1>5 DEF Turns, CompleteBuild, ReadCallback, ClearCallback, Countdown, SkipRegister,
                    ReadReleased, Crash
<1>6. CASE UNCHANGED vars
  BY <1>3, <1>6 DEF vars
<1> QED BY <1>1, <1>2, <1>4, <1>5, <1>6, CallsEnter DEF Next, Host, Issuer, Turns

(* ProgramBuild is type correct: in particular count_ is never negative    *)
(* and never more than the devices listed, and kernels_ref_cnt_ never passes the  *)
(* number of kernels. *)
THEOREM TypeCorrect ==
  ASSUME IsFiniteSet(Kernels)
  PROVE  Spec => []TypeOK
<1>1. Init => InfoTypes
  BY DEF Init, InfoTypes
<1>2. InfoTypes /\ [Next]_vars => InfoTypes'
  BY InfoTypesStep
<1>3. ASSUME BuildInv, KernelInv, InfoTypes
      PROVE  TypeOK
  <2>t. CallTypes /\ NoticeInv
    BY <1>3 DEF BuildInv
  <2>1. ASSUME NEW b \in Builds
        PROVE  /\ call[b].kind \in {"build", "compile", "link", None} /\ call[b].notify \in BOOLEAN
               /\ call[b].targets \in Seq(Devices) /\ Len(call[b].targets) <= MaxList
               /\ call[b].next \in 1..Len(call[b].targets) + 1
    BY <2>t DEF CallTypes, Calls
  <2>2. count \in [Builds -> 0..MaxList]
    <3>1. ASSUME NEW b \in Builds
          PROVE  count[b] \in 0..MaxList
      <4>1. CountOf(b) /\ count[b] \in Int /\ Owed(b) \in Nat
        BY <2>t, OwedParts DEF NoticeInv
      <4>2. Len(call[b].targets) \in Nat /\ Len(call[b].targets) <= MaxList
        BY <2>1
      <4> QED BY <4>1, <4>2, BuildAssumption DEF CountOf
    <3> QED BY <2>t, <3>1 DEF NoticeInv
  <2>3. refs \in -1..Cardinality(Kernels)
    <3>1. /\ Cardinality(kernels) \in Nat /\ Cardinality(Kernels) \in Nat
          /\ Cardinality(kernels) <= Cardinality(Kernels)
      BY <1>3, FS_Subset, FS_CardinalityType DEF InfoTypes
    <3> QED BY <1>3, <3>1 DEF KernelInv, RefsCountKernels
  <2> QED BY <1>3, <2>t, <2>1, <2>2, <2>3 DEF TypeOK, CallTypes, NoticeInv, InfoTypes
<1> QED BY <1>1, <1>2, <1>3, BuildInvAlways, KernelInvAlways, PTL DEF Spec

=============================================================================
