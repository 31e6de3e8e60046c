----------------------- MODULE MemConsistency_proofs -----------------------
(***************************************************************************)
(* The copies of a memory object behave as one memory object, for any      *)
(* number of queues, devices, memory objects and commands: a command finds *)
(* on its device what the last writer wrote.  Assumed are what the runs    *)
(* assume: no queue changes its device between two passes over a command   *)
(* (~RebindMidway), a fill covers its object, and so does a write that     *)
(* goes to every device (WholeWrites).                                     *)
(***************************************************************************)
EXTENDS MemConsistency, Integers, SequenceTheorems, TLAPS

WholeWrites ==
  \A o \in Ops :
    o.kind = "fill" \/ (o.kind \in {"write", "copy"} /\ OnEveryDevice(o.dst)) => o.whole

-----------------------------------------------------------------------------
(* The inductive invariant: control *)

Task ==
  [what : {"exec", "copy", "read", "write"}, on : Devices, cmd : Commands,
   mem : Mems \cup {None}, from : Devices \cup {None}, to : Devices \cup {None}]

TasksOf(r) == UNION {{r[d][i] : i \in DOMAIN r[d]} : d \in Devices}
Tasks == TasksOf(ready)

SameKey(t, u) == t.cmd = u.cmd /\ t.mem = u.mem

(* Ready queues hold tasks for their device, and no two tasks of a command *)
(* for one memory object. *)
Good(r) ==
  /\ r \in [Devices -> Seq(Task)]
  /\ \A d \in Devices : \A i \in DOMAIN r[d] : r[d][i].on = d
  /\ \A d, e \in Devices : \A i \in DOMAIN r[d], j \in DOMAIN r[e] :
       SameKey(r[d][i], r[e][j]) => d = e /\ i = j

(* A command is in one ring at most, and only the head of a ring has been  *)
(* resolved. *)
InRings ==
  /\ \A q \in Queues : \A i \in DOMAIN pending[q] :
       /\ op[pending[q][i]] # None /\ pending[q][i] \notin done
       /\ i # 1 => ~resolved[pending[q][i]]
  /\ \A q, r \in Queues : \A i \in DOMAIN pending[q], j \in DOMAIN pending[r] :
       pending[q][i] = pending[r][j] => q = r /\ i = j

(* Only a resolved command has tasks, and only until it is complete. *)
Begun ==
  /\ \A c \in Commands : (resolved[c] => op[c] # None) /\ (c \in done => resolved[c])
  /\ \A c \in Commands, m \in Mems : <<c, m>> \in done => resolved[c]
  /\ \A t \in Tasks : resolved[t.cmd] /\ t.cmd \notin done

(* Of two commands that use a memory object in common, one has not been    *)
(* resolved or is complete. *)
OneAtATime ==
  \A b, c \in Commands :
    b # c /\ op[b] # None /\ op[c] # None /\ Conflict(op[b], op[c]) =>
      \/ b \in waits[c] /\ ~resolved[c]
      \/ c \in waits[b] /\ ~resolved[b]
      \/ b \in done \/ c \in done

(* What a transfer is, and that its command waits for it. *)
Moving ==
  \A t \in Tasks : t.what # "exec" =>
    /\ t.mem \in Touched(op[t.cmd])
    /\ <<t.cmd, t.mem>> \in waits[t.cmd] /\ <<t.cmd, t.mem>> \notin done
    /\ t.to \in {None, target[t.cmd]}
    /\ t.what \in {"read", "copy"} => t.from \in Devices
    /\ t.what = "read" => t.on = t.from
    /\ t.what \in {"copy", "write"} => t.on = t.to

(* A submitted command has left its ring and has no transfers. *)
Executing ==
  \A t \in Tasks : t.what = "exec" =>
    /\ t.mem = None
    /\ \A u \in Tasks : u.cmd = t.cmd => u = t
    /\ \A q \in Queues : \A i \in DOMAIN pending[q] : pending[q][i] # t.cmd

Control ==
  /\ TypeOK /\ Good(ready) /\ InRings /\ Begun /\ OneAtATime /\ Moving /\ Executing

-----------------------------------------------------------------------------
(* The inductive invariant: data *)

(* A command is submitted to the device it was resolved for; a read never  *)
(* waits for transfers. *)
Bound ==
  /\ \A q \in Queues : Midway(q) => /\ target[Head(pending[q])] = device[q]
                                    /\ op[Head(pending[q])].kind # "read"
  /\ \A t \in Tasks : t.what = "exec" /\ op[t.cmd].kind # "read" => t.on = target[t.cmd]

Moved(m, e)    == \E t \in Tasks : t.what # "exec" /\ t.mem = m /\ t.to = e
Promised(m, e) == \E t \in Tasks : t.what = "exec" /\ t.on = e /\ m \in Written(op[t.cmd])

(* A device in the directory has the latest contents, or they are on their *)
(* way, or a command that will write them is. *)
Directory ==
  \A m \in Mems :
    /\ \A e \in latest[m] : copy[m][e] = value[m] \/ Moved(m, e) \/ Promised(m, e)
    /\ latest[m] = {} => \A e \in Devices : copy[m][e] = value[m]

(* A transfer takes the latest contents with it, to a device or, for the   *)
(* source of a copy, to the temporary buffer. *)
Carrying ==
  \A t \in Tasks :
    /\ t.what \in {"copy", "read"} => copy[t.mem][t.from] = value[t.mem]
    /\ t.what = "write" => temp[<<t.cmd, t.mem>>] = value[t.mem]
    /\ t.what # "exec" => (t.to = None <=> op[t.cmd].kind = "copy" /\ t.mem = op[t.cmd].src)

OnTheWay(c, m) == \E t \in Tasks : t.cmd = c /\ t.mem = m

(* What a resolved command needs is where it will look, or on its way. *)
Arrived ==
  \A c \in Commands : resolved[c] /\ c \notin done =>
    /\ target[c] \in Devices
    /\ \A m \in Located(op[c]) : copy[m][target[c]] = value[m] \/ OnTheWay(c, m)
    /\ op[c].kind = "copy" /\ source[c] = None =>
         temp[<<c, op[c].src>>] = value[op[c].src] \/ OnTheWay(c, op[c].src)
    /\ op[c].kind = "copy" /\ source[c] # None => copy[op[c].src][source[c]] = value[op[c].src]

(* A read is submitted where the latest contents are. *)
Reading ==
  \A t \in Tasks : t.what = "exec" /\ op[t.cmd].kind = "read" =>
    copy[op[t.cmd].src][t.on] = value[op[t.cmd].src]

(* The directory of what a command will write names its device only. *)
Exclusive ==
  \A t \in Tasks : t.what = "exec" => \A m \in Written(op[t.cmd]) : latest[m] = {t.on}

Data == Directory /\ Carrying /\ Arrived /\ Reading /\ Exclusive /\ ContentsKept

MemInv == Control /\ Bound /\ Data

-----------------------------------------------------------------------------
(* Facts about operations *)

(* Whatever a command needs or changes is one of its memory objects, and   *)
(* what it uses without changing it is brought to its device, except for   *)
(* the source of a copy and of a read. *)
LEMMA OpFacts ==
  ASSUME NEW o \in Ops
  PROVE  /\ Touched(o) \subseteq Mems /\ None \notin Touched(o)
         /\ Located(o) \subseteq Touched(o) /\ Fetched(o) \subseteq Touched(o)
         /\ Written(o) \subseteq Touched(o)
         /\ o.kind = "read" => Located(o) = {} /\ Written(o) = {} /\ Fetched(o) = {o.src}
         /\ o.kind = "copy" => o.src \notin Located(o) /\ Fetched(o) = {o.src} /\ o.src \in Mems
         /\ o.kind \notin {"read", "copy"} => Fetched(o) = {}
         /\ \A m \in Touched(o) \ Written(o) :
              m \in Located(o) \/ (o.kind \in {"copy", "read"} /\ m = o.src)
<1>1. /\ o \in [kind : {"kernel", "read", "map", "write", "fill", "copy"},
                src : Mems \cup {None}, dst : Mems \cup {None}, whole : BOOLEAN]
      /\ o.src # o.dst
      /\ o.kind \in {"read", "map", "copy"} => o.src \in Mems
      /\ o.kind \in {"write", "fill", "copy"} => o.dst \in Mems
      /\ o.kind \in {"read", "map"} => o.dst = None
      /\ o.kind \in {"write", "fill"} => o.src = None
      /\ None \notin Mems
  BY MemAssumption
<1>2. o.kind \in {"kernel", "read", "map", "write", "fill", "copy"}
  BY <1>1
<1>3. CASE o.kind = "kernel"
  BY <1>1, <1>3 DEF Touched, Located, Fetched, Written
<1>4. CASE o.kind = "read"
  BY <1>1, <1>4 DEF Touched, Located, Fetched, Written
<1>5. CASE o.kind = "map"
  BY <1>1, <1>5 DEF Touched, Located, Fetched, Written
<1>6. CASE o.kind \in {"write", "fill"}
  BY <1>1, <1>6 DEF Touched, Located, Fetched, Written
<1>7. CASE o.kind = "copy"
  BY <1>1, <1>7 DEF Touched, Located, Fetched, Written
<1> QED BY <1>2, <1>3, <1>4, <1>5, <1>6, <1>7

(* What a command changes without bringing it first it overwrites as a     *)
(* whole; so does a command that writes on every device. *)
LEMMA WholeFacts ==
  ASSUME WholeWrites, NEW o \in Ops, NEW m \in Written(o)
  PROVE  /\ m \in Located(o) \/ Overwrites(o)
         /\ o.kind \in {"write", "copy"} /\ OnEveryDevice(o.dst) => Overwrites(o) /\ m = o.dst
         /\ o.kind \in {"write", "fill", "copy"} => m = o.dst
<1>1. o \in [kind : {"kernel", "read", "map", "write", "fill", "copy"},
             src : Mems \cup {None}, dst : Mems \cup {None}, whole : BOOLEAN]
  BY MemAssumption
<1>2. o.kind \in {"kernel", "read", "map", "write", "fill", "copy"} /\ o.whole \in BOOLEAN
  BY <1>1
<1>3. o.kind = "fill" \/ (o.kind \in {"write", "copy"} /\ OnEveryDevice(o.dst)) => o.whole
  BY DEF WholeWrites
<1>4. CASE o.kind = "kernel"
  BY <1>4 DEF Located, Written
<1>5. CASE o.kind \in {"read", "map"}
  BY <1>5 DEF Written
<1>6. CASE o.kind = "fill"
  BY <1>3, <1>6 DEF Written, Overwrites
<1>7. CASE o.kind \in {"write", "copy"}
  BY <1>2, <1>3, <1>7 DEF Written, Overwrites, Located
<1> QED BY <1>2, <1>4, <1>5, <1>6, <1>7

-----------------------------------------------------------------------------
(* Ready queues *)

(* A task for which there is no other yet is added. *)
LEMMA AddTask ==
  ASSUME NEW r, Good(r), NEW t \in Task, \A u \in TasksOf(r) : ~SameKey(u, t)
  PROVE  Good(Add(r, t)) /\ TasksOf(Add(r, t)) = TasksOf(r) \cup {t}
<1> DEFINE x == t.on
           s == Add(r, t)
           n == Len(r[x])
<1>1. x \in Devices
  BY DEF Task
<1>2. r[x] \in Seq(Task) /\ n \in Nat /\ DOMAIN r[x] = 1 .. n
  BY <1>1 DEF Good
<1>3. s[x] \in Seq(Task) /\ DOMAIN s[x] = 1 .. n + 1 /\ s[x][n + 1] = t
      /\ \A i \in 1 .. n : s[x][i] = r[x][i]
  <2>1. s[x] = Append(r[x], t)
    BY <1>1 DEF Good, Add
  <2> QED BY <1>2, <2>1
<1>4. \A d \in Devices : d # x => s[d] = r[d]
  BY DEF Good, Add
<1>5. s \in [Devices -> Seq(Task)]
  <2>1. s = [r EXCEPT ![x] = s[x]]
    BY <1>1 DEF Good, Add
  <2>2. r \in [Devices -> Seq(Task)]
    BY DEF Good
  <2> HIDE DEF s, x
  <2> QED BY <1>3, <2>1, <2>2
<1> HIDE DEF s, n
<1>6. ASSUME NEW d \in Devices, NEW i \in DOMAIN s[d]
      PROVE  \/ i \in DOMAIN r[d] /\ s[d][i] = r[d][i] /\ s[d][i] \in TasksOf(r)
             \/ d = x /\ i = n + 1 /\ s[d][i] = t
  <2>1. CASE d # x
    BY <1>4, <1>6, <2>1 DEF TasksOf
  <2>2. CASE d = x
    <3>1. i \in 1 .. n \/ i = n + 1
      BY <1>2, <1>3, <1>6, <2>2
    <3> QED BY <1>2, <1>3, <2>2, <3>1 DEF TasksOf
  <2> QED BY <2>1, <2>2
<1>7. \A d \in Devices : \A i \in DOMAIN s[d] : s[d][i].on = d
  BY <1>6 DEF Good
<1>8. ASSUME NEW d \in Devices, NEW e \in Devices, NEW i \in DOMAIN s[d], NEW j \in DOMAIN s[e],
             SameKey(s[d][i], s[e][j])
      PROVE  d = e /\ i = j
  <2>1. \/ i \in DOMAIN r[d] /\ s[d][i] = r[d][i] /\ s[d][i] \in TasksOf(r)
        \/ d = x /\ i = n + 1 /\ s[d][i] = t
    BY <1>6
  <2>2. \/ j \in DOMAIN r[e] /\ s[e][j] = r[e][j] /\ s[e][j] \in TasksOf(r)
        \/ e = x /\ j = n + 1 /\ s[e][j] = t
    BY <1>6
  <2> QED BY <1>8, <2>1, <2>2 DEF Good, SameKey
<1>9. Good(s)
  BY <1>5, <1>7, <1>8 DEF Good
<1>10. TasksOf(s) \subseteq TasksOf(r) \cup {t}
  BY <1>6 DEF TasksOf
<1>11. t \in TasksOf(s)
  <2>1. n + 1 \in DOMAIN s[x]
    BY <1>2, <1>3
  <2> QED BY <1>1, <1>3, <2>1 DEF TasksOf
<1>12. TasksOf(r) \subseteq TasksOf(s)
  <2>1. ASSUME NEW d \in Devices, NEW i \in DOMAIN r[d]
        PROVE  i \in DOMAIN s[d] /\ s[d][i] = r[d][i]
    <3>1. CASE d = x
      BY <1>2, <1>3, <2>1, <3>1
    <3>2. CASE d # x
      BY <1>4, <2>1, <3>2
    <3> QED BY <3>1, <3>2
  <2> QED BY <2>1 DEF TasksOf
<1> QED BY <1>9, <1>10, <1>11, <1>12 DEF s

(* The task at the head of a ready queue is taken out. *)
LEMMA TakeTask ==
  ASSUME NEW r, Good(r), NEW d \in Devices, r[d] # <<>>,
         NEW s, s = [r EXCEPT ![d] = Tail(@)]
  PROVE  /\ Good(s)
         /\ Head(r[d]) \in Task /\ Head(r[d]).on = d /\ Head(r[d]) \in TasksOf(r)
         /\ TasksOf(s) = TasksOf(r) \ {Head(r[d])}
         /\ \A u \in TasksOf(r) : SameKey(u, Head(r[d])) => u = Head(r[d])
<1> DEFINE n == Len(r[d])
           h == Head(r[d])
<1>1. r[d] \in Seq(Task) /\ n \in Nat /\ n # 0 /\ DOMAIN r[d] = 1 .. n /\ h = r[d][1] /\ h \in Task
  BY DEF Good
<1>2. 1 \in DOMAIN r[d] /\ h.on = d /\ h \in TasksOf(r)
  <2>1. 1 \in DOMAIN r[d]
    BY <1>1
  <2> QED BY <1>1, <2>1 DEF Good, TasksOf
<1>3. s[d] = Tail(r[d]) /\ \A e \in Devices : e # d => s[e] = r[e]
  BY DEF Good
<1>4. s[d] \in Seq(Task) /\ DOMAIN s[d] = 1 .. n - 1 /\ \A i \in 1 .. n - 1 : s[d][i] = r[d][i + 1]
  <2>1. /\ Tail(r[d]) \in Seq(Task) /\ Len(Tail(r[d])) = n - 1
        /\ \A i \in 1 .. Len(Tail(r[d])) : Tail(r[d])[i] = r[d][i + 1]
    BY <1>1, HeadTailProperties
  <2>2. DOMAIN Tail(r[d]) = 1 .. Len(Tail(r[d]))
    BY <2>1, LenProperties
  <2> QED BY <1>3, <2>1, <2>2
<1>5. s \in [Devices -> Seq(Task)]
  <2>1. s = [r EXCEPT ![d] = s[d]] /\ r \in [Devices -> Seq(Task)]
    BY DEF Good
  <2> QED BY <1>4, <2>1
<1> HIDE DEF n
<1>6. ASSUME NEW e \in Devices, NEW i \in DOMAIN s[e]
      PROVE  \E k \in DOMAIN r[e] : s[e][i] = r[e][k] /\ (e = d => k = i + 1 /\ i \in Nat /\ k # 1)
                                    /\ (e # d => k = i)
  <2>1. CASE e = d
    <3>1. i \in 1 .. n - 1 /\ i + 1 \in 1 .. n
      BY <1>1, <1>4, <1>6, <2>1
    <3>2. i + 1 \in DOMAIN r[e] /\ s[e][i] = r[e][i + 1] /\ i \in Nat /\ i + 1 # 1
      BY <1>1, <1>4, <2>1, <3>1
    <3> QED BY <2>1, <3>2
  <2>2. CASE e # d
    BY <1>3, <1>6, <2>2
  <2> QED BY <2>1, <2>2
<1>7. \A e \in Devices : \A i \in DOMAIN s[e] : s[e][i].on = e
  BY <1>6 DEF Good
<1>8. ASSUME NEW e \in Devices, NEW f \in Devices, NEW i \in DOMAIN s[e], NEW j \in DOMAIN s[f],
             SameKey(s[e][i], s[f][j])
      PROVE  e = f /\ i = j
  <2>1. PICK k \in DOMAIN r[e] : s[e][i] = r[e][k] /\ (e = d => k = i + 1 /\ i \in Nat /\ k # 1)
                                 /\ (e # d => k = i)
    BY <1>6
  <2>2. PICK l \in DOMAIN r[f] : s[f][j] = r[f][l] /\ (f = d => l = j + 1 /\ j \in Nat /\ l # 1)
                                 /\ (f # d => l = j)
    BY <1>6
  <2>3. e = f /\ k = l
    BY <1>8, <2>1, <2>2 DEF Good
  <2> QED BY <2>1, <2>2, <2>3
<1>9. Good(s)
  BY <1>5, <1>7, <1>8 DEF Good
<1>10. ASSUME NEW u \in TasksOf(r), SameKey(u, h)
       PROVE  u = h
  <2>0. PICK e \in Devices : \E i \in DOMAIN r[e] : u = r[e][i]
    BY DEF TasksOf
  <2>1. PICK i \in DOMAIN r[e] : u = r[e][i]
    BY <2>0
  <2> QED BY <1>1, <1>2, <1>10, <2>1 DEF Good
<1>11. ASSUME NEW u \in TasksOf(s)
       PROVE  u \in TasksOf(r) /\ u # h
  <2>0. PICK e \in Devices : \E i \in DOMAIN s[e] : u = s[e][i]
    BY <1>11 DEF TasksOf
  <2>1. PICK i \in DOMAIN s[e] : u = s[e][i]
    BY <2>0
  <2>2. PICK k \in DOMAIN r[e] : s[e][i] = r[e][k] /\ (e = d => k = i + 1 /\ i \in Nat /\ k # 1)
                                 /\ (e # d => k = i)
    BY <1>6
  <2>3. u \in TasksOf(r)
    BY <2>1, <2>2 DEF TasksOf
  <2>4. u # h
    <3>1. u = h => SameKey(r[e][k], r[d][1])
      BY <1>1, <2>1, <2>2 DEF SameKey
    <3> QED BY <1>2, <2>2, <3>1 DEF Good
  <2> QED BY <2>3, <2>4
<1>12. ASSUME NEW u \in TasksOf(r), u # h
       PROVE  u \in TasksOf(s)
  <2>0. PICK e \in Devices : \E i \in DOMAIN r[e] : u = r[e][i]
    BY DEF TasksOf
  <2>1. PICK i \in DOMAIN r[e] : u = r[e][i]
    BY <2>0
  <2>2. CASE e # d
    BY <1>3, <2>1, <2>2 DEF TasksOf
  <2>3. CASE e = d
    <3>1. i \in 1 .. n /\ i # 1
      BY <1>1, <1>12, <2>1, <2>3
    <3>2. i - 1 \in 1 .. n - 1 /\ (i - 1) + 1 = i
      BY <1>1, <3>1 DEF n
    <3>3. i - 1 \in DOMAIN s[d] /\ s[d][i - 1] = r[d][i]
      BY <1>4, <3>2
    <3> QED BY <2>1, <2>3, <3>3 DEF TasksOf
  <2> QED BY <2>2, <2>3
<1> QED BY <1>1, <1>2, <1>9, <1>10, <1>11, <1>12

-----------------------------------------------------------------------------
(* What resolving a command does *)

(* Short sequences. *)
LEMMA Pairs ==
  ASSUME NEW a, NEW b
  PROVE  /\ <<a>> \o <<b>> = <<a, b>>
         /\ <<>> \o <<>> = <<>> /\ <<>> \o <<a>> = <<a>> /\ <<a>> \o <<>> = <<a>>
         /\ <<a, b>> \o <<>> = <<a, b>>
<1> DEFINE S == {a, b}
           u == <<a>> \o <<b>>
           v == <<a, b>>
<1>1. <<a>> \in Seq(S) /\ <<b>> \in Seq(S) /\ v \in Seq(S) /\ <<>> \in Seq(S)
  OBVIOUS
<1>2. u \in Seq(S) /\ Len(u) = 2 /\ u[1] = a /\ u[2] = b
  BY <1>1, ConcatProperties
<1>3. Len(v) = 2 /\ v[1] = a /\ v[2] = b
  OBVIOUS
<1>4. v \o <<>> = v /\ <<>> \o <<>> = <<>> /\ <<>> \o <<a>> = <<a>> /\ <<a>> \o <<>> = <<a>>
  BY <1>1, ConcatEmptySeq
<1> HIDE DEF u, v, S
<1>5. Len(u) = Len(v) /\ \A i \in 1 .. Len(u) : u[i] = v[i]
  <2>1. \A i \in 1 .. 2 : i = 1 \/ i = 2
    OBVIOUS
  <2> QED BY <1>2, <1>3, <2>1
<1>6. u = v
  <2>1. u \in Seq(S) /\ v \in Seq(S)
    BY <1>1, <1>2
  <2> QED BY <1>5, <2>1, SeqEqual
<1> QED BY <1>4, <1>6 DEF u, v

(* A transfer that command c needs on device d. *)
Needed(c, d, from, x) ==
  \/ \E m \in Located(op[c]) : from[m] # d /\ x = CloneTask(c, m, from[m], d)
  \/ /\ op[c].kind = "copy" /\ ~UseCopy(from[op[c].src], d)
     /\ x = ReadTask(c, op[c].src, from[op[c].src])

(* The transfers of a command are tasks for different memory objects, two  *)
(* at most. *)
LEMMA TransferTasks ==
  ASSUME NEW c \in Commands, op[c] \in Ops, NEW d \in Devices, NEW from,
         \A m \in Located(op[c]) \cup Fetched(op[c]) : from[m] \in Devices,
         NEW tasks, tasks = Transfers(c, d, from)
  PROVE  /\ \A x : Needed(c, d, from, x) => x \in Task /\ x.cmd = c /\ x.what # "exec"
         /\ \/ /\ tasks = <<>> /\ \A x : ~Needed(c, d, from, x)
            \/ \E x : /\ tasks = <<x>>
                      /\ \A z : Needed(c, d, from, z) <=> z = x
            \/ \E x, y : /\ tasks = <<x, y>> /\ x.mem # y.mem
                         /\ \A z : Needed(c, d, from, z) <=> z \in {x, y}
<1> DEFINE o == op[c]
           s == o.src
           t == o.dst
           a == CloneTask(c, s, from[s], d)
           b == CloneTask(c, t, from[t], d)
           w == ReadTask(c, s, from[s])
           A == s \in Located(o) /\ from[s] # d
           B == t \in Located(o) /\ from[t] # d
           W == o.kind = "copy" /\ ~UseCopy(from[s], d)
<1>1. s # t /\ Located(o) \subseteq {s, t} /\ Located(o) \subseteq Mems
  BY OpFacts, MemAssumption DEF Touched
<1>2. o.kind = "copy" => s \notin Located(o) /\ s \in Mems /\ from[s] \in Devices
  BY OpFacts
<1>3. \A x : Needed(c, d, from, x) <=> (A /\ x = a) \/ (B /\ x = b) \/ (W /\ x = w)
  BY <1>1 DEF Needed
<1>4. A => a \in Task /\ a.cmd = c /\ a.what # "exec" /\ a.mem = s
  BY <1>1 DEF CloneTask, Task
<1>5. B => b \in Task /\ b.cmd = c /\ b.what # "exec" /\ b.mem = t
  BY <1>1 DEF CloneTask, Task
<1>6. W => w \in Task /\ w.cmd = c /\ w.what # "exec" /\ w.mem = s
  BY <1>2 DEF ReadTask, Task
<1>7. ~(A /\ W)
  BY <1>2
<1>8. tasks = (IF A THEN <<a>> ELSE <<>>) \o (IF B THEN <<b>> ELSE <<>>)
                \o (IF W THEN <<w>> ELSE <<>>)
  BY DEF Transfers
<1> HIDE DEF o, s, t, a, b, w, A, B, W
<1>9. \A x : Needed(c, d, from, x) => x \in Task /\ x.cmd = c /\ x.what # "exec"
  BY <1>3, <1>4, <1>5, <1>6
<1>10. CASE A /\ B
  <2>1. tasks = <<a, b>>
    BY <1>7, <1>8, <1>10, Pairs
  <2>2. \A z : Needed(c, d, from, z) <=> z \in {a, b}
    BY <1>3, <1>7, <1>10
  <2>3. a.mem # b.mem
    BY <1>1, <1>4, <1>5, <1>10
  <2> QED BY <1>9, <2>1, <2>2, <2>3
<1>11. CASE A /\ ~B
  <2>1. tasks = <<a>>
    BY <1>7, <1>8, <1>11, Pairs
  <2>2. \A z : Needed(c, d, from, z) <=> z = a
    BY <1>3, <1>7, <1>11
  <2> QED BY <1>9, <2>1, <2>2
<1>12. CASE ~A /\ B /\ W
  <2>1. tasks = <<b, w>>
    BY <1>8, <1>12, Pairs
  <2>2. \A z : Needed(c, d, from, z) <=> z \in {b, w}
    BY <1>3, <1>12
  <2>3. b.mem # w.mem
    BY <1>1, <1>5, <1>6, <1>12
  <2> QED BY <1>9, <2>1, <2>2, <2>3
<1>13. CASE ~A /\ B /\ ~W
  <2>1. tasks = <<b>>
    BY <1>8, <1>13, Pairs
  <2>2. \A z : Needed(c, d, from, z) <=> z = b
    BY <1>3, <1>13
  <2> QED BY <1>9, <2>1, <2>2
<1>14. CASE ~A /\ ~B /\ W
  <2>1. tasks = <<w>>
    BY <1>8, <1>14, Pairs
  <2>2. \A z : Needed(c, d, from, z) <=> z = w
    BY <1>3, <1>14
  <2> QED BY <1>9, <2>1, <2>2
<1>15. CASE ~A /\ ~B /\ ~W
  <2>1. tasks = <<>>
    BY <1>8, <1>15, Pairs
  <2>2. \A z : ~Needed(c, d, from, z)
    BY <1>3, <1>15
  <2> QED BY <1>9, <2>1, <2>2
<1> QED BY <1>10, <1>11, <1>12, <1>13, <1>14, <1>15

(* One task is submitted, or two for different memory objects. *)
LEMMA SubmitOne ==
  ASSUME Good(ready), NEW x \in Task, \A u \in Tasks : ~SameKey(u, x)
  PROVE  Good(Submitted(<<x>>)) /\ TasksOf(Submitted(<<x>>)) = Tasks \cup {x}
<1>1. Len(<<x>>) = 1 /\ <<x>>[1] = x
  OBVIOUS
<1>2. Submitted(<<x>>) = Add(ready, x)
  BY <1>1 DEF Submitted
<1> QED BY <1>2, AddTask DEF Tasks

(* Two tasks for different memory objects keep the ready queues Good. *)
LEMMA SubmitTwo ==
  ASSUME Good(ready), NEW x \in Task, NEW y \in Task, x.mem # y.mem,
         \A u \in Tasks : ~SameKey(u, x) /\ ~SameKey(u, y)
  PROVE  Good(Submitted(<<x, y>>)) /\ TasksOf(Submitted(<<x, y>>)) = Tasks \cup {x, y}
<1>1. Len(<<x, y>>) = 2 /\ <<x, y>>[1] = x /\ <<x, y>>[2] = y
  OBVIOUS
<1>2. Submitted(<<x, y>>) = Add(Add(ready, x), y)
  BY <1>1 DEF Submitted
<1>3. Good(Add(ready, x)) /\ TasksOf(Add(ready, x)) = Tasks \cup {x}
  BY AddTask DEF Tasks
<1>4. \A u \in TasksOf(Add(ready, x)) : ~SameKey(u, y)
  BY <1>3 DEF SameKey
<1>5. Good(Add(Add(ready, x), y)) /\ TasksOf(Add(Add(ready, x), y)) = (Tasks \cup {x}) \cup {y}
  BY <1>3, <1>4, AddTask
<1> QED BY <1>2, <1>5

(* The command is submitted in the pass that resolves it. *)
AtOnce(q, c, d, from, e) ==
  /\ e = (IF op[c].kind = "read" THEN from[op[c].src] ELSE d) /\ e \in Devices
  /\ \A m \in Located(op[c]) : from[m] = d
  /\ op[c].kind = "copy" => UseCopy(from[op[c].src], d)
  /\ waits' = [waits EXCEPT ![c] = {}]
  /\ latest' = Access(op[c], e, latest)
  /\ Tasks' = Tasks \cup {ExecTask(c, e)}
  /\ pending' = [pending EXCEPT ![q] = Tail(@)]

(* The command waits for transfers. *)
Later(c, d, from, S) ==
  /\ S # {} /\ S \subseteq Task /\ \A x : x \in S <=> Needed(c, d, from, x)
  /\ waits' = [waits EXCEPT ![c] = {<<c, x.mem>> : x \in S}]
  /\ latest' = [m \in Mems |-> IF m \in Located(op[c]) /\ from[m] # d THEN latest[m] \cup {d}
                                                                  ELSE latest[m]]
  /\ Tasks' = Tasks \cup S
  /\ UNCHANGED pending

(* The head of a ring that the scheduler resolves. *)
Chosen(q, c, d, from) ==
  /\ c = Head(pending[q]) /\ c \in Commands /\ op[c] \in Ops
  /\ ~resolved[c] /\ c \notin done /\ waits[c] \subseteq done
  /\ pending[q] # <<>> /\ d = device[q] /\ d \in Devices
  /\ from \in Choices(op[c], d)
  /\ \A m \in Located(op[c]) \cup Fetched(op[c]) : from[m] \in Devices
  /\ \A t \in Tasks : t.cmd # c

(* What a ring holds. *)
LEMMA HeadFacts ==
  ASSUME TypeOK, InRings, NEW q \in Queues, pending[q] # <<>>
  PROVE  /\ Head(pending[q]) \in Commands /\ op[Head(pending[q])] \in Ops
         /\ Head(pending[q]) \notin done
         /\ pending[q] \in Seq(Commands) /\ Head(pending[q]) = pending[q][1]
         /\ 1 \in DOMAIN pending[q]
<1>1. pending[q] \in Seq(Commands) /\ op \in [Commands -> Ops \cup {None}]
  BY DEF TypeOK
<1>2. Head(pending[q]) = pending[q][1] /\ 1 \in DOMAIN pending[q] /\ pending[q][1] \in Commands
  BY <1>1
<1>3. op[pending[q][1]] # None /\ pending[q][1] \notin done
  BY <1>2 DEF InRings
<1> QED BY <1>1, <1>2, <1>3

(* Resolving a command submits it or all of its transfers, never a part. *)
LEMMA BringFacts ==
  ASSUME Control, NEW q \in Queues, NEW c, NEW d, NEW from, Chosen(q, c, d, from),
         Bring(q, c, d, from)
  PROVE  /\ Good(ready')
         /\ (\E e : AtOnce(q, c, d, from, e)) \/ (\E S : Later(c, d, from, S))
<1> DEFINE o == op[c]
           tasks == Transfers(c, d, from)
           at == IF o.kind = "read" THEN from[o.src] ELSE d
           S == {tasks[i] : i \in DOMAIN tasks}
<1>t. Good(ready) /\ c \in Commands /\ op[c] \in Ops /\ d \in Devices
      /\ \A m \in Located(op[c]) \cup Fetched(op[c]) : from[m] \in Devices
  BY DEF Control, Chosen
<1>1. /\ \A x : Needed(c, d, from, x) => x \in Task /\ x.cmd = c /\ x.what # "exec"
      /\ \/ /\ tasks = <<>> /\ \A x : ~Needed(c, d, from, x)
         \/ \E x : /\ tasks = <<x>>
                   /\ \A z : Needed(c, d, from, z) <=> z = x
         \/ \E x, y : /\ tasks = <<x, y>> /\ x.mem # y.mem
                      /\ \A z : Needed(c, d, from, z) <=> z \in {x, y}
  BY <1>t, TransferTasks
<1>2. \A x \in Task : x.cmd = c => \A u \in Tasks : ~SameKey(u, x)
  BY DEF Chosen, SameKey
<1>3. /\ waits' = [waits EXCEPT ![c] = {<<c, tasks[i].mem>> : i \in DOMAIN tasks}]
      /\ tasks = <<>> => /\ latest' = Access(o, at, latest)
                         /\ ready' = Submitted(<<ExecTask(c, at)>>)
                         /\ pending' = [pending EXCEPT ![q] = Tail(@)]
      /\ tasks # <<>> =>
           /\ latest' = [m \in Mems |-> IF m \in {l \in Located(o) : from[l] # d}
                                          THEN latest[m] \cup {d} ELSE latest[m]]
           /\ ready' = Submitted(tasks) /\ UNCHANGED pending
  BY DEF Bring
<1> HIDE DEF tasks
<1>4. CASE tasks = <<>>
  <2>1. at \in Devices
    <3>1. o.kind = "read" => o.src \in Fetched(o)
      BY <1>t, OpFacts
    <3> QED BY <1>t, <3>1
  <2>2. ExecTask(c, at) \in Task /\ ExecTask(c, at).cmd = c
    BY <1>t, <2>1 DEF ExecTask, Task
  <2>3. Good(ready') /\ TasksOf(ready') = Tasks \cup {ExecTask(c, at)}
    BY <1>t, <1>2, <1>3, <1>4, <2>2, SubmitOne
  <2>4. \A x : ~Needed(c, d, from, x)
    BY <1>1, <1>4
  <2>5. (\A m \in Located(o) : from[m] = d) /\ (o.kind = "copy" => UseCopy(from[o.src], d))
    BY <2>4 DEF Needed
  <2>6. waits' = [waits EXCEPT ![c] = {}]
    <3>1. DOMAIN tasks = {}
      BY <1>4
    <3>2. {<<c, tasks[i].mem>> : i \in DOMAIN tasks} = {}
      BY <3>1
    <3> QED BY <1>3, <3>2
  <2>7. AtOnce(q, c, d, from, at)
    BY <1>3, <1>4, <2>1, <2>3, <2>5, <2>6 DEF AtOnce, Tasks
  <2> QED BY <2>3, <2>7
<1>5. CASE tasks # <<>>
  <2>1. Good(ready') /\ TasksOf(ready') = Tasks \cup S
    <3>1. ASSUME NEW x, tasks = <<x>>, \A z : Needed(c, d, from, z) <=> z = x
          PROVE  Good(ready') /\ TasksOf(ready') = Tasks \cup S
      <4>1. x \in Task /\ x.cmd = c
        BY <1>1, <3>1
      <4>2. S = {x}
        BY <3>1
      <4> QED BY <1>t, <1>2, <1>3, <1>5, <3>1, <4>1, <4>2, SubmitOne
    <3>2. ASSUME NEW x, NEW y, tasks = <<x, y>>, x.mem # y.mem,
                 \A z : Needed(c, d, from, z) <=> z \in {x, y}
          PROVE  Good(ready') /\ TasksOf(ready') = Tasks \cup S
      <4>1. x \in Task /\ x.cmd = c /\ y \in Task /\ y.cmd = c
        BY <1>1, <3>2
      <4>2. S = {x, y}
        BY <3>2
      <4> QED BY <1>t, <1>2, <1>3, <1>5, <3>2, <4>1, <4>2, SubmitTwo
    <3> QED BY <1>1, <1>5, <3>1, <3>2
  <2>2. S # {} /\ \A x : x \in S <=> Needed(c, d, from, x)
    <3>1. ASSUME NEW x, tasks = <<x>>, \A z : Needed(c, d, from, z) <=> z = x
          PROVE  S # {} /\ \A z : z \in S <=> Needed(c, d, from, z)
      BY <3>1
    <3>2. ASSUME NEW x, NEW y, tasks = <<x, y>>, \A z : Needed(c, d, from, z) <=> z \in {x, y}
          PROVE  S # {} /\ \A z : z \in S <=> Needed(c, d, from, z)
      <4>1. S = {x, y}
        BY <3>2
      <4> QED BY <3>2, <4>1
    <3> QED BY <1>1, <1>5, <3>1, <3>2
  <2>3. S \subseteq Task
    BY <1>1, <2>2
  <2>4. waits' = [waits EXCEPT ![c] = {<<c, x.mem>> : x \in S}]
    <3>1. {<<c, tasks[i].mem>> : i \in DOMAIN tasks} = {<<c, x.mem>> : x \in S}
      OBVIOUS
    <3> QED BY <1>3, <3>1
  <2> HIDE DEF S
  <2>5. Later(c, d, from, S)
    BY <1>3, <1>5, <2>1, <2>2, <2>3, <2>4 DEF Later, Tasks
  <2> QED BY <2>1, <2>5
<1> QED BY <1>4, <1>5

-----------------------------------------------------------------------------
(* What each action does to the tasks *)

(* A transfer takes a memory object of its command from where the         *)
(* scheduler chose, to the device of the command or to the temporary buffer. *)
LEMMA NeededFacts ==
  ASSUME NEW c, op[c] \in Ops, NEW d, NEW from, NEW x, Needed(c, d, from, x),
         \A m \in Located(op[c]) \cup Fetched(op[c]) : from[m] \in Devices
  PROVE  /\ x.cmd = c /\ x.what \in {"copy", "read"} /\ x.mem \in Touched(op[c])
         /\ x.from = from[x.mem] /\ x.from \in Devices
         /\ x.what = "read" => x.on = x.from
         /\ x.what = "copy" => x.on = d /\ x.to = d
         /\ \/ x.to = d /\ x.mem \in Located(op[c]) /\ x.from # d
            \/ x.to = None /\ op[c].kind = "copy" /\ x.mem = op[c].src
<1>1. CASE \E m \in Located(op[c]) : from[m] # d /\ x = CloneTask(c, m, from[m], d)
  <2>1. PICK m \in Located(op[c]) : from[m] # d /\ x = CloneTask(c, m, from[m], d)
    BY <1>1
  <2>2. m \in Touched(op[c]) /\ from[m] \in Devices
    BY OpFacts
  <2> QED BY <2>1, <2>2 DEF CloneTask
<1>2. CASE /\ op[c].kind = "copy" /\ ~UseCopy(from[op[c].src], d)
           /\ x = ReadTask(c, op[c].src, from[op[c].src])
  <2>1. op[c].src \in Touched(op[c]) /\ from[op[c].src] \in Devices
    BY <1>2, OpFacts
  <2> QED BY <1>2, <2>1 DEF ReadTask
<1> QED BY <1>1, <1>2 DEF Needed

(* The rest of what resolving a command changes. *)
ResolveTo(q, c, d, from) ==
  /\ Chosen(q, c, d, from) /\ Good(ready')
  /\ resolved' = [resolved EXCEPT ![c] = TRUE]
  /\ source' = [source EXCEPT ![c] =
       IF op[c].kind = "copy" /\ UseCopy(from[op[c].src], d) THEN from[op[c].src] ELSE None]
  /\ target' = [target EXCEPT ![c] = d]
  /\ UNCHANGED <<op, queueOf, device, last, done, copy, temp, value, crashed>>

(* ResolveConsistency() ends the process, submits the command or submits   *)
(* its transfers. *)
LEMMA ResolveFacts ==
  ASSUME Control, NEW q \in Queues, Resolve(q)
  PROVE  \/ /\ crashed' = TRUE
            /\ UNCHANGED <<commandVars, resolveVars, device, last, pending, ready, done, latest,
                           dataVars>>
         \/ \E c, d, from : /\ ResolveTo(q, c, d, from)
                            /\ (\E e : AtOnce(q, c, d, from, e)) \/ (\E S : Later(c, d, from, S))
<1> DEFINE c == Head(pending[q])
           d == device[q]
<1>1. /\ pending[q] # <<>> /\ waits[c] \subseteq done /\ ~resolved[c]
      /\ UNCHANGED <<commandVars, device, last, done, dataVars>>
  BY DEF Resolve, Executable
<1>2. c \in Commands /\ op[c] \in Ops /\ c \notin done /\ d \in Devices
  BY <1>1, HeadFacts DEF Control, TypeOK
<1>3. \A t \in Tasks : t.cmd # c
  BY <1>1 DEF Control, Begun
<1>4. PICK from \in Choices(op[c], d) :
        IF \E m \in Located(op[c]) \cup Fetched(op[c]) : from[m] = Host
          THEN /\ crashed' = TRUE
               /\ UNCHANGED <<resolveVars, pending, ready, latest>>
          ELSE Bring(q, c, d, from) /\ UNCHANGED crashed
  BY DEF Resolve
<1>5. CASE \E m \in Located(op[c]) \cup Fetched(op[c]) : from[m] = Host
  BY <1>1, <1>4, <1>5
<1>6. CASE ~\E m \in Located(op[c]) \cup Fetched(op[c]) : from[m] = Host
  <2>1. \A m \in Located(op[c]) \cup Fetched(op[c]) : from[m] \in Devices
    BY <1>2, <1>6, OpFacts DEF Choices
  <2>2. Chosen(q, c, d, from)
    BY <1>1, <1>2, <1>3, <1>4, <2>1 DEF Chosen
  <2>3. Bring(q, c, d, from) /\ UNCHANGED crashed
    BY <1>4, <1>6
  <2>4. (\E e : AtOnce(q, c, d, from, e)) \/ (\E S : Later(c, d, from, S))
    BY <2>2, <2>3, BringFacts
  <2>5. Good(ready')
    BY <2>2, <2>3, BringFacts
  <2>6. /\ resolved' = [resolved EXCEPT ![c] = TRUE]
        /\ source' = [source EXCEPT ![c] =
             IF op[c].kind = "copy" /\ UseCopy(from[op[c].src], d) THEN from[op[c].src] ELSE None]
        /\ target' = [target EXCEPT ![c] = d]
    BY <2>3 DEF Bring
  <2>7. ResolveTo(q, c, d, from)
    BY <1>1, <2>2, <2>3, <2>5, <2>6 DEF ResolveTo, commandVars, dataVars
  <2> QED BY <2>4, <2>7
<1> QED BY <1>5, <1>6

(* A resolved command is submitted when its transfers are complete. *)
SubmitTo(q, c, d) ==
  /\ pending[q] # <<>> /\ c = Head(pending[q]) /\ c \in Commands /\ op[c] \in Ops
  /\ resolved[c] /\ c \notin done /\ d = device[q] /\ d \in Devices
  /\ \A t \in Tasks : t.cmd # c
  /\ Good(ready') /\ Tasks' = Tasks \cup {ExecTask(c, d)}
  /\ latest' = Access(op[c], d, latest)
  /\ pending' = [pending EXCEPT ![q] = Tail(@)]
  /\ UNCHANGED <<commandVars, resolveVars, device, last, done, dataVars, crashed>>

(* When the command is submitted no transfer of it is left. *)
LEMMA SubmitFacts ==
  ASSUME Control, NEW q \in Queues, Submit(q)
  PROVE  SubmitTo(q, Head(pending[q]), device[q])
<1> DEFINE c == Head(pending[q])
           d == device[q]
<1>1. /\ pending[q] # <<>> /\ waits[c] \subseteq done /\ resolved[c]
      /\ latest' = Access(op[c], d, latest)
      /\ ready' = Submitted(<<ExecTask(c, d)>>)
      /\ pending' = [pending EXCEPT ![q] = Tail(@)]
      /\ UNCHANGED <<commandVars, resolveVars, device, last, done, dataVars, crashed>>
  BY DEF Submit, Executable
<1>2. c \in Commands /\ op[c] \in Ops /\ c \notin done /\ d \in Devices
      /\ c = pending[q][1] /\ 1 \in DOMAIN pending[q]
  BY <1>1, HeadFacts DEF Control, TypeOK
<1>3. ASSUME NEW t \in Tasks
      PROVE  t.cmd # c
  <2>1. CASE t.what = "exec"
    BY <1>2, <2>1 DEF Control, Executing
  <2>2. CASE t.what # "exec"
    BY <1>1, <2>2 DEF Control, Moving
  <2> QED BY <2>1, <2>2
<1>4. ExecTask(c, d) \in Task /\ ExecTask(c, d).cmd = c
  BY <1>2 DEF ExecTask, Task
<1>5. Good(ready') /\ TasksOf(ready') = Tasks \cup {ExecTask(c, d)}
  BY <1>1, <1>3, <1>4, SubmitOne DEF Control, SameKey
<1> QED BY <1>1, <1>2, <1>3, <1>5 DEF SubmitTo, Tasks

(* The head of a ready queue. *)
Taken(d, t) ==
  /\ ready[d] # <<>> /\ t = Head(ready[d]) /\ t \in Task /\ t \in Tasks /\ t.on = d
  /\ t.cmd \in Commands /\ op[t.cmd] \in Ops /\ resolved[t.cmd] /\ t.cmd \notin done
  /\ \A u \in Tasks : SameKey(u, t) => u = t

(* The head of a ready queue belongs to a command in progress, and no      *)
(* other task has its key. *)
LEMMA TakenFacts ==
  ASSUME Control, NEW d \in Devices, ready[d] # <<>>
  PROVE  /\ Taken(d, Head(ready[d]))
         /\ ready' = [ready EXCEPT ![d] = Tail(@)] =>
              Good(ready') /\ Tasks' = Tasks \ {Head(ready[d])}
<1> DEFINE t == Head(ready[d])
           s == [ready EXCEPT ![d] = Tail(@)]
<1>1. /\ Good(s) /\ t \in Task /\ t.on = d /\ t \in TasksOf(ready)
      /\ TasksOf(s) = TasksOf(ready) \ {t}
      /\ \A u \in TasksOf(ready) : SameKey(u, t) => u = t
  BY TakeTask DEF Control
<1>2. t.cmd \in Commands
  BY <1>1 DEF Task
<1>3. resolved[t.cmd] /\ t.cmd \notin done /\ op[t.cmd] \in Ops
  BY <1>1, <1>2 DEF Control, Begun, TypeOK, Tasks
<1>4. Taken(d, t)
  BY <1>1, <1>2, <1>3 DEF Taken, Tasks
<1> QED BY <1>1, <1>4 DEF Tasks

-----------------------------------------------------------------------------
(* Every step keeps Control *)

(* The head of a ring is taken out. *)
LEMMA PopRing ==
  ASSUME TypeOK, InRings, NEW q \in Queues, pending[q] # <<>>,
         pending' = [pending EXCEPT ![q] = Tail(@)], UNCHANGED <<op, done>>,
         \A b \in Commands : b # Head(pending[q]) => resolved'[b] = resolved[b]
  PROVE  /\ pending' \in [Queues -> Seq(Commands)]
         /\ InRings'
         /\ \A r \in Queues : \A i \in DOMAIN pending'[r] :
              /\ pending'[r][i] # Head(pending[q])
              /\ \E k \in DOMAIN pending[r] : pending'[r][i] = pending[r][k]
<1> DEFINE n == Len(pending[q])
           h == Head(pending[q])
           next == pending'
<1>1. /\ pending \in [Queues -> Seq(Commands)] /\ pending[q] \in Seq(Commands)
      /\ h = pending[q][1] /\ 1 \in DOMAIN pending[q] /\ h \in Commands
  BY HeadFacts DEF TypeOK
<1>2. n \in Nat /\ n # 0 /\ DOMAIN pending[q] = 1 .. n
  BY <1>1
<1>3. next[q] = Tail(pending[q]) /\ \A r \in Queues : r # q => next[r] = pending[r]
  BY <1>1
<1>4. /\ next[q] \in Seq(Commands) /\ DOMAIN next[q] = 1 .. n - 1
      /\ \A i \in 1 .. n - 1 : next[q][i] = pending[q][i + 1]
  <2>1. /\ Tail(pending[q]) \in Seq(Commands) /\ Len(Tail(pending[q])) = n - 1
        /\ \A i \in 1 .. Len(Tail(pending[q])) : Tail(pending[q])[i] = pending[q][i + 1]
    BY <1>1, HeadTailProperties
  <2>2. DOMAIN Tail(pending[q]) = 1 .. Len(Tail(pending[q]))
    BY <2>1, LenProperties
  <2> QED BY <1>3, <2>1, <2>2
<1>5. next \in [Queues -> Seq(Commands)]
  <2>1. next = [pending EXCEPT ![q] = next[q]]
    BY <1>1
  <2> HIDE DEF next
  <2> QED BY <1>1, <1>4, <2>1
<1> HIDE DEF n, h, next
<1>6. ASSUME NEW r \in Queues, NEW i \in DOMAIN next[r]
      PROVE  \E k \in DOMAIN pending[r] : /\ next[r][i] = pending[r][k]
                                          /\ r = q => k = i + 1 /\ k # 1 /\ i \in Nat
                                          /\ r # q => k = i
  <2>1. CASE r = q
    <3>1. i \in 1 .. n - 1 /\ i + 1 \in 1 .. n /\ i + 1 # 1
      BY <1>2, <1>4, <1>6, <2>1
    <3> QED BY <1>2, <1>4, <2>1, <3>1
  <2>2. CASE r # q
    BY <1>3, <1>6, <2>2
  <2> QED BY <2>1, <2>2
<1>7. ASSUME NEW r \in Queues, NEW i \in DOMAIN next[r]
      PROVE  /\ next[r][i] # h
             /\ op[next[r][i]] # None /\ next[r][i] \notin done /\ next[r][i] \in Commands
             /\ i # 1 => ~resolved[next[r][i]]
             /\ \E k \in DOMAIN pending[r] : next[r][i] = pending[r][k]
  <2>1. PICK k \in DOMAIN pending[r] : /\ next[r][i] = pending[r][k]
                                       /\ r = q => k = i + 1 /\ k # 1 /\ i \in Nat
                                       /\ r # q => k = i
    BY <1>6
  <2>2. next[r][i] # h
    BY <1>1, <2>1 DEF InRings
  <2>3. next[r][i] \in Commands
    BY <1>1, <2>1
  <2>4. i # 1 => k # 1
    BY <2>1
  <2> QED BY <2>1, <2>2, <2>3, <2>4 DEF InRings
<1>8. ASSUME NEW r \in Queues, NEW s \in Queues, NEW i \in DOMAIN next[r], NEW j \in DOMAIN next[s],
             next[r][i] = next[s][j]
      PROVE  r = s /\ i = j
  <2>1. PICK k \in DOMAIN pending[r] : /\ next[r][i] = pending[r][k]
                                       /\ r = q => k = i + 1 /\ k # 1 /\ i \in Nat
                                       /\ r # q => k = i
    BY <1>6
  <2>2. PICK l \in DOMAIN pending[s] : /\ next[s][j] = pending[s][l]
                                       /\ s = q => l = j + 1 /\ l # 1 /\ j \in Nat
                                       /\ s # q => l = j
    BY <1>6
  <2>3. r = s /\ k = l
    <3>1. pending[r][k] = pending[s][l]
      BY <1>8, <2>1, <2>2
    <3> QED BY <3>1 DEF InRings
  <2> QED BY <2>1, <2>2, <2>3
<1>9. InRings'
  <2>1. ASSUME NEW r \in Queues, NEW i \in DOMAIN next[r]
        PROVE  /\ op'[next[r][i]] # None /\ next[r][i] \notin done'
               /\ i # 1 => ~resolved'[next[r][i]]
    BY <1>7 DEF h
  <2> QED BY <1>8, <2>1 DEF InRings, next
<1> QED BY <1>5, <1>7, <1>9 DEF next, h

(* A key of a transfer is no command. *)
LEMMA KeyNotCommand ==
  ASSUME NEW c \in Commands, NEW m \in Mems
  PROVE  <<c, m>> \notin Commands
<1>1. <<c, m>> \in Commands \X Mems
  OBVIOUS
<1> QED BY <1>1, MemAssumption

(* clEnqueue...(): the application adds a command. *)
LEMMA EnqueueControl ==
  ASSUME Control, NEW q \in Queues, NEW c \in Commands, NEW o \in Ops, Enqueue(q, c, o)
  PROVE  /\ Control'
         /\ \A b \in Commands : b # c => op'[b] = op[b]
         /\ ~resolved[c] /\ \A t \in Tasks : t.cmd # c
         /\ \A r \in Queues : pending[r] # <<>> =>
              Head(pending'[r]) = Head(pending[r]) /\ pending'[r] # <<>>
         /\ \A r \in Queues : pending[r] = <<>> /\ pending'[r] # <<>> => Head(pending'[r]) = c
<1>1. /\ op[c] = None /\ op' = [op EXCEPT ![c] = o]
      /\ queueOf' = [queueOf EXCEPT ![c] = q]
      /\ waits' = [waits EXCEPT ![c] = ({last[q]} \ {None}) \cup
                     {b \in Commands : op[b] # None /\ Conflict(op[b], o)}]
      /\ last' = [last EXCEPT ![q] = c]
      /\ pending' = [pending EXCEPT ![q] = Append(@, c)]
      /\ UNCHANGED <<resolved, source, target, device, ready, done, latest, dataVars, crashed>>
  BY DEF Enqueue
<1>t. TypeOK /\ Good(ready) /\ InRings /\ Begun /\ OneAtATime /\ Moving /\ Executing
  BY DEF Control
<1>2. /\ op \in [Commands -> Ops \cup {None}] /\ pending \in [Queues -> Seq(Commands)]
      /\ waits \in [Commands -> SUBSET (Commands \cup Transferred)]
      /\ last \in [Queues -> Commands \cup {None}] /\ o # None /\ None \notin Commands
      /\ Tasks \subseteq Task
  BY <1>t, MemAssumption DEF TypeOK, Good, Tasks, TasksOf
<1>3. /\ ~resolved[c] /\ c \notin done /\ \A m \in Mems : <<c, m>> \notin done
      /\ \A t \in Tasks : t.cmd # c
      /\ \A r \in Queues : \A i \in DOMAIN pending[r] : pending[r][i] # c
  BY <1>t, <1>1 DEF Begun, InRings
<1>4. \A b \in Commands : b # c => op'[b] = op[b] /\ waits'[b] = waits[b]
  BY <1>1, <1>2
<1>5. op'[c] = o /\ waits'[c] = ({last[q]} \ {None}) \cup
        {b \in Commands : op[b] # None /\ Conflict(op[b], o)}
  BY <1>1, <1>2
<1>6. Tasks' = Tasks
  BY <1>1 DEF Tasks
<1> DEFINE n == Len(pending[q])
           next == pending'
<1>7. n \in Nat /\ DOMAIN pending[q] = 1 .. n /\ pending[q] \in Seq(Commands)
  BY <1>2
<1>8. /\ next[q] \in Seq(Commands) /\ DOMAIN next[q] = 1 .. n + 1 /\ next[q][n + 1] = c
      /\ \A i \in 1 .. n : next[q][i] = pending[q][i]
  <2>1. next[q] = Append(pending[q], c)
    BY <1>1, <1>2
  <2> QED BY <1>7, <2>1
<1>9. next \in [Queues -> Seq(Commands)] /\ \A r \in Queues : r # q => next[r] = pending[r]
  BY <1>1, <1>2, <1>8
<1>10. \A r \in Queues : /\ pending[r] # <<>> => Head(next[r]) = Head(pending[r]) /\ next[r] # <<>>
                         /\ pending[r] = <<>> /\ next[r] # <<>> => Head(next[r]) = c
  <2>1. next[q] # <<>> /\ (pending[q] # <<>> => Head(next[q]) = Head(pending[q]))
    <3>1. next[q] # <<>> /\ Head(next[q]) = next[q][1]
      BY <1>7, <1>8
    <3>2. pending[q] # <<>> => 1 \in 1 .. n /\ Head(pending[q]) = pending[q][1]
      BY <1>7
    <3> QED BY <1>8, <3>1, <3>2
  <2>2. pending[q] = <<>> => Head(next[q]) = c
    <3>1. next[q] = Append(pending[q], c)
      BY <1>1, <1>2
    <3> QED BY <1>7, <3>1
  <2> QED BY <1>9, <2>1, <2>2
<1> HIDE DEF n, next
<1>11. ASSUME NEW r \in Queues, NEW i \in DOMAIN next[r]
       PROVE  \/ i \in DOMAIN pending[r] /\ next[r][i] = pending[r][i] /\ next[r][i] # c
              \/ r = q /\ i = n + 1 /\ next[r][i] = c
  <2>1. CASE r # q
    BY <1>3, <1>9, <1>11, <2>1
  <2>2. CASE r = q
    <3>1. i \in 1 .. n \/ i = n + 1
      BY <1>7, <1>8, <1>11, <2>2
    <3> QED BY <1>3, <1>7, <1>8, <2>2, <3>1
  <2> QED BY <2>1, <2>2
<1>12. TypeOK'
  <2>1. waits'[c] \subseteq Commands \cup Transferred
    BY <1>2, <1>5
  <2>2. waits' \in [Commands -> SUBSET (Commands \cup Transferred)]
    BY <1>1, <1>2, <2>1
  <2>3. /\ op' \in [Commands -> Ops \cup {None}] /\ queueOf' \in [Commands -> Queues \cup {None}]
        /\ last' \in [Queues -> Commands \cup {None}]
    BY <1>t, <1>1 DEF TypeOK
  <2>4. pending' \in [Queues -> Seq(Commands)]
    BY <1>9 DEF next
  <2> QED BY <1>t, <1>1, <2>2, <2>3, <2>4 DEF TypeOK, dataVars
<1>13. Good(ready')
  BY <1>t, <1>1
<1>14. InRings'
  <2>1. ASSUME NEW r \in Queues, NEW i \in DOMAIN next[r]
        PROVE  /\ op'[next[r][i]] # None /\ next[r][i] \notin done
               /\ i # 1 => ~resolved[next[r][i]]
    <3>1. CASE i \in DOMAIN pending[r] /\ next[r][i] = pending[r][i] /\ next[r][i] # c
      <4>1. pending[r][i] \in Commands
        BY <1>2, <3>1
      <4> QED BY <1>t, <1>4, <3>1, <4>1 DEF InRings
    <3>2. CASE r = q /\ i = n + 1 /\ next[r][i] = c
      BY <1>2, <1>3, <1>5, <3>2
    <3> QED BY <1>11, <3>1, <3>2
  <2>2. ASSUME NEW r \in Queues, NEW s \in Queues,
               NEW i \in DOMAIN next[r], NEW j \in DOMAIN next[s], next[r][i] = next[s][j]
        PROVE  r = s /\ i = j
    <3>1. \/ i \in DOMAIN pending[r] /\ next[r][i] = pending[r][i] /\ next[r][i] # c
          \/ r = q /\ i = n + 1 /\ next[r][i] = c
      BY <1>11
    <3>2. \/ j \in DOMAIN pending[s] /\ next[s][j] = pending[s][j] /\ next[s][j] # c
          \/ s = q /\ j = n + 1 /\ next[s][j] = c
      BY <1>11
    <3> QED BY <1>t, <2>2, <3>1, <3>2 DEF InRings
  <2> QED BY <1>1, <2>1, <2>2 DEF InRings, next
<1>15. Begun'
  <2>1. \A b \in Commands : op[b] # None => op'[b] # None
    BY <1>1, <1>4
  <2> QED BY <1>t, <1>1, <1>6, <2>1 DEF Begun
<1>16. OneAtATime'
  <2>1. ASSUME NEW a \in Commands, NEW b \in Commands, a # b, op'[a] # None, op'[b] # None,
               Conflict(op'[a], op'[b])
        PROVE  \/ a \in waits'[b] /\ ~resolved[b]
               \/ b \in waits'[a] /\ ~resolved[a]
               \/ a \in done \/ b \in done
    <3>1. CASE a # c /\ b # c
      BY <1>t, <1>4, <2>1, <3>1 DEF OneAtATime
    <3>2. CASE b = c
      BY <1>3, <1>4, <1>5, <2>1, <3>2
    <3>3. CASE a = c
      <4>1. Conflict(op'[b], op'[a])
        BY <2>1 DEF Conflict
      <4> QED BY <1>3, <1>4, <1>5, <2>1, <3>3, <4>1
    <3> QED BY <3>1, <3>2, <3>3
  <2> QED BY <1>1, <2>1 DEF OneAtATime
<1>17. Moving'
  <2>1. \A t \in Tasks : op'[t.cmd] = op[t.cmd] /\ waits'[t.cmd] = waits[t.cmd]
    BY <1>2, <1>3, <1>4 DEF Task
  <2> QED BY <1>t, <1>1, <1>6, <2>1 DEF Moving
<1>18. Executing'
  <2>1. \A t \in Tasks : t.what = "exec" =>
          \A r \in Queues : \A i \in DOMAIN next[r] : next[r][i] # t.cmd
    BY <1>t, <1>3, <1>11 DEF Executing
  <2> QED BY <1>t, <1>6, <2>1 DEF Executing, next
<1>19. Control'
  BY <1>12, <1>13, <1>14, <1>15, <1>16, <1>17, <1>18 DEF Control
<1> QED BY <1>3, <1>4, <1>10, <1>19 DEF next

(* ResolveConsistency(): everything the command conflicts with is complete *)
(* or has not been resolved. *)
LEMMA ResolveControl ==
  ASSUME Control, NEW q \in Queues, NEW c, NEW d, NEW from, ResolveTo(q, c, d, from),
         (\E e : AtOnce(q, c, d, from, e)) \/ (\E S : Later(c, d, from, S))
  PROVE  Control'
<1>t. TypeOK /\ Good(ready) /\ InRings /\ Begun /\ OneAtATime /\ Moving /\ Executing
  BY DEF Control
<1>c. /\ c = Head(pending[q]) /\ c \in Commands /\ op[c] \in Ops
      /\ ~resolved[c] /\ c \notin done /\ waits[c] \subseteq done
      /\ pending[q] # <<>> /\ d \in Devices
      /\ \A m \in Located(op[c]) \cup Fetched(op[c]) : from[m] \in Devices
      /\ \A t \in Tasks : t.cmd # c
  BY DEF ResolveTo, Chosen
<1>1. /\ Good(ready')
      /\ resolved' = [resolved EXCEPT ![c] = TRUE]
      /\ source' = [source EXCEPT ![c] =
           IF op[c].kind = "copy" /\ UseCopy(from[op[c].src], d) THEN from[op[c].src] ELSE None]
      /\ target' = [target EXCEPT ![c] = d]
      /\ UNCHANGED <<op, queueOf, device, last, done, copy, temp, value, crashed>>
  BY DEF ResolveTo
<1>2. /\ resolved \in [Commands -> BOOLEAN] /\ waits \in [Commands -> SUBSET (Commands \cup Transferred)]
      /\ source \in [Commands -> Devices \cup {None}] /\ target \in [Commands -> Devices \cup {None}]
      /\ latest \in [Mems -> SUBSET (Devices \cup {Host})] /\ pending \in [Queues -> Seq(Commands)]
      /\ Tasks \subseteq Task /\ None \notin Mems /\ op[c] # None
  BY <1>t, <1>c, MemAssumption DEF TypeOK, Good, Tasks, TasksOf
<1>3. \A b \in Commands : b # c => /\ resolved'[b] = resolved[b] /\ target'[b] = target[b]
                                   /\ source'[b] = source[b]
  BY <1>1, <1>2
<1>4. resolved'[c] = TRUE /\ target'[c] = d
  BY <1>c, <1>1, <1>2
<1>5. source' \in [Commands -> Devices \cup {None}] /\ target' \in [Commands -> Devices \cup {None}]
      /\ resolved' \in [Commands -> BOOLEAN]
  <2>1. op[c].kind = "copy" => from[op[c].src] \in Devices
    BY <1>c, OpFacts
  <2> QED BY <1>c, <1>1, <1>2, <2>1
(* What does not depend on whether it is submitted at once. *)
<1>6. ASSUME waits' \in [Commands -> SUBSET (Commands \cup Transferred)],
             \A b \in Commands : b # c => waits'[b] = waits[b],
             latest' \in [Mems -> SUBSET (Devices \cup {Host})],
             pending' \in [Queues -> Seq(Commands)], InRings',
             \A t \in Tasks' : t \in Tasks \/ t.cmd = c,
             Moving', Executing'
      PROVE  Control'
  <2>1. TypeOK'
    <3>1. \A e \in Devices : \A i \in DOMAIN ready'[e] :
            ready'[e][i].on = e /\ ready'[e][i].cmd \in Commands
      <4>1. ready' \in [Devices -> Seq(Task)]
        BY <1>1 DEF Good
      <4>2. \A e \in Devices : \A i \in DOMAIN ready'[e] : ready'[e][i] \in Task
        BY <4>1
      <4> QED BY <1>1, <4>2 DEF Good, Task
    <3> QED BY <1>t, <1>1, <1>5, <1>6, <3>1 DEF TypeOK
  <2>2. Begun'
    <3>1. \A b \in Commands : resolved[b] => resolved'[b]
      BY <1>3, <1>4
    <3>2. \A t \in Tasks : t.cmd \in Commands
      BY <1>2 DEF Task
    <3>3. \A b \in Commands : resolved'[b] => op[b] # None
      BY <1>t, <1>2, <1>3 DEF Begun
    <3> QED BY <1>t, <1>c, <1>1, <1>4, <1>6, <3>1, <3>2, <3>3 DEF Begun
  <2>3. OneAtATime'
    <3>1. ASSUME NEW a \in Commands, NEW b \in Commands, a # b, op[a] # None, op[b] # None,
                 Conflict(op[a], op[b])
          PROVE  \/ a \in waits'[b] /\ ~resolved'[b]
                 \/ b \in waits'[a] /\ ~resolved'[a]
                 \/ a \in done \/ b \in done
      <4>1. \/ a \in waits[b] /\ ~resolved[b]
            \/ b \in waits[a] /\ ~resolved[a]
            \/ a \in done \/ b \in done
        BY <1>t, <3>1 DEF OneAtATime
      <4> QED BY <1>c, <1>3, <1>6, <3>1, <4>1
    <3> QED BY <1>1, <3>1 DEF OneAtATime
  <2> QED BY <1>1, <1>6, <2>1, <2>2, <2>3 DEF Control
<1>7. ASSUME NEW e, AtOnce(q, c, d, from, e)
      PROVE  Control'
  <2>1. /\ e \in Devices /\ waits' = [waits EXCEPT ![c] = {}]
        /\ latest' = Access(op[c], e, latest)
        /\ Tasks' = Tasks \cup {ExecTask(c, e)}
        /\ pending' = [pending EXCEPT ![q] = Tail(@)]
    BY <1>7 DEF AtOnce
  <2>2. /\ pending' \in [Queues -> Seq(Commands)] /\ InRings'
        /\ \A r \in Queues : \A i \in DOMAIN pending'[r] :
             /\ pending'[r][i] # c
             /\ \E k \in DOMAIN pending[r] : pending'[r][i] = pending[r][k]
    <3>1. /\ pending[q] # <<>> /\ UNCHANGED <<op, done>> /\ c = Head(pending[q])
          /\ \A b \in Commands : b # Head(pending[q]) => resolved'[b] = resolved[b]
      BY <1>c, <1>1, <1>3
    <3>2. pending' = [pending EXCEPT ![q] = Tail(@)]
      BY <2>1
    <3>3. TypeOK /\ InRings
      BY <1>t
    <3>4. /\ pending' \in [Queues -> Seq(Commands)] /\ InRings'
          /\ \A r \in Queues : \A i \in DOMAIN pending'[r] :
               /\ pending'[r][i] # Head(pending[q])
               /\ \E k \in DOMAIN pending[r] : pending'[r][i] = pending[r][k]
      BY <3>1, <3>2, <3>3, PopRing
    <3> QED BY <3>1, <3>4
  <2>3. /\ waits' \in [Commands -> SUBSET (Commands \cup Transferred)]
        /\ \A b \in Commands : b # c => waits'[b] = waits[b]
    BY <1>2, <2>1
  <2>4. latest' \in [Mems -> SUBSET (Devices \cup {Host})]
    BY <1>2, <2>1 DEF Access
  <2>5. /\ ExecTask(c, e).what = "exec" /\ ExecTask(c, e).mem = None /\ ExecTask(c, e).cmd = c
        /\ ExecTask(c, e).on = e
    BY DEF ExecTask
  <2>6. Moving'
    <3>1. \A t \in Tasks : t.cmd \in Commands /\ waits'[t.cmd] = waits[t.cmd]
                           /\ target'[t.cmd] = target[t.cmd]
      BY <1>c, <1>2, <1>3, <2>3 DEF Task
    <3> QED BY <1>t, <1>1, <2>1, <2>5, <3>1 DEF Moving
  <2>7. Executing'
    <3>1. ASSUME NEW t \in Tasks', t.what = "exec"
          PROVE  /\ t.mem = None
                 /\ \A u \in Tasks' : u.cmd = t.cmd => u = t
                 /\ \A r \in Queues : \A i \in DOMAIN pending'[r] : pending'[r][i] # t.cmd
      <4>1. CASE t \in Tasks
        BY <1>t, <1>c, <2>1, <2>2, <2>5, <3>1, <4>1 DEF Executing
      <4>2. CASE t = ExecTask(c, e)
        BY <1>c, <2>1, <2>2, <2>5, <4>2
      <4> QED BY <2>1, <4>1, <4>2
    <3> QED BY <3>1 DEF Executing
  <2> QED BY <1>6, <2>1, <2>2, <2>3, <2>4, <2>5, <2>6, <2>7
<1>8. ASSUME NEW S, Later(c, d, from, S)
      PROVE  Control'
  <2>1. /\ S \subseteq Task /\ \A x : x \in S <=> Needed(c, d, from, x)
        /\ waits' = [waits EXCEPT ![c] = {<<c, x.mem>> : x \in S}]
        /\ latest' = [m \in Mems |-> IF m \in Located(op[c]) /\ from[m] # d THEN latest[m] \cup {d}
                                                                        ELSE latest[m]]
        /\ Tasks' = Tasks \cup S
        /\ UNCHANGED pending
    BY <1>8 DEF Later
  <2>2. \A x \in S : /\ x.cmd = c /\ x.what \in {"copy", "read"}
                     /\ x.mem \in Touched(op[c]) /\ x.mem \in Mems
                     /\ x.from \in Devices /\ x.to \in {None, d}
                     /\ x.what = "read" => x.on = x.from
                     /\ x.what = "copy" => x.on = d /\ x.to = d
    BY <1>c, <2>1, NeededFacts, OpFacts
  <2>3. /\ waits' \in [Commands -> SUBSET (Commands \cup Transferred)]
        /\ \A b \in Commands : b # c => waits'[b] = waits[b]
        /\ waits'[c] = {<<c, x.mem>> : x \in S}
    <3>1. {<<c, x.mem>> : x \in S} \subseteq Transferred
      BY <1>c, <2>2 DEF Transferred
    <3> QED BY <1>c, <1>2, <2>1, <3>1
  <2>4. latest' \in [Mems -> SUBSET (Devices \cup {Host})]
    BY <1>c, <1>2, <2>1
  <2>5. InRings'
    <3>1. ASSUME NEW r \in Queues, NEW i \in DOMAIN pending[r]
          PROVE  i # 1 => ~resolved'[pending[r][i]]
      <4>1. pending[r][i] \in Commands /\ c = pending[q][1] /\ 1 \in DOMAIN pending[q]
        BY <1>t, <1>c, <1>2, HeadFacts
      <4>2. i # 1 => pending[r][i] # c
        BY <1>t, <4>1 DEF InRings
      <4> QED BY <1>t, <1>3, <4>1, <4>2 DEF InRings
    <3> QED BY <1>t, <1>1, <2>1, <3>1 DEF InRings
  <2>6. Moving'
    <3>1. ASSUME NEW t \in Tasks', t.what # "exec"
          PROVE  /\ t.mem \in Touched(op[t.cmd])
                 /\ <<t.cmd, t.mem>> \in waits'[t.cmd] /\ <<t.cmd, t.mem>> \notin done
                 /\ t.to \in {None, target'[t.cmd]}
                 /\ t.what \in {"read", "copy"} => t.from \in Devices
                 /\ t.what = "read" => t.on = t.from
                 /\ t.what \in {"copy", "write"} => t.on = t.to
      <4>1. CASE t \in Tasks
        <5>1. t.cmd \in Commands /\ waits'[t.cmd] = waits[t.cmd] /\ target'[t.cmd] = target[t.cmd]
          BY <1>c, <1>2, <1>3, <2>3, <4>1 DEF Task
        <5> QED BY <1>t, <3>1, <4>1, <5>1 DEF Moving
      <4>2. CASE t \in S
        <5>1. <<t.cmd, t.mem>> \notin done
          BY <1>t, <1>c, <2>2, <4>2 DEF Begun
        <5>2. <<t.cmd, t.mem>> \in waits'[t.cmd]
          BY <2>2, <2>3, <4>2
        <5> QED BY <1>4, <2>2, <4>2, <5>1, <5>2
      <4> QED BY <2>1, <4>1, <4>2
    <3> QED BY <1>1, <3>1 DEF Moving
  <2>7. Executing'
    <3>1. \A t \in Tasks' : t.what = "exec" => t \in Tasks
      BY <2>1, <2>2
    <3>2. \A t \in Tasks : \A u \in S : u.cmd # t.cmd
      BY <1>c, <2>2
    <3> QED BY <1>t, <2>1, <3>1, <3>2 DEF Executing
  <2>8. pending' \in [Queues -> Seq(Commands)]
    BY <1>2, <2>1
  <2> QED BY <1>6, <2>1, <2>2, <2>3, <2>4, <2>5, <2>6, <2>7, <2>8
<1> QED BY <1>7, <1>8

(* The pass after the transfers. *)
LEMMA SubmitControl ==
  ASSUME Control, NEW q \in Queues, NEW c, NEW d, SubmitTo(q, c, d)
  PROVE  Control'
<1>t. TypeOK /\ Good(ready) /\ InRings /\ Begun /\ OneAtATime /\ Moving /\ Executing
  BY DEF Control
<1>1. /\ pending[q] # <<>> /\ c = Head(pending[q]) /\ c \in Commands /\ op[c] \in Ops
      /\ resolved[c] /\ c \notin done /\ d \in Devices
      /\ \A t \in Tasks : t.cmd # c
      /\ Good(ready') /\ Tasks' = Tasks \cup {ExecTask(c, d)}
      /\ latest' = Access(op[c], d, latest)
      /\ pending' = [pending EXCEPT ![q] = Tail(@)]
      /\ UNCHANGED <<op, queueOf, waits, resolved, source, target, device, last, done,
                     copy, temp, value, crashed>>
  BY DEF SubmitTo, commandVars, resolveVars, dataVars
<1>2. /\ pending' \in [Queues -> Seq(Commands)] /\ InRings'
      /\ \A r \in Queues : \A i \in DOMAIN pending'[r] :
           /\ pending'[r][i] # c
           /\ \E k \in DOMAIN pending[r] : pending'[r][i] = pending[r][k]
  BY <1>t, <1>1, PopRing
<1>3. /\ ExecTask(c, d).what = "exec" /\ ExecTask(c, d).mem = None /\ ExecTask(c, d).cmd = c
  BY DEF ExecTask
<1>4. TypeOK'
  <2>1. latest' \in [Mems -> SUBSET (Devices \cup {Host})]
    BY <1>t, <1>1 DEF TypeOK, Access
  <2>2. \A e \in Devices : \A i \in DOMAIN ready'[e] :
          ready'[e][i].on = e /\ ready'[e][i].cmd \in Commands
    <3>1. ready' \in [Devices -> Seq(Task)]
      BY <1>1 DEF Good
    <3>2. \A e \in Devices : \A i \in DOMAIN ready'[e] : ready'[e][i] \in Task
      BY <3>1
    <3> QED BY <1>1, <3>2 DEF Good, Task
  <2> QED BY <1>t, <1>1, <1>2, <2>1, <2>2 DEF TypeOK
<1>5. Begun' /\ OneAtATime' /\ Moving'
  BY <1>t, <1>1, <1>3 DEF Begun, OneAtATime, Moving
<1>6. Executing'
  <2>1. ASSUME NEW t \in Tasks', t.what = "exec"
        PROVE  /\ t.mem = None
               /\ \A u \in Tasks' : u.cmd = t.cmd => u = t
               /\ \A r \in Queues : \A i \in DOMAIN pending'[r] : pending'[r][i] # t.cmd
    <3>1. CASE t \in Tasks
      BY <1>t, <1>1, <1>2, <1>3, <2>1, <3>1 DEF Executing
    <3>2. CASE t = ExecTask(c, d)
      BY <1>1, <1>2, <1>3, <3>2
    <3> QED BY <1>1, <3>1, <3>2
  <2> QED BY <2>1 DEF Executing
<1> QED BY <1>1, <1>2, <1>4, <1>5, <1>6 DEF Control

(* Ready queues that are Good hold tasks of commands. *)
LEMMA TaskTyped ==
  ASSUME Good(ready)
  PROVE  Tasks \subseteq Task /\ \A u \in Tasks : u.cmd \in Commands
<1>1. Tasks \subseteq Task
  BY DEF Good, Tasks, TasksOf
<1> QED BY <1>1 DEF Task

(* The write that follows a read, on the other device. *)
WriteAfter(t) == [t EXCEPT !.what = "write", !.on = t.to]

(* A transfer takes its task out; a read between devices leaves its write. *)
LEMMA TransferTakes ==
  ASSUME Control, NEW d \in Devices, NEW t, t = Head(ready[d]), Transfer(d)
  PROVE  /\ Taken(d, t) /\ t.what \in {"copy", "read", "write"} /\ Good(ready')
         /\ t.mem \in Mems /\ t.mem \in Touched(op[t.cmd])
         /\ \A u \in Tasks : u.cmd = t.cmd => u.what # "exec"
         /\ \/ /\ t.what = "read" /\ t.to # None
               /\ Tasks' = (Tasks \ {t}) \cup {WriteAfter(t)} /\ UNCHANGED done
            \/ /\ ~(t.what = "read" /\ t.to # None)
               /\ Tasks' = Tasks \ {t} /\ done' = done \cup {<<t.cmd, t.mem>>}
<1>1. ready[d] # <<>> /\ t.what # "exec"
  BY DEF Transfer
<1>2. Taken(d, t)
  BY <1>1, TakenFacts
<1>3. t \in Task /\ t \in Tasks /\ t.what \in {"copy", "read", "write"} /\ op[t.cmd] \in Ops
  BY <1>1, <1>2 DEF Taken, Task
<1>4. t.mem \in Touched(op[t.cmd]) /\ t.mem \in Mems
  BY <1>1, <1>3, OpFacts DEF Control, Moving
<1>5. ASSUME NEW u \in Tasks, u.cmd = t.cmd
      PROVE  u.what # "exec"
  BY <1>1, <1>3, <1>5 DEF Control, Executing
<1>6. CASE t.what = "read" /\ t.to # None
  <2> DEFINE s == [ready EXCEPT ![d] = Tail(@)]
             w == WriteAfter(t)
  <2>1. /\ Good(s) /\ TasksOf(s) = Tasks \ {t}
    BY <1>1, <1>2, TakeTask DEF Control, Tasks
  <2>2. w \in Task /\ w.on = t.to /\ w.cmd = t.cmd /\ w.mem = t.mem
    BY <1>3, <1>6 DEF WriteAfter, Task
  <2>3. \A u \in TasksOf(s) : ~SameKey(u, w)
    BY <1>2, <2>1, <2>2 DEF Taken, SameKey
  <2>4. Good(Add(s, w)) /\ TasksOf(Add(s, w)) = TasksOf(s) \cup {w}
    <3> HIDE DEF s, w
    <3> QED BY <2>1, <2>2, <2>3, AddTask
  <2>5. ready' = Add(s, w) /\ UNCHANGED done
    BY <1>6 DEF Transfer, WriteAfter
  <2>6. Good(ready') /\ TasksOf(ready') = (Tasks \ {t}) \cup {w}
    BY <2>1, <2>4, <2>5
  <2> QED BY <1>2, <1>3, <1>4, <1>5, <1>6, <2>5, <2>6 DEF Tasks
<1>7. CASE ~(t.what = "read" /\ t.to # None)
  <2>1. ready' = [ready EXCEPT ![d] = Tail(@)] /\ done' = done \cup {<<t.cmd, t.mem>>}
    BY <1>7 DEF Transfer
  <2>2. Good(ready') /\ Tasks' = Tasks \ {t}
    BY <1>1, <2>1, TakenFacts
  <2> QED BY <1>2, <1>3, <1>4, <1>5, <1>7, <2>1, <2>2
<1> QED BY <1>6, <1>7

(* Ready queues that are Good satisfy what TypeOK says of them. *)
LEMMA ReadyTyped ==
  ASSUME Good(ready')
  PROVE  \A e \in Devices : \A i \in DOMAIN ready'[e] :
           ready'[e][i].on = e /\ ready'[e][i].cmd \in Commands
<1>1. ready' \in [Devices -> Seq(Task)]
  BY DEF Good
<1>2. \A e \in Devices : \A i \in DOMAIN ready'[e] : ready'[e][i] \in Task
  BY <1>1
<1> QED BY <1>2 DEF Good, Task

(* Executing a transfer, CloneMem() by copy, read or write, keeps Control. *)
LEMMA TransferControl ==
  ASSUME Control, NEW d \in Devices, Transfer(d)
  PROVE  Control'
<1> DEFINE t == Head(ready[d])
           k == <<t.cmd, t.mem>>
           all == t.what = "write" /\ OnEveryDevice(t.mem)
<1>t. TypeOK /\ Good(ready) /\ InRings /\ Begun /\ OneAtATime /\ Moving /\ Executing
  BY DEF Control
<1>1. /\ copy' = CASE t.what = "copy"  -> [copy EXCEPT ![t.mem][d] = copy[t.mem][t.from]]
                   [] t.what = "write" -> [copy EXCEPT ![t.mem] =
                        [e \in Devices \cup {Host} |->
                           IF e = d \/ (all /\ e # Host) THEN temp[k] ELSE @[e]]]
                   [] OTHER -> copy
      /\ latest' = IF all THEN [latest EXCEPT ![t.mem] = @ \cup Devices] ELSE latest
      /\ temp' = IF t.what = "read" THEN [temp EXCEPT ![k] = copy[t.mem][d]] ELSE temp
      /\ UNCHANGED <<op, queueOf, waits, resolved, source, target, device, last, pending,
                     value, crashed>>
  BY DEF Transfer, commandVars, resolveVars
<1>2. /\ Taken(d, t) /\ t.what \in {"copy", "read", "write"} /\ Good(ready')
      /\ t.mem \in Mems /\ t.mem \in Touched(op[t.cmd])
      /\ \A u \in Tasks : u.cmd = t.cmd => u.what # "exec"
      /\ \/ /\ t.what = "read" /\ t.to # None
            /\ Tasks' = (Tasks \ {t}) \cup {WriteAfter(t)} /\ UNCHANGED done
         \/ /\ ~(t.what = "read" /\ t.to # None)
            /\ Tasks' = Tasks \ {t} /\ done' = done \cup {k}
  BY TransferTakes
<1> HIDE DEF t
<1>3. /\ t \in Task /\ t \in Tasks /\ t.on = d /\ t.cmd \in Commands /\ op[t.cmd] \in Ops
      /\ resolved[t.cmd] /\ t.cmd \notin done
      /\ \A u \in Tasks : SameKey(u, t) => u = t
  BY <1>2 DEF Taken
<1>4. k \in Transferred /\ k \notin Commands
  BY <1>2, <1>3, KeyNotCommand DEF Transferred
<1>5. /\ t.what \in {"read", "copy"} => t.from \in Devices
      /\ t.to \in {None, target[t.cmd]} /\ k \in waits[t.cmd]
  BY <1>t, <1>2, <1>3 DEF Moving
<1>6. done \subseteq done' /\ \A b \in Commands : b \in done' <=> b \in done
  BY <1>2, <1>4
<1>7. WriteAfter(t) \in [what : {"write"}, on : {t.to}, cmd : {t.cmd}, mem : {t.mem},
                         from : {t.from}, to : {t.to}]
  BY <1>3 DEF WriteAfter, Task
<1>8. \A u \in Tasks' : \/ u \in Tasks /\ u # t
                        \/ t.what = "read" /\ t.to # None /\ done' = done /\ u = WriteAfter(t)
  BY <1>2
<1>9. TypeOK'
  <2>1. copy \in [Mems -> [Devices \cup {Host} -> Versions]] /\ temp \in [Transferred -> Versions]
        /\ latest \in [Mems -> SUBSET (Devices \cup {Host})]
        /\ done \subseteq Commands \cup Transferred
    BY <1>t DEF TypeOK
  <2>2. copy' \in [Mems -> [Devices \cup {Host} -> Versions]]
    <3>1. CASE t.what = "copy"
      <4>1. copy[t.mem][t.from] \in Versions
        BY <1>2, <1>5, <2>1, <3>1
      <4> QED BY <1>1, <1>2, <2>1, <3>1, <4>1
    <3>2. CASE t.what = "write"
      <4> DEFINE g == [e \in Devices \cup {Host} |->
                         IF e = d \/ (all /\ e # Host) THEN temp[k] ELSE copy[t.mem][e]]
      <4>1. temp[k] \in Versions
        BY <1>4, <2>1
      <4>2. g \in [Devices \cup {Host} -> Versions]
        BY <1>2, <2>1, <4>1
      <4>3. copy' = [copy EXCEPT ![t.mem] = g]
        BY <1>1, <1>2, <2>1, <3>2
      <4> HIDE DEF g
      <4> QED BY <2>1, <4>2, <4>3
    <3>3. CASE t.what = "read"
      BY <1>1, <2>1, <3>3
    <3> QED BY <1>2, <3>1, <3>2, <3>3
  <2>3. temp' \in [Transferred -> Versions]
    <3>1. copy[t.mem][d] \in Versions
      BY <1>2, <2>1
    <3> HIDE DEF k
    <3> QED BY <1>1, <1>4, <2>1, <3>1
  <2>4. latest' \in [Mems -> SUBSET (Devices \cup {Host})]
    <3>1. CASE all
      BY <1>1, <1>2, <2>1, <3>1
    <3>2. CASE ~all
      BY <1>1, <2>1, <3>2
    <3> QED BY <3>1, <3>2
  <2>5. done' \subseteq Commands \cup Transferred
    BY <1>2, <1>4, <2>1
  <2> QED BY <1>t, <1>1, <1>2, <2>2, <2>3, <2>4, <2>5, ReadyTyped DEF TypeOK
<1>10. InRings'
  <2>1. \A q \in Queues : \A i \in DOMAIN pending[q] : pending[q][i] \in Commands
    BY <1>t DEF TypeOK
  <2> QED BY <1>t, <1>1, <1>6, <2>1 DEF InRings
<1>11. Begun'
  <2>1. \A u \in Tasks' : u.cmd \in Commands /\ resolved[u.cmd] /\ u.cmd \notin done
    <3>1. \A u \in Tasks : u.cmd \in Commands
      BY <1>t, TaskTyped
    <3> QED BY <1>t, <1>3, <1>7, <1>8, <3>1 DEF Begun
  <2>2. \A c \in Commands, m \in Mems : <<c, m>> \in done' => resolved[c]
    BY <1>t, <1>2, <1>3 DEF Begun
  <2> QED BY <1>t, <1>1, <1>6, <2>1, <2>2 DEF Begun
<1>12. OneAtATime'
  BY <1>t, <1>1, <1>6 DEF OneAtATime
<1>13. Moving'
  <2>1. ASSUME NEW u \in Tasks', u.what # "exec"
        PROVE  /\ u.mem \in Touched(op[u.cmd])
               /\ <<u.cmd, u.mem>> \in waits[u.cmd] /\ <<u.cmd, u.mem>> \notin done'
               /\ u.to \in {None, target[u.cmd]}
               /\ u.what \in {"read", "copy"} => u.from \in Devices
               /\ u.what = "read" => u.on = u.from
               /\ u.what \in {"copy", "write"} => u.on = u.to
    <3>1. CASE u \in Tasks /\ u # t
      <4>1. <<u.cmd, u.mem>> # k
        BY <1>3, <3>1 DEF SameKey
      <4>2. <<u.cmd, u.mem>> \notin done'
        BY <1>t, <1>2, <2>1, <3>1, <4>1 DEF Moving
      <4> QED BY <1>t, <2>1, <3>1, <4>2 DEF Moving
    <3>2. CASE t.what = "read" /\ t.to # None /\ done' = done /\ u = WriteAfter(t)
      <4>1. <<t.cmd, t.mem>> \notin done
        BY <1>t, <1>3, <3>2 DEF Moving
      <4> QED BY <1>2, <1>5, <1>7, <3>2, <4>1
    <3> QED BY <1>8, <3>1, <3>2
  <2> QED BY <1>1, <2>1 DEF Moving
<1>14. Executing'
  <2>1. \A u \in Tasks' : u.what = "exec" => u \in Tasks /\ u.cmd # t.cmd
    BY <1>2, <1>7, <1>8
  <2>2. \A u \in Tasks' : u \in Tasks \/ u.cmd = t.cmd
    BY <1>7, <1>8
  <2> QED BY <1>t, <1>1, <2>1, <2>2 DEF Executing
<1> QED BY <1>2, <1>9, <1>10, <1>11, <1>12, <1>13, <1>14 DEF Control

(* The issuer executes a command. *)
ExecuteTo(d, t) ==
  /\ Taken(d, t) /\ t.what = "exec" /\ Good(ready') /\ Tasks' = Tasks \ {t}
  /\ \A u \in Tasks : u.cmd = t.cmd => u = t
  /\ copy' = [m \in Mems |->
                IF m \notin Written(op[t.cmd]) THEN copy[m]
                ELSE [e \in Devices \cup {Host} |->
                        IF e \in Destinations(t.cmd, d) THEN Result(t.cmd, d, m, e)
                                                       ELSE copy[m][e]]]
  /\ value' = [m \in Mems |-> IF m \in Written(op[t.cmd]) THEN value[m] + 1 ELSE value[m]]
  /\ latest' = [m \in Mems |-> IF WritesAll(t.cmd) /\ m = op[t.cmd].dst THEN latest[m] \cup Devices
                                                                       ELSE latest[m]]
  /\ done' = done \cup {t.cmd}
  /\ UNCHANGED <<commandVars, resolveVars, device, last, pending, temp, crashed>>

(* Execute() takes the only task of its command. *)
LEMMA ExecuteFacts ==
  ASSUME Control, NEW d \in Devices, Execute(d)
  PROVE  ExecuteTo(d, Head(ready[d]))
<1>1. ready[d] # <<>> /\ ready' = [ready EXCEPT ![d] = Tail(@)] /\ Head(ready[d]).what = "exec"
  BY DEF Execute
<1>2. Taken(d, Head(ready[d])) /\ Good(ready') /\ Tasks' = Tasks \ {Head(ready[d])}
  BY <1>1, TakenFacts
<1>3. \A u \in Tasks : u.cmd = Head(ready[d]).cmd => u = Head(ready[d])
  BY <1>1, <1>2 DEF Control, Executing, Taken
<1> QED BY <1>1, <1>2, <1>3 DEF Execute, ExecuteTo

(* Executing a command keeps Control: those that waited for it may now be  *)
(* resolved. *)
LEMMA ExecuteControl ==
  ASSUME Control, NEW d \in Devices, NEW t, ExecuteTo(d, t)
  PROVE  Control'
<1>t. TypeOK /\ Good(ready) /\ InRings /\ Begun /\ OneAtATime /\ Moving /\ Executing
  BY DEF Control
<1>1. /\ Good(ready') /\ Tasks' = Tasks \ {t} /\ \A u \in Tasks : u.cmd = t.cmd => u = t
      /\ done' = done \cup {t.cmd}
      /\ UNCHANGED <<op, queueOf, waits, resolved, source, target, device, last, pending, temp,
                     crashed>>
  BY DEF ExecuteTo, commandVars, resolveVars
<1>2. t \in Tasks /\ t.cmd \in Commands /\ resolved[t.cmd] /\ t.what = "exec" /\ op[t.cmd] \in Ops
  BY DEF ExecuteTo, Taken
<1>3. \A u \in Tasks : u.cmd \in Commands
  BY <1>t, TaskTyped
<1>4. \A b \in Commands, m \in Mems : <<b, m>> \in done' => <<b, m>> \in done
  BY <1>1, <1>2, KeyNotCommand
<1>5. TypeOK'
  <2>1. /\ copy \in [Mems -> [Devices \cup {Host} -> Versions]] /\ value \in [Mems -> Nat]
        /\ latest \in [Mems -> SUBSET (Devices \cup {Host})]
        /\ done \subseteq Commands \cup Transferred
    BY <1>t DEF TypeOK
  <2>2. value' \in [Mems -> Nat]
    BY <2>1 DEF ExecuteTo
  <2>3. \A m \in Mems, e \in Devices \cup {Host} : Result(t.cmd, d, m, e) \in Versions
    BY <2>1 DEF Result, Versions
  <2>4. copy' \in [Mems -> [Devices \cup {Host} -> Versions]]
    BY <2>1, <2>3 DEF ExecuteTo
  <2>5. latest' \in [Mems -> SUBSET (Devices \cup {Host})]
    BY <2>1 DEF ExecuteTo
  <2>6. done' \subseteq Commands \cup Transferred
    BY <1>1, <1>2, <2>1
  <2> QED BY <1>t, <1>1, <2>2, <2>4, <2>5, <2>6, ReadyTyped DEF TypeOK
<1>6. InRings'
  <2>1. \A q \in Queues : \A i \in DOMAIN pending[q] : pending[q][i] # t.cmd
    BY <1>t, <1>2 DEF Executing
  <2> QED BY <1>t, <1>1, <2>1 DEF InRings
<1>7. Begun'
  <2>1. \A u \in Tasks' : u.cmd # t.cmd
    BY <1>1
  <2> QED BY <1>t, <1>1, <1>2, <1>4, <2>1 DEF Begun
<1>8. OneAtATime'
  BY <1>t, <1>1 DEF OneAtATime
<1>9. Moving'
  <2>1. \A u \in Tasks : u.what # "exec" => u.mem \in Mems
    <3>1. \A u \in Tasks : op[u.cmd] \in Ops
      BY <1>t, <1>3 DEF TypeOK, Begun
    <3> QED BY <1>t, <3>1, OpFacts DEF Moving
  <2>2. \A u \in Tasks : u.what # "exec" /\ <<u.cmd, u.mem>> \in done' => <<u.cmd, u.mem>> \in done
    BY <1>3, <1>4, <2>1
  <2> QED BY <1>t, <1>1, <2>2 DEF Moving
<1>10. Executing'
  BY <1>t, <1>1 DEF Executing
<1> QED BY <1>1, <1>5, <1>6, <1>7, <1>8, <1>9, <1>10 DEF Control

(* Initially nothing has been enqueued. *)
LEMMA ControlInitially ==
  ASSUME Init
  PROVE  Control /\ Tasks = {}
<1>1. Tasks = {} /\ Good(ready)
  BY DEF Init, Tasks, TasksOf, Good
<1>2. TypeOK
  <2>1. /\ op \in [Commands -> Ops \cup {None}] /\ queueOf \in [Commands -> Queues \cup {None}]
        /\ waits \in [Commands -> SUBSET (Commands \cup Transferred)]
        /\ resolved \in [Commands -> BOOLEAN] /\ source \in [Commands -> Devices \cup {None}]
        /\ target \in [Commands -> Devices \cup {None}] /\ device \in [Queues -> Devices]
    BY DEF Init
  <2>2. last \in [Queues -> Commands \cup {None}] /\ pending \in [Queues -> Seq(Commands)]
    BY DEF Init
  <2>3. \A d \in Devices : \A i \in DOMAIN ready[d] : FALSE
    BY DEF Init
  <2>4. latest \in [Mems -> SUBSET (Devices \cup {Host})]
    BY DEF Init
  <2>5. copy \in [Mems -> [Devices \cup {Host} -> Versions]]
    <3>1. 0 \in Versions /\ None \in Versions
      BY DEF Versions
    <3> QED BY <3>1 DEF Init
  <2>6. temp \in [Transferred -> Versions] /\ value \in [Mems -> Nat]
    BY DEF Init, Transferred, Versions
  <2>7. done \subseteq Commands \cup Transferred /\ crashed \in BOOLEAN
    BY DEF Init
  <2> QED BY <2>1, <2>2, <2>3, <2>4, <2>5, <2>6, <2>7 DEF TypeOK
<1>3. InRings
  BY DEF Init, InRings
<1>4. Begun /\ OneAtATime /\ Moving /\ Executing
  BY <1>1 DEF Init, Begun, OneAtATime, Moving, Executing
<1> QED BY <1>1, <1>2, <1>3, <1>4 DEF Control

(* Every step keeps Control, also a change of device between two passes. *)
LEMMA ControlStep ==
  ASSUME Control, [Next]_vars
  PROVE  Control'
<1>1. ASSUME NEW q \in Queues, NEW c \in Commands, NEW o \in Ops, Enqueue(q, c, o)
      PROVE  Control'
  BY <1>1, EnqueueControl
<1>2. ASSUME UNCHANGED <<op, queueOf, waits, resolved, source, target, last, pending, ready, done,
                         latest, copy, temp, value>>,
             device' \in [Queues -> Devices], crashed' \in BOOLEAN
      PROVE  Control'
  <2>1. Tasks' = Tasks
    BY <1>2 DEF Tasks
  <2>2. TypeOK'
    BY <1>2 DEF Control, TypeOK
  <2>3. Good(ready')
    BY <1>2 DEF Control
  <2>4. InRings' /\ OneAtATime'
    BY <1>2 DEF Control, InRings, OneAtATime
  <2>5. Begun' /\ Moving' /\ Executing'
    BY <1>2, <2>1 DEF Control, Begun, Moving, Executing
  <2> QED BY <2>2, <2>3, <2>4, <2>5 DEF Control
<1>3. ASSUME NEW q \in Queues, NEW d \in Devices, Rebind(q, d)
      PROVE  Control'
  <2>1. device' \in [Queues -> Devices] /\ crashed' \in BOOLEAN
    BY <1>3 DEF Control, TypeOK, Rebind
  <2> QED BY <1>2, <1>3, <2>1 DEF Rebind, commandVars, resolveVars, dataVars
<1>4. ASSUME NEW q \in Queues, Resolve(q)
      PROVE  Control'
  <2>1. CASE /\ crashed' = TRUE
             /\ UNCHANGED <<commandVars, resolveVars, device, last, pending, ready, done, latest,
                            dataVars>>
    <3>1. device' \in [Queues -> Devices] /\ crashed' \in BOOLEAN
      BY <2>1 DEF Control, TypeOK
    <3> QED BY <1>2, <2>1, <3>1 DEF commandVars, resolveVars, dataVars
  <2> QED BY <1>4, <2>1, ResolveFacts, ResolveControl
<1>5. ASSUME NEW q \in Queues, Submit(q)
      PROVE  Control'
  BY <1>5, SubmitFacts, SubmitControl
<1>6. ASSUME NEW d \in Devices, Execute(d)
      PROVE  Control'
  BY <1>6, ExecuteFacts, ExecuteControl
<1>7. ASSUME NEW d \in Devices, Transfer(d)
      PROVE  Control'
  BY <1>7, TransferControl
<1>8. CASE UNCHANGED vars
  <2>1. device' \in [Queues -> Devices] /\ crashed' \in BOOLEAN
    BY <1>8 DEF Control, TypeOK, vars
  <2> QED BY <1>2, <1>8, <2>1 DEF vars, commandVars, resolveVars, dataVars
<1> QED BY <1>1, <1>3, <1>4, <1>5, <1>6, <1>7, <1>8 DEF Next

-----------------------------------------------------------------------------
(* What a command finds *)

(* What a task says of its command. *)
LEMMA TaskFacts ==
  ASSUME Control, NEW t \in Tasks
  PROVE  /\ t \in Task /\ t.cmd \in Commands /\ op[t.cmd] \in Ops
         /\ resolved[t.cmd] /\ t.cmd \notin done
         /\ t.what = "exec" => t.mem = None
         /\ t.what # "exec" => t.mem \in Touched(op[t.cmd]) /\ t.mem \in Mems
<1>1. t \in Task /\ t.cmd \in Commands /\ resolved[t.cmd] /\ t.cmd \notin done
  BY TaskTyped DEF Control, Begun
<1>2. op[t.cmd] \in Ops
  BY <1>1 DEF Control, Begun, TypeOK
<1>3. t.what # "exec" => t.mem \in Touched(op[t.cmd]) /\ t.mem \in Mems
  BY <1>2, OpFacts DEF Control, Moving
<1> QED BY <1>1, <1>2, <1>3 DEF Control, Executing

(* Two commands that are resolved and not complete have no memory object   *)
(* in common. *)
LEMMA Apart ==
  ASSUME Control, NEW b \in Commands, NEW c \in Commands, b # c,
         resolved[b], resolved[c], b \notin done, c \notin done, NEW m \in Touched(op[b])
  PROVE  m \notin Touched(op[c])
<1>1. op[b] # None /\ op[c] # None
  BY DEF Control, Begun
<1>2. ~Conflict(op[b], op[c])
  BY <1>1 DEF Control, OneAtATime
<1> QED BY <1>2 DEF Conflict

(* Nothing moves or is about to change the memory objects of a command     *)
(* that waits for nothing and has no tasks. *)
LEMMA Still ==
  ASSUME Control, NEW c \in Commands, op[c] \in Ops, c \notin done,
         resolved[c] \/ waits[c] \subseteq done, \A t \in Tasks : t.cmd # c,
         NEW m \in Touched(op[c]), NEW t \in Tasks
  PROVE  t.mem # m /\ m \notin Touched(op[t.cmd])
<1> DEFINE b == t.cmd
<1>1. /\ b \in Commands /\ op[b] \in Ops /\ resolved[b] /\ b \notin done /\ b # c
      /\ t.what = "exec" => t.mem = None
      /\ t.what # "exec" => t.mem \in Touched(op[b])
  BY TaskFacts
<1>2. op[b] # None /\ op[c] # None
  BY <1>1, MemAssumption
<1>3. ~Conflict(op[b], op[c])
  <2>1. \/ ~Conflict(op[b], op[c])
        \/ b \in waits[c] /\ ~resolved[c]
        \/ c \in waits[b] /\ ~resolved[b]
        \/ b \in done \/ c \in done
    BY <1>1, <1>2 DEF Control, OneAtATime
  <2> QED BY <1>1, <2>1
<1>4. m \notin Touched(op[b])
  BY <1>3 DEF Conflict
<1>5. m # None
  BY OpFacts
<1> QED BY <1>1, <1>4, <1>5

(* So the directory is right about them. *)
LEMMA StillRight ==
  ASSUME Control, Directory, NEW c \in Commands, op[c] \in Ops, c \notin done,
         resolved[c] \/ waits[c] \subseteq done, \A t \in Tasks : t.cmd # c,
         NEW m \in Touched(op[c])
  PROVE  /\ m \in Mems
         /\ \A e \in latest[m] : copy[m][e] = value[m]
         /\ latest[m] = {} => \A e \in Devices : copy[m][e] = value[m]
<1>1. m \in Mems
  BY OpFacts
<1>2. \A e : ~Moved(m, e)
  BY Still DEF Moved
<1>3. \A t \in Tasks : m \notin Written(op[t.cmd])
  <2>1. \A t \in Tasks : m \notin Touched(op[t.cmd]) /\ op[t.cmd] \in Ops
    BY Still, TaskFacts
  <2> QED BY <2>1, OpFacts
<1>4. \A e : ~Promised(m, e)
  BY <1>3 DEF Promised
<1> QED BY <1>1, <1>2, <1>4 DEF Directory

(* A command finds the latest contents of what it needs, because the       *)
(* transfers for it are complete and nothing else changes the contents. *)
LEMMA FreshTask ==
  ASSUME Control, Bound, Arrived, Reading, NEW t \in Tasks, t.what = "exec"
  PROVE  Fresh(t.cmd, t.on)
<1> DEFINE c == t.cmd
           o == op[c]
<1>1. c \in Commands /\ o \in Ops /\ resolved[c] /\ c \notin done
  BY TaskFacts
<1>2. \A m \in Touched(o) : ~OnTheWay(c, m)
  BY <1>1, OpFacts DEF Control, Executing, OnTheWay
<1>3. Located(o) \subseteq Touched(o) /\ Fetched(o) \subseteq Touched(o)
  BY <1>1, OpFacts
<1>4. CASE o.kind = "read"
  <2>1. Located(o) = {} /\ Fetched(o) = {o.src}
    BY <1>1, <1>4, OpFacts
  <2>2. copy[o.src][t.on] = value[o.src]
    BY <1>4 DEF Reading
  <2> QED BY <1>4, <2>1, <2>2 DEF Fresh, Found
<1>5. CASE o.kind # "read"
  <2>1. t.on = target[c]
    BY <1>5 DEF Bound
  <2>2. \A m \in Located(o) : copy[m][t.on] = value[m]
    BY <1>1, <1>2, <1>3, <2>1 DEF Arrived
  <2>3. o.kind = "copy" => /\ Fetched(o) = {o.src} /\ o.src \notin Located(o)
                           /\ o.src \in Touched(o)
    BY <1>1, <1>3, OpFacts
  <2>4. o.kind # "copy" => Fetched(o) = {}
    BY <1>1, <1>5, OpFacts
  <2>5. o.kind = "copy" => Found(c, t.on, o.src) = value[o.src]
    BY <1>1, <1>2, <2>3 DEF Arrived, Found
  <2> QED BY <2>2, <2>3, <2>4, <2>5 DEF Fresh, Found
<1> QED BY <1>4, <1>5

-----------------------------------------------------------------------------
(* Every step keeps the data invariants *)

(* A step that leaves alone the copies, the tasks, the directory and the   *)
(* commands in progress. *)
LEMMA DataFrame ==
  ASSUME Control, Data,
         UNCHANGED <<resolved, source, target, ready, done, latest, copy, temp, value>>,
         \A b \in Commands : resolved[b] => op'[b] = op[b]
  PROVE  Data'
<1>1. Tasks' = Tasks
  BY DEF Tasks
<1>2. \A t \in Tasks : op'[t.cmd] = op[t.cmd]
  BY TaskFacts
<1>3. Directory'
  <2>1. \A m, e : (Moved(m, e)' <=> Moved(m, e)) /\ (Promised(m, e)' <=> Promised(m, e))
    BY <1>1, <1>2 DEF Moved, Promised
  <2> QED BY <2>1 DEF Data, Directory
<1>4. Carrying'
  BY <1>1, <1>2 DEF Data, Carrying
<1>5. Arrived'
  <2>1. \A b, m : OnTheWay(b, m)' <=> OnTheWay(b, m)
    BY <1>1 DEF OnTheWay
  <2> QED BY <2>1 DEF Data, Arrived
<1>6. Reading' /\ Exclusive' /\ ContentsKept'
  BY <1>1, <1>2 DEF Data, Reading, Exclusive, ContentsKept
<1> QED BY <1>3, <1>4, <1>5, <1>6 DEF Data

(* A command whose memory is consistent is submitted to device e. *)
LEMMA ExecAdded ==
  ASSUME Control, Data, NEW c \in Commands, op[c] \in Ops, c \notin done,
         resolved[c] \/ waits[c] \subseteq done, \A t \in Tasks : t.cmd # c,
         NEW e \in Devices,
         \A m \in Touched(op[c]) \ Written(op[c]) :
           ~(op[c].kind = "copy" /\ m = op[c].src) => copy[m][e] = value[m],
         latest' = Access(op[c], e, latest), Tasks' = Tasks \cup {ExecTask(c, e)},
         UNCHANGED <<op, copy, temp, value>>
  PROVE  Directory' /\ Carrying' /\ Reading' /\ Exclusive' /\ ContentsKept'
<1> DEFINE x == ExecTask(c, e)
           o == op[c]
<1>1. x.what = "exec" /\ x.on = e /\ x.cmd = c /\ x \in Tasks'
  BY DEF ExecTask
<1>2. /\ Touched(o) \subseteq Mems /\ Written(o) \subseteq Touched(o)
      /\ o.kind = "read" => Written(o) = {} /\ o.src \in Touched(o)
  BY OpFacts
<1>3. \A m, i : (Moved(m, i) => Moved(m, i)') /\ (Promised(m, i) => Promised(m, i)')
  BY DEF Moved, Promised
<1>4. \A m \in Mems \ Touched(o) : latest'[m] = latest[m]
  BY <1>2 DEF Access
<1>5. \A m \in Written(o) : latest'[m] = {e} /\ Promised(m, e)'
  BY <1>1, <1>2 DEF Access, Promised
<1>6. Directory'
  <2>1. ASSUME NEW m \in Mems
        PROVE  /\ \A i \in latest'[m] : copy[m][i] = value[m] \/ Moved(m, i)' \/ Promised(m, i)'
               /\ latest'[m] = {} => \A i \in Devices : copy[m][i] = value[m]
    <3>1. CASE m \in Written(o)
      BY <1>5, <3>1
    <3>2. CASE m \notin Written(o)
      <4>1. latest'[m] = latest[m] \/ (latest'[m] = latest[m] \cup {e} /\ copy[m][e] = value[m])
        BY <2>1, <3>2 DEF Access
      <4> QED BY <1>3, <2>1, <4>1 DEF Data, Directory
    <3> QED BY <3>1, <3>2
  <2> QED BY <2>1 DEF Directory
<1>7. Carrying'
  BY <1>1 DEF Data, Carrying
<1>8. Reading'
  <2>1. o.kind = "read" => copy[o.src][e] = value[o.src]
    BY <1>2
  <2> QED BY <1>1, <2>1 DEF Data, Reading
<1>9. Exclusive'
  <2>1. ASSUME NEW t \in Tasks, t.what = "exec", NEW m \in Written(op[t.cmd])
        PROVE  latest'[m] = {t.on}
    <3>1. op[t.cmd] \in Ops
      BY TaskFacts
    <3>2. m \in Touched(op[t.cmd]) /\ m \in Mems
      BY <3>1, OpFacts
    <3>3. m \notin Touched(o)
      BY <3>2, Still
    <3> QED BY <1>4, <2>1, <3>2, <3>3 DEF Data, Exclusive
  <2> QED BY <1>1, <1>5, <2>1 DEF Exclusive
<1>10. ContentsKept'
  BY DEF Data, ContentsKept
<1> QED BY <1>6, <1>7, <1>8, <1>9, <1>10

(* ResolveConsistency(): where the scheduler takes the memory objects of   *)
(* the command from, their contents are the latest. *)
LEMMA ResolveData ==
  ASSUME Control, Control', Bound, Data, NEW q \in Queues, NEW c, NEW d, NEW from,
         ResolveTo(q, c, d, from),
         (\E e : AtOnce(q, c, d, from, e)) \/ (\E S : Later(c, d, from, S))
  PROVE  Bound' /\ Data'
<1> DEFINE o == op[c]
<1>1. /\ c = Head(pending[q]) /\ c \in Commands /\ o \in Ops /\ ~resolved[c] /\ c \notin done
      /\ waits[c] \subseteq done /\ pending[q] # <<>> /\ d = device[q] /\ d \in Devices
      /\ from \in Choices(o, d)
      /\ \A m \in Located(o) \cup Fetched(o) : from[m] \in Devices
      /\ \A t \in Tasks : t.cmd # c
  BY DEF ResolveTo, Chosen
<1>2. /\ resolved' = [resolved EXCEPT ![c] = TRUE]
      /\ source' = [source EXCEPT ![c] =
           IF o.kind = "copy" /\ UseCopy(from[o.src], d) THEN from[o.src] ELSE None]
      /\ target' = [target EXCEPT ![c] = d]
      /\ UNCHANGED <<op, device, done, copy, temp, value>>
  BY DEF ResolveTo
<1>3. /\ resolved \in [Commands -> BOOLEAN] /\ pending \in [Queues -> Seq(Commands)]
      /\ source \in [Commands -> Devices \cup {None}] /\ target \in [Commands -> Devices \cup {None}]
      /\ None \notin Devices
  BY MemAssumption DEF Control, TypeOK
<1>4. /\ target'[c] = d /\ resolved'[c] = TRUE
      /\ source'[c] = IF o.kind = "copy" /\ UseCopy(from[o.src], d) THEN from[o.src] ELSE None
      /\ \A b \in Commands : b # c => /\ target'[b] = target[b] /\ resolved'[b] = resolved[b]
                                      /\ source'[b] = source[b]
  BY <1>1, <1>2, <1>3
<1>5. \A m \in Touched(o) :
        /\ m \in Mems /\ \A e \in latest[m] : copy[m][e] = value[m]
        /\ latest[m] = {} => \A e \in Devices : copy[m][e] = value[m]
  BY <1>1, StillRight DEF Data
<1>6. \A m \in Touched(o) : copy[m][from[m]] = value[m]
  <2>1. \A m \in Touched(o) : from[m] \in Sources(m, d)
    BY <1>1 DEF Choices
  <2> QED BY <1>1, <1>5, <2>1 DEF Sources
<1>7. /\ Located(o) \subseteq Touched(o) /\ Fetched(o) \subseteq Touched(o)
      /\ Written(o) \subseteq Touched(o)
      /\ o.kind = "read" => Located(o) = {} /\ Fetched(o) = {o.src}
      /\ o.kind = "copy" => o.src \notin Located(o) /\ Fetched(o) = {o.src}
      /\ \A m \in Touched(o) \ Written(o) :
           m \in Located(o) \/ (o.kind \in {"copy", "read"} /\ m = o.src)
  BY <1>1, OpFacts
<1>8. o.kind = "copy" => from[o.src] \in Devices /\ copy[o.src][from[o.src]] = value[o.src]
  BY <1>1, <1>6, <1>7
<1>9. \A r \in Queues : r # q /\ pending[r] # <<>> =>
        Head(pending[r]) \in Commands /\ Head(pending[r]) # c
  <2>1. ASSUME NEW r \in Queues, r # q, pending[r] # <<>>
        PROVE  Head(pending[r]) \in Commands /\ Head(pending[r]) # c
    <3>1. /\ 1 \in DOMAIN pending[r] /\ Head(pending[r]) = pending[r][1]
          /\ 1 \in DOMAIN pending[q] /\ Head(pending[q]) = pending[q][1]
          /\ Head(pending[r]) \in Commands
      BY <1>1, <2>1, HeadFacts DEF Control
    <3> QED BY <1>1, <2>1, <3>1 DEF Control, InRings
  <2> QED BY <2>1
(* What other commands in progress need stays where it is. *)
<1>10. ASSUME Tasks \subseteq Tasks', NEW b \in Commands, b # c, resolved'[b], b \notin done
       PROVE  /\ target'[b] \in Devices
              /\ \A m \in Located(op[b]) : copy[m][target'[b]] = value[m] \/ OnTheWay(b, m)'
              /\ op[b].kind = "copy" /\ source'[b] = None =>
                   temp[<<b, op[b].src>>] = value[op[b].src] \/ OnTheWay(b, op[b].src)'
              /\ op[b].kind = "copy" /\ source'[b] # None =>
                   copy[op[b].src][source'[b]] = value[op[b].src]
  <2>1. \A m : OnTheWay(b, m) => OnTheWay(b, m)'
    BY <1>10 DEF OnTheWay
  <2>2. resolved[b] /\ target'[b] = target[b] /\ source'[b] = source[b]
    BY <1>4, <1>10
  <2> QED BY <1>2, <1>10, <2>1, <2>2 DEF Data, Arrived
<1>11. ASSUME Tasks \subseteq Tasks',
              \A m \in Located(o) : from[m] = d \/ OnTheWay(c, m)',
              o.kind = "copy" /\ ~UseCopy(from[o.src], d) => OnTheWay(c, o.src)'
       PROVE  Arrived'
  <2>1. \A m \in Located(o) : copy[m][d] = value[m] \/ OnTheWay(c, m)'
    BY <1>6, <1>7, <1>11
  <2>2. o.kind = "copy" /\ source'[c] = None => OnTheWay(c, o.src)'
    BY <1>3, <1>4, <1>8, <1>11
  <2>3. o.kind = "copy" /\ source'[c] # None => copy[o.src][source'[c]] = value[o.src]
    BY <1>4, <1>8
  <2>4. target'[c] \in Devices /\ \A m \in Located(o) : copy[m][target'[c]] = value[m] \/ OnTheWay(c, m)'
    BY <1>1, <1>4, <2>1
  <2> QED BY <1>2, <1>10, <1>11, <2>2, <2>3, <2>4 DEF Arrived
(* It is submitted at once. *)
<1>12. ASSUME NEW e, AtOnce(q, c, d, from, e)
       PROVE  Bound' /\ Data'
  <2>1. /\ e = (IF o.kind = "read" THEN from[o.src] ELSE d) /\ e \in Devices
        /\ \A m \in Located(o) : from[m] = d
        /\ o.kind = "copy" => UseCopy(from[o.src], d)
        /\ latest' = Access(o, e, latest)
        /\ Tasks' = Tasks \cup {ExecTask(c, e)}
        /\ pending' = [pending EXCEPT ![q] = Tail(@)]
    BY <1>12 DEF AtOnce
  <2>2. \A m \in Touched(o) \ Written(o) :
          ~(o.kind = "copy" /\ m = o.src) => copy[m][e] = value[m]
    BY <1>6, <1>7, <2>1
  <2>3. Directory' /\ Carrying' /\ Reading' /\ Exclusive' /\ ContentsKept'
    BY <1>1, <1>2, <2>1, <2>2, ExecAdded
  <2>4. Arrived'
    BY <1>11, <2>1
  <2>5. Bound'
    <3>1. /\ \A r \in Queues : \A i \in DOMAIN pending'[r] :
               /\ pending'[r][i] # c
               /\ \E k \in DOMAIN pending[r] : pending'[r][i] = pending[r][k]
          /\ pending' \in [Queues -> Seq(Commands)]
      <4>1. \A b \in Commands : b # Head(pending[q]) => resolved'[b] = resolved[b]
        BY <1>1, <1>4
      <4>2. TypeOK /\ InRings
        BY DEF Control
      <4>3. /\ pending[q] # <<>> /\ UNCHANGED <<op, done>> /\ c = Head(pending[q])
            /\ pending' = [pending EXCEPT ![q] = Tail(@)]
        BY <1>1, <1>2, <2>1
      <4>4. /\ \A r \in Queues : \A i \in DOMAIN pending'[r] :
                 /\ pending'[r][i] # Head(pending[q])
                 /\ \E k \in DOMAIN pending[r] : pending'[r][i] = pending[r][k]
            /\ pending' \in [Queues -> Seq(Commands)]
        BY <4>1, <4>2, <4>3, PopRing
      <4> QED BY <4>3, <4>4
    <3>2. ASSUME NEW r \in Queues, Midway(r)'
          PROVE  r # q /\ pending'[r] = pending[r] /\ Midway(r)
      <4>1. /\ pending'[r] # <<>> /\ Head(pending'[r]) = pending'[r][1] /\ 1 \in DOMAIN pending'[r]
            /\ Head(pending'[r]) \in Commands /\ resolved'[Head(pending'[r])]
        BY <3>1, <3>2 DEF Midway
      <4>2. PICK k \in DOMAIN pending[r] : pending'[r][1] = pending[r][k]
        BY <3>1, <4>1
      <4>3. resolved[pending[r][k]] /\ pending[r][k] # c
        BY <1>4, <3>1, <4>1, <4>2
      <4>4. k = 1
        BY <4>3 DEF Control, InRings
      <4>5. pending[q][1] = c
        BY <1>1, HeadFacts DEF Control
      <4>6. r # q
        BY <4>3, <4>4, <4>5
      <4> QED BY <1>3, <2>1, <4>1, <4>2, <4>3, <4>6 DEF Midway
    <3>3. \A r \in Queues : Midway(r)' => /\ target'[Head(pending'[r])] = device[r]
                                          /\ op[Head(pending'[r])].kind # "read"
      <4>1. ASSUME NEW r \in Queues, Midway(r)'
            PROVE  /\ target'[Head(pending'[r])] = device[r]
                   /\ op[Head(pending'[r])].kind # "read"
        <5>1. r # q /\ pending'[r] = pending[r] /\ Midway(r)
          BY <3>2, <4>1
        <5>2. Head(pending[r]) \in Commands /\ Head(pending[r]) # c
          BY <1>9, <5>1 DEF Midway
        <5> QED BY <1>4, <5>1, <5>2 DEF Bound
      <4> QED BY <4>1
    <3>4. \A t \in Tasks' : t.what = "exec" /\ op[t.cmd].kind # "read" => t.on = target'[t.cmd]
      <4>1. \A t \in Tasks : t.cmd \in Commands /\ t.cmd # c
        BY <1>1, TaskFacts
      <4>2. ExecTask(c, e).on = e /\ ExecTask(c, e).cmd = c
        BY DEF ExecTask
      <4> QED BY <1>4, <2>1, <4>1, <4>2 DEF Bound
    <3> QED BY <1>2, <3>3, <3>4 DEF Bound
  <2> QED BY <2>3, <2>4, <2>5 DEF Data
(* It waits for transfers. *)
<1>13. ASSUME NEW S, Later(c, d, from, S)
       PROVE  Bound' /\ Data'
  <2>1. /\ S # {} /\ S \subseteq Task /\ \A x : x \in S <=> Needed(c, d, from, x)
        /\ latest' = [m \in Mems |-> IF m \in Located(o) /\ from[m] # d THEN latest[m] \cup {d}
                                                                      ELSE latest[m]]
        /\ Tasks' = Tasks \cup S /\ UNCHANGED pending
    BY <1>13 DEF Later
  <2>2. \A x \in S :
          /\ x.cmd = c /\ x.what \in {"copy", "read"} /\ x.mem \in Touched(o)
          /\ x.from = from[x.mem]
          /\ \/ x.to = d /\ x.mem \in Located(o) /\ x.from # d
             \/ x.to = None /\ o.kind = "copy" /\ x.mem = o.src
    BY <1>1, <2>1, NeededFacts
  <2>3. ASSUME NEW m \in Located(o), from[m] # d
        PROVE  OnTheWay(c, m)' /\ Moved(m, d)'
    <3> DEFINE x == CloneTask(c, m, from[m], d)
    <3>1. x \in S
      BY <2>1, <2>3 DEF Needed
    <3>2. x.cmd = c /\ x.mem = m /\ x.to = d /\ x.what # "exec"
      BY DEF CloneTask
    <3> HIDE DEF x
    <3> QED BY <2>1, <3>1, <3>2 DEF OnTheWay, Moved
  <2>4. o.kind = "copy" /\ ~UseCopy(from[o.src], d) => OnTheWay(c, o.src)'
    <3> DEFINE x == ReadTask(c, o.src, from[o.src])
    <3>1. o.kind = "copy" /\ ~UseCopy(from[o.src], d) => x \in S
      BY <2>1 DEF Needed
    <3>2. x.cmd = c /\ x.mem = o.src
      BY DEF ReadTask
    <3> HIDE DEF x
    <3> QED BY <1>2, <2>1, <3>1, <3>2 DEF OnTheWay
  <2>5. Arrived'
    BY <1>11, <2>1, <2>3, <2>4
  <2>6. \A t \in S : t.what # "exec"
    BY <2>2
  <2>7. \A m, i : (Moved(m, i) => Moved(m, i)') /\ (Promised(m, i) => Promised(m, i)')
    BY <1>2, <2>1 DEF Moved, Promised
  <2>8. Directory'
    <3>1. ASSUME NEW m \in Mems
          PROVE  /\ \A i \in latest'[m] : copy[m][i] = value[m] \/ Moved(m, i)' \/ Promised(m, i)'
                 /\ latest'[m] = {} => \A i \in Devices : copy[m][i] = value[m]
      <4>1. CASE m \in Located(o) /\ from[m] # d
        BY <2>1, <2>3, <2>7, <3>1, <4>1 DEF Data, Directory
      <4>2. CASE ~(m \in Located(o) /\ from[m] # d)
        BY <2>1, <2>7, <3>1, <4>2 DEF Data, Directory
      <4> QED BY <4>1, <4>2
    <3> QED BY <1>2, <3>1 DEF Directory
  <2>9. Carrying'
    <3>1. ASSUME NEW t \in S
          PROVE  /\ copy[t.mem][t.from] = value[t.mem] /\ t.what # "write"
                 /\ t.to = None <=> op[t.cmd].kind = "copy" /\ t.mem = op[t.cmd].src
      BY <1>1, <1>3, <1>6, <1>7, <2>2
    <3> QED BY <1>2, <2>1, <3>1 DEF Data, Carrying
  <2>10. Reading'
    BY <1>2, <2>1, <2>6 DEF Data, Reading
  <2>11. Exclusive'
    <3>1. ASSUME NEW t \in Tasks, t.what = "exec", NEW m \in Written(op[t.cmd])
          PROVE  latest'[m] = {t.on}
      <4>1. m \in Mems /\ m \in Touched(op[t.cmd])
        BY TaskFacts, OpFacts
      <4>2. m \notin Touched(o)
        BY <1>1, <4>1, Still
      <4> QED BY <1>7, <2>1, <3>1, <4>1, <4>2 DEF Data, Exclusive
    <3> QED BY <1>2, <2>1, <2>6, <3>1 DEF Exclusive
  <2>12. ContentsKept'
    BY <1>2 DEF Data, ContentsKept
  <2>13. Bound'
    <3>1. o.kind # "read"
      <4>1. PICK x : x \in S
        BY <2>1
      <4> QED BY <1>7, <2>2, <4>1
    <3>2. ASSUME NEW r \in Queues, Midway(r)'
          PROVE  /\ target'[Head(pending[r])] = device[r]
                 /\ op[Head(pending[r])].kind # "read"
      <4>1. CASE r = q
        BY <1>1, <1>4, <3>1, <4>1
      <4>2. CASE r # q
        <5>1. pending[r] # <<>> /\ resolved'[Head(pending[r])]
          BY <2>1, <3>2 DEF Midway
        <5>2. Head(pending[r]) \in Commands /\ Head(pending[r]) # c
          BY <1>9, <4>2, <5>1
        <5> QED BY <1>4, <5>1, <5>2 DEF Bound, Midway
      <4> QED BY <4>1, <4>2
    <3>3. \A t \in Tasks : t.cmd \in Commands /\ t.cmd # c
      BY <1>1, TaskFacts
    <3>4. \A t \in Tasks' : t.what = "exec" /\ op[t.cmd].kind # "read" => t.on = target'[t.cmd]
      BY <1>4, <2>1, <2>6, <3>3 DEF Bound
    <3> QED BY <1>2, <2>1, <3>2, <3>4 DEF Bound
  <2> QED BY <2>5, <2>8, <2>9, <2>10, <2>11, <2>12, <2>13 DEF Data
<1> QED BY <1>12, <1>13

(* A command is submitted after its transfers. *)
LEMMA SubmitData ==
  ASSUME Control, Control', Bound, Data, NEW q \in Queues, NEW c, NEW d, SubmitTo(q, c, d)
  PROVE  Bound' /\ Data'
<1> DEFINE o == op[c]
<1>1. /\ pending[q] # <<>> /\ c = Head(pending[q]) /\ c \in Commands /\ o \in Ops
      /\ resolved[c] /\ c \notin done /\ d = device[q] /\ d \in Devices
      /\ \A t \in Tasks : t.cmd # c
      /\ Tasks' = Tasks \cup {ExecTask(c, d)} /\ latest' = Access(o, d, latest)
      /\ pending' = [pending EXCEPT ![q] = Tail(@)]
      /\ UNCHANGED <<op, resolved, source, target, device, done, copy, temp, value>>
  BY DEF SubmitTo, commandVars, resolveVars, dataVars
<1>2. target[c] = d /\ o.kind # "read"
  BY <1>1 DEF Bound, Midway
<1>3. \A m : ~OnTheWay(c, m)
  BY <1>1 DEF OnTheWay
<1>4. \A m \in Located(o) : copy[m][d] = value[m]
  BY <1>1, <1>2, <1>3 DEF Data, Arrived
<1>5. \A m \in Touched(o) \ Written(o) :
        ~(o.kind = "copy" /\ m = o.src) => copy[m][d] = value[m]
  BY <1>1, <1>2, <1>4, OpFacts
<1>6. Directory' /\ Carrying' /\ Reading' /\ Exclusive' /\ ContentsKept'
  BY <1>1, <1>5, ExecAdded
<1>7. Arrived'
  <2>1. \A b, m : OnTheWay(b, m) => OnTheWay(b, m)'
    BY <1>1 DEF OnTheWay
  <2> QED BY <1>1, <2>1 DEF Data, Arrived
<1>8. Bound'
  <2>1. /\ \A r \in Queues : \A i \in DOMAIN pending'[r] :
             /\ pending'[r][i] # c
             /\ \E k \in DOMAIN pending[r] : pending'[r][i] = pending[r][k]
        /\ pending' \in [Queues -> Seq(Commands)]
    BY <1>1, PopRing DEF Control
  <2>2. ASSUME NEW r \in Queues, Midway(r)'
        PROVE  pending'[r] = pending[r] /\ Midway(r)
    <3>1. /\ pending'[r] # <<>> /\ 1 \in DOMAIN pending'[r]
          /\ resolved[pending'[r][1]] /\ Head(pending'[r]) = pending'[r][1]
      <4>1. pending'[r] # <<>> /\ resolved[Head(pending'[r])]
        BY <1>1, <2>2 DEF Midway
      <4>2. pending'[r] \in Seq(Commands)
        BY <2>1
      <4> QED BY <4>1, <4>2
    <3>2. PICK k \in DOMAIN pending[r] : pending'[r][1] = pending[r][k]
      BY <2>1, <3>1
    <3>3. resolved[pending[r][k]] /\ pending[r][k] # c
      BY <2>1, <3>1, <3>2
    <3>4. k = 1
      BY <3>3 DEF Control, InRings
    <3>5. pending[q][1] = c
      BY <1>1, HeadFacts DEF Control
    <3>6. r # q
      BY <3>3, <3>4, <3>5
    <3>7. pending \in [Queues -> Seq(Commands)]
      BY DEF Control, TypeOK
    <3> QED BY <1>1, <3>1, <3>6, <3>7 DEF Midway
  <2>3. \A t \in Tasks' : t.what = "exec" /\ op[t.cmd].kind # "read" => t.on = target[t.cmd]
    BY <1>1, <1>2 DEF Bound, ExecTask
  <2> QED BY <1>1, <2>2, <2>3 DEF Bound
<1> QED BY <1>6, <1>7, <1>8 DEF Data

(* A write that its command does on every device covers the object.        *)
LEMMA WritesLatest ==
  ASSUME WholeWrites, Control, Bound, Arrived, Reading, NEW t \in Tasks, t.what = "exec",
         NEW m \in Written(op[t.cmd])
  PROVE  /\ m \in Mems /\ t.on \in Destinations(t.cmd, t.on)
         /\ Destinations(t.cmd, t.on) \subseteq Devices
         /\ \A e \in Destinations(t.cmd, t.on) : Result(t.cmd, t.on, m, e) = value[m] + 1
         /\ WritesAll(t.cmd) => m = op[t.cmd].dst /\ Destinations(t.cmd, t.on) = Devices
<1> DEFINE c == t.cmd
           o == op[c]
           D == Destinations(c, t.on)
<1>1. c \in Commands /\ o \in Ops /\ resolved[c] /\ c \notin done /\ t.on \in Devices
  BY TaskFacts DEF Task
<1>2. m \in Mems /\ m \in Touched(o) /\ o.kind # "read"
  BY <1>1, OpFacts
<1>3. Fresh(c, t.on)
  BY FreshTask
<1>4. t.on = target[c]
  BY <1>2 DEF Bound
<1>5. ~OnTheWay(c, m)
  BY <1>1, <1>2, OpFacts DEF Control, Executing, OnTheWay
<1>6. m \in Located(o) \/ Overwrites(o)
  BY <1>1, WholeFacts
<1>7. m \in Located(o) => copy[m][t.on] = value[m]
  BY <1>1, <1>4, <1>5 DEF Arrived
<1>8. WritesAll(c) => Overwrites(o) /\ m = o.dst /\ D = Devices
  BY <1>1, WholeFacts DEF WritesAll, Destinations
<1>9. ~WritesAll(c) => D = {t.on}
  BY <1>4 DEF Destinations
<1> HIDE DEF D
<1>10. \A e \in D : Result(c, t.on, m, e) = value[m] + 1
  BY <1>3, <1>6, <1>7, <1>8, <1>9 DEF Result
<1> QED BY <1>1, <1>2, <1>8, <1>9, <1>10 DEF D

(* The issuer executes a command: nobody else uses what it writes. *)
LEMMA ExecuteData ==
  ASSUME WholeWrites, Control, Bound, Data, NEW d \in Devices, NEW t, ExecuteTo(d, t)
  PROVE  Bound' /\ Data'
<1> DEFINE c == t.cmd
           o == op[c]
           W == Written(o)
<1>1. /\ t \in Tasks /\ t.on = d /\ t.what = "exec" /\ c \in Commands /\ o \in Ops
      /\ resolved[c] /\ c \notin done
      /\ Tasks' = Tasks \ {t} /\ \A u \in Tasks : u.cmd = c => u = t
      /\ done' = done \cup {c}
      /\ UNCHANGED <<op, resolved, source, target, device, pending, temp>>
  BY DEF ExecuteTo, Taken, commandVars, resolveVars
<1>2. /\ copy' = [m \in Mems |->
                    IF m \notin W THEN copy[m]
                    ELSE [e \in Devices \cup {Host} |->
                            IF e \in Destinations(c, d) THEN Result(c, d, m, e) ELSE copy[m][e]]]
      /\ value' = [m \in Mems |-> IF m \in W THEN value[m] + 1 ELSE value[m]]
      /\ latest' = [m \in Mems |-> IF WritesAll(c) /\ m = o.dst THEN latest[m] \cup Devices
                                                               ELSE latest[m]]
  BY DEF ExecuteTo
<1>3. W \subseteq Touched(o) /\ Touched(o) \subseteq Mems
  BY <1>1, OpFacts
<1>4. ASSUME NEW m \in W
      PROVE  /\ latest'[m] # {} /\ d \in latest'[m] /\ latest'[m] \subseteq Devices
             /\ \A e \in latest'[m] : copy'[m][e] = value'[m]
  <2>1. /\ m \in Mems /\ d \in Destinations(c, d) /\ Destinations(c, d) \subseteq Devices
        /\ \A e \in Destinations(c, d) : Result(c, d, m, e) = value[m] + 1
        /\ WritesAll(c) => m = o.dst /\ Destinations(c, d) = Devices
    BY <1>1, WritesLatest DEF Data
  <2>2. latest[m] = {d}
    BY <1>1 DEF Data, Exclusive
  <2>3. \A e \in Destinations(c, d) : copy'[m][e] = value'[m]
    BY <1>2, <2>1
  <2>4. latest'[m] = IF WritesAll(c) THEN Devices ELSE {d}
    BY <1>2, <2>1, <2>2
  <2> QED BY <2>1, <2>3, <2>4
<1>5. ASSUME NEW m \in Mems \ W
      PROVE  copy'[m] = copy[m] /\ value'[m] = value[m] /\ latest'[m] = latest[m]
  <2>1. ~(WritesAll(c) /\ m = o.dst)
    BY <1>1, <1>5 DEF WritesAll, Written
  <2> QED BY <1>2, <1>5, <2>1
(* What other commands in progress use is not written. *)
<1>6. ASSUME NEW b \in Commands, b # c, resolved[b], b \notin done, NEW m \in Touched(op[b])
      PROVE  m \in Mems \ W
  <2>1. op[b] \in Ops
    BY <1>6 DEF Control, Begun, TypeOK
  <2>2. m \in Mems
    BY <2>1, OpFacts
  <2>3. m \notin Touched(o)
    BY <1>1, <1>6, Apart
  <2> QED BY <1>3, <2>2, <2>3
<1>7. ASSUME NEW u \in Tasks'
      PROVE  /\ u \in Tasks /\ u # t /\ u.cmd \in Commands /\ u.cmd # c /\ op[u.cmd] \in Ops
             /\ resolved[u.cmd] /\ u.cmd \notin done
             /\ \A m \in Touched(op[u.cmd]) : m \in Mems \ W
             /\ u.what # "exec" => u.mem \in Mems \ W
  <2>1. u \in Tasks /\ u # t /\ u.cmd # c
    BY <1>1, <1>7
  <2>2. /\ u.cmd \in Commands /\ op[u.cmd] \in Ops /\ resolved[u.cmd] /\ u.cmd \notin done
        /\ u.what # "exec" => u.mem \in Touched(op[u.cmd])
    BY <2>1, TaskFacts
  <2>3. \A m \in Touched(op[u.cmd]) : m \in Mems \ W
    BY <1>6, <2>1, <2>2
  <2> QED BY <2>1, <2>2, <2>3
<1>8. Directory'
  <2>1. ASSUME NEW m \in Mems \ W, NEW e
        PROVE  (Moved(m, e) => Moved(m, e)') /\ (Promised(m, e) => Promised(m, e)')
    BY <1>1, <2>1 DEF Moved, Promised
  <2>2. ASSUME NEW m \in Mems
        PROVE  /\ \A e \in latest'[m] :
                    copy'[m][e] = value'[m] \/ Moved(m, e)' \/ Promised(m, e)'
               /\ latest'[m] = {} => \A e \in Devices : copy'[m][e] = value'[m]
    <3>1. CASE m \in W
      BY <1>4, <3>1
    <3>2. CASE m \notin W
      <4>1. copy'[m] = copy[m] /\ value'[m] = value[m] /\ latest'[m] = latest[m]
        BY <1>5, <2>2, <3>2
      <4> QED BY <2>1, <2>2, <3>2, <4>1 DEF Data, Directory
    <3> QED BY <3>1, <3>2
  <2> QED BY <2>2 DEF Directory
<1>9. Carrying'
  <2>1. ASSUME NEW u \in Tasks'
        PROVE  /\ u.what \in {"copy", "read"} => copy'[u.mem][u.from] = value'[u.mem]
               /\ u.what = "write" => temp[<<u.cmd, u.mem>>] = value'[u.mem]
               /\ u.what # "exec" =>
                    (u.to = None <=> op[u.cmd].kind = "copy" /\ u.mem = op[u.cmd].src)
    <3>1. u.what # "exec" => copy'[u.mem] = copy[u.mem] /\ value'[u.mem] = value[u.mem]
      BY <1>5, <1>7
    <3> QED BY <1>7, <3>1 DEF Data, Carrying
  <2> QED BY <1>1, <2>1 DEF Carrying
<1>10. Arrived'
  <2>1. ASSUME NEW b \in Commands, resolved[b], b \notin done'
        PROVE  /\ target[b] \in Devices
               /\ \A m \in Located(op[b]) : copy'[m][target[b]] = value'[m] \/ OnTheWay(b, m)'
               /\ op[b].kind = "copy" /\ source[b] = None =>
                    temp[<<b, op[b].src>>] = value'[op[b].src] \/ OnTheWay(b, op[b].src)'
               /\ op[b].kind = "copy" /\ source[b] # None =>
                    copy'[op[b].src][source[b]] = value'[op[b].src]
    <3>1. b # c /\ b \notin done
      BY <1>1, <2>1
    <3>2. op[b] \in Ops
      BY <2>1 DEF Control, Begun, TypeOK
    <3>3. /\ Located(op[b]) \subseteq Touched(op[b])
          /\ op[b].kind = "copy" => op[b].src \in Touched(op[b])
      BY <3>2, OpFacts
    <3>4. \A m \in Touched(op[b]) : copy'[m] = copy[m] /\ value'[m] = value[m]
      BY <1>5, <1>6, <2>1, <3>1
    <3>5. \A m : OnTheWay(b, m) => OnTheWay(b, m)'
      BY <1>1, <3>1 DEF OnTheWay
    <3>6. /\ target[b] \in Devices
          /\ \A m \in Located(op[b]) : copy[m][target[b]] = value[m] \/ OnTheWay(b, m)
          /\ op[b].kind = "copy" /\ source[b] = None =>
               temp[<<b, op[b].src>>] = value[op[b].src] \/ OnTheWay(b, op[b].src)
          /\ op[b].kind = "copy" /\ source[b] # None =>
               copy[op[b].src][source[b]] = value[op[b].src]
      BY <2>1, <3>1 DEF Data, Arrived
    <3> QED BY <1>1, <3>3, <3>4, <3>5, <3>6
  <2> QED BY <1>1, <2>1 DEF Arrived
<1>11. Reading'
  <2>1. ASSUME NEW u \in Tasks', u.what = "exec", op[u.cmd].kind = "read"
        PROVE  copy'[op[u.cmd].src][u.on] = value'[op[u.cmd].src]
    <3>1. op[u.cmd].src \in Touched(op[u.cmd])
      BY <1>7, <2>1, OpFacts
    <3>2. copy'[op[u.cmd].src] = copy[op[u.cmd].src] /\ value'[op[u.cmd].src] = value[op[u.cmd].src]
      BY <1>5, <1>7, <3>1
    <3> QED BY <1>7, <2>1, <3>2 DEF Data, Reading
  <2> QED BY <1>1, <2>1 DEF Reading
<1>12. Exclusive'
  <2>1. ASSUME NEW u \in Tasks', u.what = "exec", NEW m \in Written(op[u.cmd])
        PROVE  latest'[m] = {u.on}
    <3>1. m \in Touched(op[u.cmd])
      BY <1>7, OpFacts
    <3>2. latest'[m] = latest[m]
      BY <1>5, <1>7, <3>1
    <3> QED BY <1>7, <2>1, <3>2 DEF Data, Exclusive
  <2> QED BY <1>1, <2>1 DEF Exclusive
<1>13. ContentsKept'
  <2>1. \A m \in Mems : m \in W => \E e \in Devices \cup {Host} : copy'[m][e] = value'[m]
    BY <1>4
  <2>2. \A m \in Mems : m \notin W => copy'[m] = copy[m] /\ value'[m] = value[m]
    BY <1>5
  <2> QED BY <2>1, <2>2 DEF Data, ContentsKept
<1>14. Bound'
  BY <1>1 DEF Bound, Midway
<1> QED BY <1>8, <1>9, <1>10, <1>11, <1>12, <1>13, <1>14 DEF Data

(* What a transfer does to the contents: it makes copies the latest, and   *)
(* when it is complete its destination is. *)
Brought(t) ==
  /\ \A m \in Mems, e \in Devices \cup {Host} :
       copy'[m][e] = copy[m][e] \/ (m = t.mem /\ copy'[m][e] = value[m])
  /\ \A j \in Transferred : temp'[j] = temp[j] \/ (j = <<t.cmd, t.mem>> /\ temp'[j] = value[t.mem])
  /\ \/ /\ Tasks' = (Tasks \ {t}) \cup {WriteAfter(t)} /\ t.what = "read"
        /\ temp'[<<t.cmd, t.mem>>] = value[t.mem]
     \/ /\ Tasks' = Tasks \ {t}
        /\ t.to # None => copy'[t.mem][t.to] = value[t.mem]
        /\ t.to = None => temp'[<<t.cmd, t.mem>>] = value[t.mem]
  /\ \A m \in Mems : /\ m # t.mem => latest'[m] = latest[m]
                     /\ \A e \in latest'[m] : e \in latest[m] \/ copy'[m][e] = value[m]
                     /\ latest'[m] = {} => latest[m] = {}

(* Each kind of transfer does that, because it carries the latest contents. *)
LEMMA TransferBrings ==
  ASSUME Control, Carrying, NEW d \in Devices, NEW t, t = Head(ready[d]), Transfer(d)
  PROVE  Brought(t)
<1> DEFINE k == <<t.cmd, t.mem>>
           all == t.what = "write" /\ OnEveryDevice(t.mem)
<1>1. /\ t \in Tasks /\ t.on = d /\ t.cmd \in Commands /\ t.what \in {"copy", "read", "write"}
      /\ t.mem \in Mems
      /\ \/ /\ t.what = "read" /\ t.to # None
            /\ Tasks' = (Tasks \ {t}) \cup {WriteAfter(t)}
         \/ /\ ~(t.what = "read" /\ t.to # None)
            /\ Tasks' = Tasks \ {t}
  BY TransferTakes DEF Taken
<1>2. /\ copy' = CASE t.what = "copy"  -> [copy EXCEPT ![t.mem][d] = copy[t.mem][t.from]]
                   [] t.what = "write" -> [copy EXCEPT ![t.mem] =
                        [e \in Devices \cup {Host} |->
                           IF e = d \/ (all /\ e # Host) THEN temp[k] ELSE @[e]]]
                   [] OTHER -> copy
      /\ latest' = IF all THEN [latest EXCEPT ![t.mem] = @ \cup Devices] ELSE latest
      /\ temp' = IF t.what = "read" THEN [temp EXCEPT ![k] = copy[t.mem][d]] ELSE temp
  BY DEF Transfer
<1>3. /\ t.what \in {"copy", "read"} => copy[t.mem][t.from] = value[t.mem]
      /\ t.what = "write" => temp[k] = value[t.mem]
  BY <1>1 DEF Carrying
<1>4. /\ t.what = "read" => t.from = d
      /\ t.what \in {"copy", "write"} => t.to = d
  BY <1>1 DEF Control, Moving
<1>5. /\ copy \in [Mems -> [Devices \cup {Host} -> Versions]] /\ temp \in [Transferred -> Versions]
      /\ latest \in [Mems -> SUBSET (Devices \cup {Host})]
      /\ k \in Transferred /\ Host \notin Devices /\ None \notin Devices
  BY <1>1, MemAssumption DEF Control, TypeOK, Transferred
<1>6. CASE t.what = "copy"
  <2>1. copy' = [copy EXCEPT ![t.mem][d] = value[t.mem]] /\ latest' = latest /\ temp' = temp
    BY <1>2, <1>3, <1>6
  <2>2. copy'[t.mem][d] = value[t.mem] /\ t.to = d /\ d # None
    BY <1>1, <1>4, <1>5, <1>6, <2>1
  <2>3. \A m \in Mems, e \in Devices \cup {Host} :
          copy'[m][e] = copy[m][e] \/ (m = t.mem /\ copy'[m][e] = value[m])
    BY <1>1, <1>5, <2>1
  <2> QED BY <1>1, <1>6, <2>1, <2>2, <2>3 DEF Brought
<1>7. CASE t.what = "read"
  <2>1. copy' = copy /\ latest' = latest /\ temp' = [temp EXCEPT ![k] = value[t.mem]]
    BY <1>2, <1>3, <1>4, <1>7
  <2>2. temp'[k] = value[t.mem]
    BY <1>5, <2>1
  <2>3. \A j \in Transferred : temp'[j] = temp[j] \/ (j = k /\ temp'[j] = value[t.mem])
    BY <1>5, <2>1
  <2> QED BY <1>1, <1>7, <2>1, <2>2, <2>3 DEF Brought
<1>8. CASE t.what = "write"
  <2> DEFINE g == [e \in Devices \cup {Host} |->
                     IF e = d \/ (all /\ e # Host) THEN value[t.mem] ELSE copy[t.mem][e]]
  <2>1. copy' = [copy EXCEPT ![t.mem] = g] /\ temp' = temp
    BY <1>1, <1>2, <1>3, <1>5, <1>8
  <2>2. copy'[t.mem] = g /\ \A m \in Mems : m # t.mem => copy'[m] = copy[m]
    BY <1>1, <1>5, <2>1
  <2>3. /\ \A e \in Devices \cup {Host} : g[e] = copy[t.mem][e] \/ g[e] = value[t.mem]
        /\ g[d] = value[t.mem]
        /\ all => \A e \in Devices : g[e] = value[t.mem]
    BY <1>5
  <2>4. /\ \A m \in Mems : m # t.mem => latest'[m] = latest[m]
        /\ latest'[t.mem] = IF all THEN latest[t.mem] \cup Devices ELSE latest[t.mem]
    BY <1>1, <1>2, <1>5
  <2> HIDE DEF g, all
  <2>5. t.to = d /\ d # None
    BY <1>4, <1>5, <1>8
  <2>6. \A m \in Mems, e \in Devices \cup {Host} :
          copy'[m][e] = copy[m][e] \/ (m = t.mem /\ copy'[m][e] = value[m])
    BY <2>2, <2>3
  <2>7. ASSUME NEW m \in Mems
        PROVE  /\ m # t.mem => latest'[m] = latest[m]
               /\ \A e \in latest'[m] : e \in latest[m] \/ copy'[m][e] = value[m]
               /\ latest'[m] = {} => latest[m] = {}
    BY <2>2, <2>3, <2>4, <2>7
  <2> QED BY <1>1, <1>8, <2>1, <2>2, <2>3, <2>5, <2>6, <2>7 DEF Brought
<1> QED BY <1>1, <1>6, <1>7, <1>8

(* A transfer keeps what is the latest the latest, and what was on its way *)
(* has arrived or still is. *)
LEMMA TransferData ==
  ASSUME Control, Control', Bound, Data, NEW d \in Devices, Transfer(d)
  PROVE  Bound' /\ Data'
<1> DEFINE t == Head(ready[d])
           w == WriteAfter(t)
<1>1. /\ t \in Task /\ t \in Tasks /\ t.cmd \in Commands /\ op[t.cmd] \in Ops
      /\ resolved[t.cmd] /\ t.cmd \notin done
      /\ t.what # "exec" /\ t.mem \in Mems /\ t.mem \in Touched(op[t.cmd])
      /\ \A u \in Tasks : u.cmd = t.cmd => u.what # "exec"
      /\ \A b \in Commands : b \in done' <=> b \in done
  <2>1. /\ Taken(d, t) /\ t.what \in {"copy", "read", "write"} /\ t.mem \in Mems
        /\ t.mem \in Touched(op[t.cmd])
        /\ \A u \in Tasks : u.cmd = t.cmd => u.what # "exec"
        /\ done' = done \/ done' = done \cup {<<t.cmd, t.mem>>}
    BY TransferTakes
  <2>2. <<t.cmd, t.mem>> \notin Commands
    BY <2>1, KeyNotCommand DEF Taken
  <2> QED BY <2>1, <2>2 DEF Taken
<1>2. UNCHANGED <<op, resolved, source, target, device, pending, value>>
  BY DEF Transfer, commandVars, resolveVars
<1>3. Brought(t)
  BY TransferBrings DEF Data
<1> HIDE DEF t
<1>4. w.what = "write" /\ w.cmd = t.cmd /\ w.mem = t.mem /\ w.to = t.to
  BY <1>1 DEF WriteAfter, Task
<1> HIDE DEF w
<1>5. /\ target \in [Commands -> Devices \cup {None}] /\ source \in [Commands -> Devices \cup {None}]
      /\ latest \in [Mems -> SUBSET (Devices \cup {Host})]
      /\ None \notin Devices \cup {Host}
  BY MemAssumption DEF Control, TypeOK
<1>6. \A m \in Mems, e \in Devices \cup {Host} : copy[m][e] = value[m] => copy'[m][e] = value[m]
  BY <1>3 DEF Brought
<1>7. \A b \in Commands, m \in Mems :
        temp[<<b, m>>] = value[m] => temp'[<<b, m>>] = value[m]
  <2>1. \A b \in Commands, m \in Mems : <<b, m>> \in Transferred
    BY DEF Transferred
  <2> QED BY <1>3, <2>1 DEF Brought
<1>8. \/ /\ Tasks' = (Tasks \ {t}) \cup {w} /\ t.what = "read"
         /\ temp'[<<t.cmd, t.mem>>] = value[t.mem]
      \/ /\ Tasks' = Tasks \ {t}
         /\ t.to # None => copy'[t.mem][t.to] = value[t.mem]
         /\ t.to = None => temp'[<<t.cmd, t.mem>>] = value[t.mem]
  BY <1>3 DEF Brought, w
<1>9. \A u \in Tasks' : (u \in Tasks /\ u # t) \/ (u = w /\ temp'[<<t.cmd, t.mem>>] = value[t.mem])
  BY <1>8
<1>10. \A u \in Tasks' : u.what = "exec" => u \in Tasks /\ u.cmd # t.cmd
  BY <1>1, <1>4, <1>9
<1>11. \A m, e : Moved(m, e) => Moved(m, e)' \/ (m = t.mem /\ e = t.to /\ Tasks' = Tasks \ {t})
  <2>1. ASSUME NEW m, NEW e, NEW u \in Tasks, u.what # "exec", u.mem = m, u.to = e
        PROVE  Moved(m, e)' \/ (m = t.mem /\ e = t.to /\ Tasks' = Tasks \ {t})
    <3>1. CASE u # t
      <4>1. u \in Tasks'
        BY <1>8, <3>1
      <4> QED BY <2>1, <4>1 DEF Moved
    <3>2. CASE u = t /\ w \in Tasks'
      BY <1>4, <2>1, <3>2 DEF Moved
    <3>3. CASE u = t /\ w \notin Tasks'
      BY <1>8, <2>1, <3>3
    <3> QED BY <3>1, <3>2, <3>3
  <2> QED BY <2>1 DEF Moved
<1>12. \A m, e : Promised(m, e) => Promised(m, e)'
  <2>1. \A u \in Tasks : u.what = "exec" => u \in Tasks'
    BY <1>1, <1>8
  <2> QED BY <1>2, <2>1 DEF Promised
<1>13. Directory'
  <2>1. ASSUME NEW m \in Mems
        PROVE  /\ \A e \in latest'[m] :
                    copy'[m][e] = value[m] \/ Moved(m, e)' \/ Promised(m, e)'
               /\ latest'[m] = {} => \A e \in Devices : copy'[m][e] = value[m]
    <3>1. ASSUME NEW e \in latest'[m]
          PROVE  copy'[m][e] = value[m] \/ Moved(m, e)' \/ Promised(m, e)'
      <4>1. CASE copy'[m][e] = value[m]
        BY <4>1
      <4>2. CASE e \in latest[m]
        <5>1. e \in Devices \cup {Host} /\ e # None
          BY <1>5, <2>1, <4>2
        <5>2. copy[m][e] = value[m] \/ Moved(m, e) \/ Promised(m, e)
          BY <2>1, <4>2 DEF Data, Directory
        <5>3. Moved(m, e) => Moved(m, e)' \/ copy'[m][e] = value[m]
          <6>1. m = t.mem /\ e = t.to /\ Tasks' = Tasks \ {t} /\ ~Moved(m, e)'
                  => copy'[m][e] = value[m]
            <7>1. w \in Tasks' /\ m = t.mem /\ e = t.to => Moved(m, e)'
              BY <1>4 DEF Moved
            <7> QED BY <1>8, <5>1, <7>1
          <6> QED BY <1>11, <6>1
        <5> QED BY <1>6, <1>12, <2>1, <5>1, <5>2, <5>3
      <4>3. e \in latest[m] \/ copy'[m][e] = value[m]
        BY <1>3, <2>1 DEF Brought
      <4> QED BY <4>1, <4>2, <4>3
    <3>2. latest'[m] = {} => latest[m] = {}
      BY <1>3, <2>1 DEF Brought
    <3>3. latest[m] = {} => \A e \in Devices : copy[m][e] = value[m]
      BY <2>1 DEF Data, Directory
    <3> QED BY <1>6, <2>1, <3>1, <3>2, <3>3
  <2> QED BY <1>2, <2>1 DEF Directory
<1>14. Carrying'
  <2>1. ASSUME NEW u \in Tasks'
        PROVE  /\ u.what \in {"copy", "read"} => copy'[u.mem][u.from] = value[u.mem]
               /\ u.what = "write" => temp'[<<u.cmd, u.mem>>] = value[u.mem]
               /\ u.what # "exec" =>
                    (u.to = None <=> op[u.cmd].kind = "copy" /\ u.mem = op[u.cmd].src)
    <3>1. CASE u \in Tasks
      <4>1. /\ u.cmd \in Commands
            /\ u.what # "exec" => u.mem \in Mems
            /\ u.what \in {"copy", "read"} => u.from \in Devices
        BY <3>1, TaskFacts DEF Control, Moving
      <4>2. /\ u.what \in {"copy", "read"} => copy[u.mem][u.from] = value[u.mem]
            /\ u.what = "write" => temp[<<u.cmd, u.mem>>] = value[u.mem]
            /\ u.what # "exec" =>
                 (u.to = None <=> op[u.cmd].kind = "copy" /\ u.mem = op[u.cmd].src)
        BY <3>1 DEF Data, Carrying
      <4> QED BY <1>6, <1>7, <4>1, <4>2
    <3>2. CASE u = w /\ temp'[<<t.cmd, t.mem>>] = value[t.mem]
      <4>1. t.to = None <=> op[t.cmd].kind = "copy" /\ t.mem = op[t.cmd].src
        BY <1>1 DEF Data, Carrying
      <4> QED BY <1>4, <3>2, <4>1
    <3> QED BY <1>9, <3>1, <3>2
  <2> QED BY <1>2, <2>1 DEF Carrying
<1>15. Arrived'
  <2>1. ASSUME NEW b \in Commands, NEW m, OnTheWay(b, m), ~OnTheWay(b, m)'
        PROVE  b = t.cmd /\ m = t.mem /\ Tasks' = Tasks \ {t}
    <3>1. PICK u \in Tasks : u.cmd = b /\ u.mem = m
      BY <2>1 DEF OnTheWay
    <3>2. u \notin Tasks' /\ (w \in Tasks' => w.cmd # b \/ w.mem # m)
      BY <2>1, <3>1 DEF OnTheWay
    <3> QED BY <1>4, <1>8, <3>1, <3>2
  <2>2. t.to \in {None, target[t.cmd]}
        /\ (t.to = None <=> op[t.cmd].kind = "copy" /\ t.mem = op[t.cmd].src)
    BY <1>1 DEF Data, Carrying, Control, Moving
  <2>3. ASSUME NEW b \in Commands, resolved[b], b \notin done
        PROVE  /\ target[b] \in Devices
               /\ \A m \in Located(op[b]) : copy'[m][target[b]] = value[m] \/ OnTheWay(b, m)'
               /\ op[b].kind = "copy" /\ source[b] = None =>
                    temp'[<<b, op[b].src>>] = value[op[b].src] \/ OnTheWay(b, op[b].src)'
               /\ op[b].kind = "copy" /\ source[b] # None =>
                    copy'[op[b].src][source[b]] = value[op[b].src]
    <3>1. op[b] \in Ops
      BY <2>3 DEF Control, Begun, TypeOK
    <3>2. /\ Located(op[b]) \subseteq Mems
          /\ op[b].kind = "copy" => op[b].src \in Mems /\ op[b].src \notin Located(op[b])
      BY <3>1, OpFacts
    <3>3. /\ \A m \in Located(op[b]) : copy[m][target[b]] = value[m] \/ OnTheWay(b, m)
          /\ op[b].kind = "copy" /\ source[b] = None =>
               temp[<<b, op[b].src>>] = value[op[b].src] \/ OnTheWay(b, op[b].src)
          /\ op[b].kind = "copy" /\ source[b] # None =>
               copy[op[b].src][source[b]] = value[op[b].src]
      BY <2>3 DEF Data, Arrived
    <3>4. target[b] \in Devices
      BY <2>3 DEF Data, Arrived
    <3>5. ASSUME NEW m \in Located(op[b])
          PROVE  copy'[m][target[b]] = value[m] \/ OnTheWay(b, m)'
      <4>1. CASE copy[m][target[b]] = value[m]
        BY <1>6, <3>2, <3>4, <4>1
      <4>2. CASE OnTheWay(b, m) /\ ~OnTheWay(b, m)'
        <5>1. b = t.cmd /\ m = t.mem /\ Tasks' = Tasks \ {t}
          BY <2>1, <4>2
        <5>2. t.to # None /\ t.to = target[b]
          BY <2>2, <3>2, <3>5, <5>1
        <5>3. w \notin Tasks'
          BY <1>4, <4>2, <5>1 DEF OnTheWay
        <5> QED BY <1>8, <5>1, <5>2, <5>3
      <4> QED BY <3>3, <3>5, <4>1, <4>2
    <3>6. ASSUME op[b].kind = "copy", source[b] = None
          PROVE  temp'[<<b, op[b].src>>] = value[op[b].src] \/ OnTheWay(b, op[b].src)'
      <4> DEFINE m == op[b].src
      <4>1. CASE temp[<<b, m>>] = value[m]
        BY <1>7, <3>2, <3>6, <4>1
      <4>2. CASE OnTheWay(b, m) /\ ~OnTheWay(b, m)'
        <5>1. b = t.cmd /\ m = t.mem
          BY <1>2, <2>1, <4>2
        <5>2. t.to = None
          BY <2>2, <3>6, <5>1
        <5> QED BY <1>8, <5>1, <5>2
      <4> QED BY <1>2, <3>3, <3>6, <4>1, <4>2
    <3>7. ASSUME op[b].kind = "copy", source[b] # None
          PROVE  copy'[op[b].src][source[b]] = value[op[b].src]
      <4>1. source[b] \in Devices
        BY <1>5, <3>7
      <4> QED BY <1>6, <3>2, <3>3, <3>7, <4>1
    <3> QED BY <3>4, <3>5, <3>6, <3>7
  <2> QED BY <1>1, <1>2, <2>3 DEF Arrived
<1>16. Reading'
  <2>1. ASSUME NEW u \in Tasks', u.what = "exec", op[u.cmd].kind = "read"
        PROVE  copy'[op[u.cmd].src][u.on] = value[op[u.cmd].src]
    <3>1. u \in Tasks /\ u.on \in Devices /\ op[u.cmd] \in Ops
      BY <1>10, <2>1, TaskFacts DEF Task
    <3>2. op[u.cmd].src \in Mems
      BY <2>1, <3>1, OpFacts
    <3> QED BY <1>6, <2>1, <3>1, <3>2 DEF Data, Reading
  <2> QED BY <1>2, <2>1 DEF Reading
<1>17. Exclusive'
  <2>1. ASSUME NEW u \in Tasks', u.what = "exec", NEW m \in Written(op[u.cmd])
        PROVE  latest'[m] = {u.on}
    <3>1. /\ u \in Tasks /\ u.cmd # t.cmd /\ u.cmd \in Commands /\ op[u.cmd] \in Ops
          /\ resolved[u.cmd] /\ u.cmd \notin done
      BY <1>10, <2>1, TaskFacts
    <3>2. m \in Mems /\ m \in Touched(op[u.cmd])
      BY <3>1, OpFacts
    <3>3. m # t.mem
      BY <1>1, <3>1, <3>2, Apart
    <3> QED BY <1>3, <2>1, <3>1, <3>2, <3>3 DEF Data, Exclusive, Brought
  <2> QED BY <1>2, <2>1 DEF Exclusive
<1>18. ContentsKept'
  BY <1>2, <1>6 DEF Data, ContentsKept
<1>19. Bound'
  BY <1>2, <1>10 DEF Bound, Midway
<1> QED BY <1>13, <1>14, <1>15, <1>16, <1>17, <1>18, <1>19 DEF Data

(* All copies are version 0, or not yet made; nothing is under way. *)
LEMMA DataInitially ==
  ASSUME Init
  PROVE  Bound /\ Data
<1>1. Tasks = {} /\ \A c \in Commands : ~resolved[c]
  BY ControlInitially DEF Init
<1>2. \A q \in Queues : pending[q] = <<>>
  BY DEF Init
<1>3. Host \notin Devices
  BY MemAssumption
<1>4. /\ latest = [m \in Mems |-> IF m \in HostInit THEN {Host} ELSE {}]
      /\ copy = [m \in Mems |-> [d \in Devices \cup {Host} |->
                   IF m \in HostInit /\ d # Host THEN None ELSE 0]]
      /\ value = [m \in Mems |-> 0]
  BY DEF Init
<1>5. Directory /\ ContentsKept
  BY <1>3, <1>4 DEF Directory, ContentsKept
<1>6. Bound
  BY <1>1, <1>2 DEF Bound, Midway
<1>7. Carrying /\ Arrived /\ Reading /\ Exclusive
  BY <1>1 DEF Carrying, Arrived, Reading, Exclusive
<1> QED BY <1>5, <1>6, <1>7 DEF Data

(* The inductive step: Rebind is where ~RebindMidway is needed, Execute    *)
(* where WholeWrites is. *)
LEMMA DataStep ==
  ASSUME ~RebindMidway, WholeWrites, Control, Control', Bound, Data, [Next]_vars
  PROVE  Bound' /\ Data'
<1>1. ASSUME NEW q \in Queues, NEW c \in Commands, NEW o \in Ops, Enqueue(q, c, o)
      PROVE  Bound' /\ Data'
  <2>1. /\ \A b \in Commands : b # c => op'[b] = op[b]
        /\ ~resolved[c] /\ \A t \in Tasks : t.cmd # c
        /\ \A r \in Queues : pending[r] # <<>> =>
             Head(pending'[r]) = Head(pending[r]) /\ pending'[r] # <<>>
        /\ \A r \in Queues : pending[r] = <<>> /\ pending'[r] # <<>> => Head(pending'[r]) = c
    BY <1>1, EnqueueControl
  <2>2. UNCHANGED <<resolved, source, target, device, ready, done, latest, copy, temp, value>>
    BY <1>1 DEF Enqueue, dataVars
  <2>3. Data'
    BY <2>1, <2>2, DataFrame
  <2>4. \A r \in Queues : Midway(r)' =>
          /\ Midway(r) /\ Head(pending'[r]) = Head(pending[r])
          /\ op'[Head(pending[r])] = op[Head(pending[r])]
    <3>1. ASSUME NEW r \in Queues, Midway(r)'
          PROVE  /\ Midway(r) /\ Head(pending'[r]) = Head(pending[r])
                 /\ op'[Head(pending[r])] = op[Head(pending[r])]
      <4>1. pending'[r] # <<>> /\ resolved[Head(pending'[r])]
        BY <2>2, <3>1 DEF Midway
      <4>2. pending[r] # <<>> /\ Head(pending'[r]) = Head(pending[r])
        BY <2>1, <4>1
      <4>3. Head(pending[r]) \in Commands /\ Head(pending[r]) # c
        BY <2>1, <4>1, <4>2, HeadFacts DEF Control
      <4> QED BY <2>1, <4>1, <4>2, <4>3 DEF Midway
    <3> QED BY <3>1
  <2>5. \A t \in Tasks : t.cmd \in Commands /\ op'[t.cmd] = op[t.cmd]
    BY <2>1, TaskFacts
  <2>6. Tasks' = Tasks
    BY <2>2 DEF Tasks
  <2>7. Bound'
    BY <2>2, <2>4, <2>5, <2>6 DEF Bound
  <2> QED BY <2>3, <2>7
<1>2. ASSUME NEW q \in Queues, NEW d \in Devices, Rebind(q, d)
      PROVE  Bound' /\ Data'
  <2>1. /\ ~Midway(q) /\ device' = [device EXCEPT ![q] = d]
        /\ UNCHANGED <<op, resolved, source, target, pending, ready, done, latest, copy, temp, value>>
    BY <1>2 DEF Rebind, commandVars, resolveVars, dataVars
  <2>2. Data'
    BY <2>1, DataFrame
  <2>3. \A r \in Queues : Midway(r)' => Midway(r) /\ device'[r] = device[r]
    <3>1. device \in [Queues -> Devices]
      BY DEF Control, TypeOK
    <3> QED BY <2>1, <3>1 DEF Midway
  <2>4. Tasks' = Tasks
    BY <2>1 DEF Tasks
  <2> QED BY <2>1, <2>2, <2>3, <2>4 DEF Bound
<1>3. ASSUME UNCHANGED <<op, resolved, source, target, device, pending, ready, done, latest, copy,
                         temp, value>>
      PROVE  Bound' /\ Data'
  <2>1. Data'
    BY <1>3, DataFrame
  <2>2. Tasks' = Tasks
    BY <1>3 DEF Tasks
  <2> QED BY <1>3, <2>1, <2>2 DEF Bound, Midway
<1>4. ASSUME NEW q \in Queues, Resolve(q)
      PROVE  Bound' /\ Data'
  <2>1. CASE /\ crashed' = TRUE
             /\ UNCHANGED <<commandVars, resolveVars, device, last, pending, ready, done, latest,
                            dataVars>>
    BY <1>3, <2>1 DEF commandVars, resolveVars, dataVars
  <2> QED BY <1>4, <2>1, ResolveFacts, ResolveData
<1>5. ASSUME NEW q \in Queues, Submit(q)
      PROVE  Bound' /\ Data'
  BY <1>5, SubmitFacts, SubmitData
<1>6. ASSUME NEW d \in Devices, Execute(d)
      PROVE  Bound' /\ Data'
  BY <1>6, ExecuteFacts, ExecuteData
<1>7. ASSUME NEW d \in Devices, Transfer(d)
      PROVE  Bound' /\ Data'
  BY <1>7, TransferData
<1>8. CASE UNCHANGED vars
  BY <1>3, <1>8 DEF vars, commandVars, resolveVars, dataVars
<1> QED BY <1>1, <1>2, <1>4, <1>5, <1>6, <1>7, <1>8 DEF Next

-----------------------------------------------------------------------------
(* The theorems *)

(* The state of commands, rings and ready queues is consistent, however    *)
(* queues change devices: of two commands that use a memory object in      *)
(* common one is complete or has not been touched by the scheduler, a      *)
(* transfer belongs to a resolved command that waits for it, and a         *)
(* submitted command has no transfers left. *)
THEOREM ControlInvariant == Spec => []Control
<1>1. Init => Control
  BY ControlInitially
<1>2. Control /\ [Next]_vars => Control'
  BY ControlStep
<1> QED BY <1>1, <1>2, PTL DEF Spec

(* Type correctness of MemConsistency, on all devices and for all          *)
(* commands. *)
THEOREM TypeCorrect == Spec => []TypeOK
<1>1. Control => TypeOK
  BY DEF Control
<1> QED BY <1>1, ControlInvariant, PTL

(* The inductive invariant of the contents: what dev_latest_ lists is the  *)
(* latest, or is being moved or written, and every transfer takes the      *)
(* latest contents with it. *)
THEOREM MemInvariant ==
  ASSUME ~RebindMidway, WholeWrites
  PROVE  Spec => []MemInv
<1>1. Init => MemInv
  BY ControlInitially, DataInitially DEF MemInv
<1>2. MemInv /\ [Next]_vars => MemInv'
  BY ControlStep, DataStep DEF MemInv
<1> QED BY <1>1, <1>2, PTL DEF Spec

(* ResolveConsistency(): a command that is executed finds, on its device,  *)
(* the latest contents of everything it needs. *)
THEOREM AlwaysFresh ==
  ASSUME ~RebindMidway, WholeWrites
  PROVE  Spec => []FreshData
<1>1. MemInv => FreshData
  <2> SUFFICES ASSUME MemInv, NEW d \in Devices, ready[d] # <<>>, Head(ready[d]).what = "exec"
               PROVE  Fresh(Head(ready[d]).cmd, d)
    BY DEF FreshData
  <2>1. Head(ready[d]) \in Tasks /\ Head(ready[d]).on = d
    BY TakenFacts DEF MemInv, Taken
  <2> QED BY <2>1, FreshTask DEF MemInv, Data
<1> QED BY <1>1, MemInvariant, PTL

(* When nothing that concerns a memory object is on its way, every device  *)
(* that dev_latest_ lists holds its latest contents. *)
THEOREM DirectoryCorrect ==
  ASSUME ~RebindMidway, WholeWrites
  PROVE  Spec => []DirectoryRight
<1>1. MemInv => DirectoryRight
  <2> SUFFICES ASSUME MemInv, NEW m \in Mems, Quiet(m), NEW e \in latest[m]
               PROVE  copy[m][e] = value[m]
    BY DEF DirectoryRight
  <2>1. \A t \in Tasks : t.mem # m /\ (t.what = "exec" => m \notin Touched(op[t.cmd]))
    BY DEF Quiet, Tasks, TasksOf
  <2>2. \A t \in Tasks : t.what = "exec" => m \notin Written(op[t.cmd])
    <3>1. \A t \in Tasks : op[t.cmd] \in Ops
      BY TaskFacts DEF MemInv
    <3> QED BY <2>1, <3>1, OpFacts
  <2>3. ~Moved(m, e) /\ ~Promised(m, e)
    BY <2>1, <2>2 DEF Moved, Promised
  <2> QED BY <2>3 DEF MemInv, Data, Directory
<1> QED BY <1>1, MemInvariant, PTL

(* The latest contents of a memory object are never lost: some copy holds  *)
(* them at every moment. *)
THEOREM NothingLost ==
  ASSUME ~RebindMidway, WholeWrites
  PROVE  Spec => []ContentsKept
<1>1. MemInv => ContentsKept
  BY DEF MemInv, Data
<1> QED BY <1>1, MemInvariant, PTL

=============================================================================
