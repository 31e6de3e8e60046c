----------------------- MODULE DeviceSelection_proofs -----------------------
(***************************************************************************)
(* What Progress() decides, for any number of queues and devices and any   *)
(* costs.  Its loops are recursive functions on the natural numbers, and   *)
(* what they compute is shown by induction, which here means that a set of *)
(* naturals is not empty only if it has a least element.                   *)
(***************************************************************************)
EXTENDS DeviceSelection, WellFoundedInduction, SequenceTheorems, TLAPS

-----------------------------------------------------------------------------
(* Induction and recursion *)

(* A set of naturals has a least element. *)
LEMMA LeastElement ==
  ASSUME NEW T, T \subseteq Nat, T # {}
  PROVE  \E m \in T : \A n \in T : m <= n
<1>1. \E R : IsWellFoundedOn(R, Nat) /\ R = OpToRel(<, Nat)
  BY NatLessThanWellFounded, Zenon
<1>2. \A R : R = OpToRel(<, Nat) => \A a, b \in Nat : <<a, b>> \in R <=> a < b
  BY Zenon DEF OpToRel
<1>3. PICK R : IsWellFoundedOn(R, Nat) /\ \A a, b \in Nat : <<a, b>> \in R <=> a < b
  BY <1>1, <1>2, Zenon
<1>4. \E m \in T : \A n \in T : ~(<<n, m>> \in R)
  <2>1. IsWellFoundedOn(R, Nat)
    BY <1>3
  <2> QED BY <2>1, WFMin, Zenon
<1>5. \E m \in T : \A n \in T : ~(n < m)
  BY <1>3, <1>4, Zenon
<1> QED BY <1>5

(* A set with 0 and the successors of its elements has all naturals. *)
LEMMA Induction ==
  ASSUME NEW T, 0 \in T, \A n \in Nat : n \in T => n + 1 \in T
  PROVE  Nat \subseteq T
<1> SUFFICES ASSUME Nat \ T # {} PROVE FALSE
  OBVIOUS
<1>1. PICK m \in Nat \ T : \A n \in Nat \ T : m <= n
  BY LeastElement
<1>2. m # 0 /\ m - 1 \in Nat /\ m - 1 + 1 = m
  BY <1>1
<1>3. m - 1 \in T
  BY <1>1, <1>2
<1> QED BY <1>1, <1>2, <1>3

(* The same up to a bound. *)
LEMMA BoundedInduction ==
  ASSUME NEW N \in Nat, NEW T, 0 \in T, \A n \in 1..N : n - 1 \in T => n \in T
  PROVE  0..N \subseteq T
<1> DEFINE U == {n \in Nat : n \in 0..N => n \in T}
<1>1. 0 \in U
  OBVIOUS
<1>2. ASSUME NEW n \in Nat, n \in U PROVE n + 1 \in U
  <2>1. CASE n + 1 \in 1..N
    <3>1. n \in T
      BY <1>2, <2>1
    <3>2. n + 1 - 1 \in T => n + 1 \in T
      BY <2>1
    <3>3. n + 1 - 1 = n
      BY <1>2
    <3> QED BY <1>2, <3>1, <3>2, <3>3
  <2>2. CASE n + 1 \notin 1..N
    BY <1>2, <2>2
  <2> QED BY <2>1, <2>2
<1>3. Nat \subseteq U
  <2> HIDE DEF U
  <2> QED BY <1>1, <1>2, Induction
<1> QED BY <1>3

(* A loop of N turns: g[n] is what the first n of them make of start. *)
Computes(g, S, start, Step, N) ==
  /\ g \in [0..N -> S] /\ g[0] = start
  /\ \A n \in 1..N : g[n] = Step[n][g[n - 1]]

(* What a loop computes exists. *)
LEMMA Iteration ==
  ASSUME NEW S, NEW start \in S, NEW N \in Nat, NEW Step \in [1..N -> [S -> S]]
  PROVE  \E g : Computes(g, S, start, Step, N)
<1> DEFINE Known(n) == \E g : Computes(g, S, start, Step, n)
           T == {n \in Nat : n \in 0..N => Known(n)}
<1>1. 0 \in T
  <2>1. Computes([i \in 0..0 |-> start], S, start, Step, 0)
    BY DEF Computes
  <2> QED BY <2>1
<1>2. ASSUME NEW n \in Nat, n + 1 \in 0..N, Known(n) PROVE Known(n + 1)
  <2>0. n \in 0..N /\ n + 1 \in 1..N
    BY <1>2
  <2>1. PICK g : Computes(g, S, start, Step, n)
    BY <1>2
  <2> DEFINE h == [i \in 0..(n + 1) |-> IF i = n + 1 THEN Step[n + 1][g[n]] ELSE g[i]]
  <2>2. g[n] \in S /\ Step[n + 1] \in [S -> S]
    BY <2>0, <2>1 DEF Computes
  <2>3. h \in [0..(n + 1) -> S] /\ h[0] = start
    BY <2>1, <2>2 DEF Computes
  <2>4. ASSUME NEW i \in 1..(n + 1) PROVE h[i] = Step[i][h[i - 1]]
    <3>1. CASE i = n + 1
      BY <3>1
    <3>2. CASE i # n + 1
      BY <2>1, <3>2 DEF Computes
    <3> QED BY <3>1, <3>2
  <2>5. Computes(h, S, start, Step, n + 1)
    <3> HIDE DEF h
    <3> QED BY <2>3, <2>4 DEF Computes
  <2> QED BY <2>5
<1> HIDE DEF Known
<1>3. ASSUME NEW n \in Nat, n \in T PROVE n + 1 \in T
  <2>1. n + 1 \in 0..N => n \in 0..N
    OBVIOUS
  <2> QED BY <1>2, <1>3, <2>1
<1>4. N \in T
  <2> HIDE DEF T
  <2> QED BY <1>1, <1>3, Induction
<1> QED BY <1>4 DEF Known

-----------------------------------------------------------------------------
(* Beats() *)

(* Rows are not empty vectors. *)
LEMMA RowFacts ==
  /\ \A row \in Rows : row # NoRow /\ \A d \in Devices : row[d] \in Nat
  /\ \A row1, row2 \in Rows : Plus(row1, row2) \in Rows
  /\ Zero \in Rows
  /\ 1 \in Devices
<1>1. 1 \in Devices
  BY SelectionAssumption DEF Devices
<1>2. ASSUME NEW row \in Rows PROVE row # NoRow /\ \A d \in Devices : row[d] \in Nat
  <2>1. DOMAIN row = Devices
    BY DEF Rows
  <2>2. DOMAIN NoRow = {}
    BY DEF NoRow
  <2> QED BY <1>1, <2>1, <2>2 DEF Rows
<1> QED BY <1>1, <1>2 DEF Rows, Plus, Zero

(* Percentages are products, which the provers need only know to be        *)
(* positive. *)
LEMMA BeatsOrder ==
  ASSUME NEW cost \in Rows, NEW a \in Devices, NEW b \in Devices, NEW c \in Devices,
         Beats(cost, b, a)
  PROVE  /\ ~Beats(cost, c, a) => ~Beats(cost, c, b)
         /\ Beats(cost, c, b) => Beats(cost, c, a)
         /\ ~Beats(cost, b, b)
<1> DEFINE ta == Threshold * cost[a]
           tb == Threshold * cost[b]
<1>1. cost[a] \in Nat /\ cost[b] \in Nat /\ cost[c] \in Nat
  BY DEF Rows
<1>2. ta \in Nat /\ tb \in Nat
  BY <1>1, SelectionAssumption
<1>3. 100 * (cost[a] - cost[b]) > ta
  BY DEF Beats
<1> HIDE DEF ta, tb
<1>4. ~(100 * (cost[a] - cost[c]) > ta) => ~(100 * (cost[b] - cost[c]) > tb)
  BY <1>1, <1>2, <1>3
<1>5. 100 * (cost[b] - cost[c]) > tb => 100 * (cost[a] - cost[c]) > ta
  BY <1>1, <1>2, <1>3
<1>6. ~(100 * (cost[b] - cost[b]) > tb)
  BY <1>1, <1>2
<1> QED BY <1>4, <1>5, <1>6 DEF ta, tb, Beats

-----------------------------------------------------------------------------
(* Choose() *)

(* The loop over the devices ends with a device that none beats, and that  *)
(* beats the one the queue is bound to unless it is that one. *)
LEMMA ChooseBest ==
  ASSUME NEW current \in Devices, NEW cost \in Rows
  PROVE  /\ Choose(current, cost) \in Devices
         /\ \A d \in Devices : ~Beats(cost, d, Choose(current, cost))
         /\ Choose(current, cost) # current => Beats(cost, Choose(current, cost), current)
<1> DEFINE best[n \in 0..NumDevices] ==
             IF n = 0 THEN current
             ELSE IF Beats(cost, n, best[n - 1]) THEN n ELSE best[n - 1]
           Step == [n \in 1..NumDevices |->
                      [b \in Devices |-> IF Beats(cost, n, b) THEN n ELSE b]]
<1>n. NumDevices \in Nat /\ Devices = 1..NumDevices
  BY SelectionAssumption DEF Devices
<1>1. Choose(current, cost) = best[NumDevices]
  BY DEF Choose
<1> HIDE DEF Step, best
<1>2. PICK g : Computes(g, Devices, current, Step, NumDevices)
  <2>1. Step \in [1..NumDevices -> [Devices -> Devices]]
    BY <1>n DEF Step
  <2>2. NumDevices \in Nat
    BY <1>n
  <2> QED BY <2>1, <2>2, Iteration
<1>3. ASSUME NEW n \in 0..NumDevices
      PROVE  g[n] = IF n = 0 THEN current ELSE IF Beats(cost, n, g[n - 1]) THEN n ELSE g[n - 1]
  <2>1. CASE n = 0
    BY <1>2, <2>1, Zenon DEF Computes
  <2>2. CASE n # 0
    <3>1. n \in 1..NumDevices /\ g[n - 1] \in Devices
      BY <1>n, <1>2, <2>2 DEF Computes
    <3>2. Step[n][g[n - 1]] = IF Beats(cost, n, g[n - 1]) THEN n ELSE g[n - 1]
      BY <3>1, Zenon DEF Step
    <3> QED BY <1>2, <2>2, <3>1, <3>2, Zenon DEF Computes
  <2> QED BY <2>1, <2>2
<1>4. g = [n \in 0..NumDevices |->
             IF n = 0 THEN current ELSE IF Beats(cost, n, g[n - 1]) THEN n ELSE g[n - 1]]
  BY <1>2, <1>3, Zenon DEF Computes
<1>5. best = [n \in 0..NumDevices |->
             IF n = 0 THEN current ELSE IF Beats(cost, n, best[n - 1]) THEN n ELSE best[n - 1]]
  BY <1>4, Zenon DEF best
<1>6. /\ best[0] = current
      /\ \A n \in 1..NumDevices : best[n] = IF Beats(cost, n, best[n - 1]) THEN n ELSE best[n - 1]
  <2>1. 0 \in 0..NumDevices /\ \A n \in 1..NumDevices : n \in 0..NumDevices /\ n # 0
    BY <1>n
  <2> QED BY <1>5, <2>1, Zenon
<1> DEFINE Good(n) == /\ best[n] \in Devices
                      /\ \A d \in 1..n : ~Beats(cost, d, best[n])
                      /\ best[n] # current => Beats(cost, best[n], current)
           T == {n \in 0..NumDevices : Good(n)}
<1>7. Good(0)
  BY <1>6
<1>8. ASSUME NEW n \in 1..NumDevices, Good(n - 1) PROVE Good(n)
  <2>1. n \in Devices /\ \A d \in 1..n : d \in Devices /\ (d = n \/ d \in 1..(n - 1))
    BY <1>n
  <2>2. CASE Beats(cost, n, best[n - 1])
    <3>1. best[n] = n
      BY <1>6, <2>2, Zenon
    <3>2. \A d \in 1..n : ~Beats(cost, d, n)
      BY <1>8, <2>1, <2>2, BeatsOrder, Zenon
    <3>3. Beats(cost, n, current)
      BY <1>8, <2>1, <2>2, BeatsOrder, Zenon
    <3> QED BY <2>1, <3>1, <3>2, <3>3, Zenon
  <2>3. CASE ~Beats(cost, n, best[n - 1])
    <3>1. best[n] = best[n - 1]
      BY <1>6, <2>3, Zenon
    <3> QED BY <1>8, <2>1, <2>3, <3>1, Zenon
  <2> QED BY <2>2, <2>3
<1>9. Good(NumDevices)
  <2> HIDE DEF Good
  <2>1. 0 \in T /\ \A n \in 1..NumDevices : n - 1 \in T => n \in T
    BY <1>n, <1>7, <1>8
  <2> HIDE DEF T
  <2>2. 0..NumDevices \subseteq T
    BY <1>n, <2>1, BoundedInduction
  <2>3. NumDevices \in T
    BY <1>n, <2>2
  <2> QED BY <2>3 DEF T
<1> QED BY <1>n, <1>1, <1>9, Zenon

-----------------------------------------------------------------------------
(* Decide() *)

(* Every queue has one turn. *)
LEMMA Turns ==
  ASSUME NEW n \in Queues
  PROVE  Turn(n) \in Queues /\ Turn(Turn(n)) = n
  BY SelectionAssumption DEF Turn, Queues

Bindings == [device : [Queues -> Devices], load : Rows]

(* Binding a queue changes its device and the load of that device. *)
LEMMA BindFacts ==
  ASSUME NEW s \in Bindings, NEW q \in Queues, NEW row \in Rows
  PROVE  LET chosen == Choose(s.device[q], Plus(row, s.load)) IN
         /\ chosen \in Devices
         /\ Bind(s, q, row) \in Bindings
         /\ Bind(s, q, row).device = [s.device EXCEPT ![q] = chosen]
         /\ \A d \in Devices : Bind(s, q, row).load[d] =
              IF d = chosen THEN s.load[d] + row[d] ELSE s.load[d]
<1> DEFINE chosen == Choose(s.device[q], Plus(row, s.load))
<1>1. s.device \in [Queues -> Devices] /\ s.load \in Rows /\ s.device[q] \in Devices
  BY DEF Bindings
<1>2. Plus(row, s.load) \in Rows
  BY <1>1, RowFacts
<1>3. chosen \in Devices
  BY <1>1, <1>2, ChooseBest
<1>4. Bind(s, q, row) = [device |-> [s.device EXCEPT ![q] = chosen],
                         load |-> [s.load EXCEPT ![chosen] = @ + row[chosen]]]
  BY DEF Bind
<1> HIDE DEF chosen
<1>5. s.load \in [Devices -> Nat] /\ row \in [Devices -> Nat]
  BY <1>1 DEF Rows
<1>6. [s.load EXCEPT ![chosen] = @ + row[chosen]] \in Rows
  BY <1>3, <1>5 DEF Rows
<1>7. [s.device EXCEPT ![q] = chosen] \in [Queues -> Devices]
  BY <1>1, <1>3
<1>8. \A d \in Devices : [s.load EXCEPT ![chosen] = @ + row[chosen]][d] =
                         IF d = chosen THEN s.load[d] + row[d] ELSE s.load[d]
  BY <1>3, <1>5
<1> QED BY <1>3, <1>4, <1>6, <1>7, <1>8 DEF Bindings, chosen

(* b is what the loop over the queues makes of their devices and loads, *)
(* turn by turn. *)
Binds(b, decided, rows) ==
  /\ b[0] = [device |-> device, load |-> Zero]
  /\ \A n \in 1..NumQueues :
       b[n] = IF Turn(n) \in decided THEN Bind(b[n - 1], Turn(n), rows[Turn(n)])
              ELSE b[n - 1]
  /\ Decide(decided, rows) = b[NumQueues].device

(* Decide() is such a loop. *)
LEMMA DecideLoop ==
  ASSUME device \in [Queues -> Devices],
         NEW decided \in SUBSET Queues, NEW rows, \A q \in decided : rows[q] \in Rows
  PROVE  \E b \in [0..NumQueues -> Bindings] : Binds(b, decided, rows)
<1> DEFINE bound[n \in 0..NumQueues] ==
             IF n = 0 THEN [device |-> device, load |-> Zero]
             ELSE IF Turn(n) \in decided THEN Bind(bound[n - 1], Turn(n), rows[Turn(n)])
             ELSE bound[n - 1]
           start == [device |-> device, load |-> Zero]
           Step == [n \in 1..NumQueues |->
                      [s \in Bindings |->
                         IF Turn(n) \in decided THEN Bind(s, Turn(n), rows[Turn(n)]) ELSE s]]
<1>n. NumQueues \in Nat /\ Queues = 1..NumQueues
  BY SelectionAssumption DEF Queues
<1>0. Decide(decided, rows) = bound[NumQueues].device
  BY DEF Decide
<1>1. start \in Bindings
  BY RowFacts DEF Bindings
<1> HIDE DEF Step, bound
<1>2. PICK g : Computes(g, Bindings, start, Step, NumQueues)
  <2>1. ASSUME NEW n \in 1..NumQueues, NEW s \in Bindings
        PROVE  (IF Turn(n) \in decided THEN Bind(s, Turn(n), rows[Turn(n)]) ELSE s) \in Bindings
    <3>1. Turn(n) \in decided => rows[Turn(n)] \in Rows /\ Turn(n) \in Queues
      OBVIOUS
    <3> QED BY <3>1, BindFacts, Zenon
  <2>2. Step \in [1..NumQueues -> [Bindings -> Bindings]]
    BY <2>1, Zenon DEF Step
  <2>3. NumQueues \in Nat
    BY <1>n
  <2> HIDE DEF start
  <2> QED BY <1>1, <2>2, <2>3, Iteration
<1>3. ASSUME NEW n \in 0..NumQueues
      PROVE  g[n] = IF n = 0 THEN start
                    ELSE IF Turn(n) \in decided THEN Bind(g[n - 1], Turn(n), rows[Turn(n)])
                    ELSE g[n - 1]
  <2> HIDE DEF start
  <2>1. CASE n = 0
    BY <1>2, <2>1, Zenon DEF Computes
  <2>2. CASE n # 0
    <3>1. n \in 1..NumQueues /\ g[n - 1] \in Bindings
      BY <1>n, <1>2, <2>2 DEF Computes
    <3>2. Step[n][g[n - 1]] = IF Turn(n) \in decided THEN Bind(g[n - 1], Turn(n), rows[Turn(n)])
                              ELSE g[n - 1]
      BY <3>1, Zenon DEF Step
    <3> QED BY <1>2, <2>2, <3>1, <3>2, Zenon DEF Computes
  <2> QED BY <2>1, <2>2
<1>4. g \in [0..NumQueues -> Bindings]
  BY <1>2, Zenon DEF Computes
<1>5. g = [n \in 0..NumQueues |->
             IF n = 0 THEN [device |-> device, load |-> Zero]
             ELSE IF Turn(n) \in decided THEN Bind(g[n - 1], Turn(n), rows[Turn(n)])
             ELSE g[n - 1]]
  BY <1>3, <1>4, Zenon
<1>6. bound = [n \in 0..NumQueues |->
             IF n = 0 THEN [device |-> device, load |-> Zero]
             ELSE IF Turn(n) \in decided THEN Bind(bound[n - 1], Turn(n), rows[Turn(n)])
             ELSE bound[n - 1]]
  BY <1>5, Zenon DEF bound
<1>7. \A n \in 0..NumQueues : bound[n] = g[n]
  <2> DEFINE T == {n \in 0..NumQueues : bound[n] = g[n]}
  <2>0. ASSUME NEW n \in 0..NumQueues
        PROVE  bound[n] = IF n = 0 THEN start
                    ELSE IF Turn(n) \in decided THEN Bind(bound[n - 1], Turn(n), rows[Turn(n)])
                    ELSE bound[n - 1]
    BY <1>6, Zenon
  <2> HIDE DEF start
  <2>1. 0 \in T
    <3>1. 0 \in 0..NumQueues
      BY <1>n
    <3> QED BY <1>3, <2>0, <3>1, Zenon
  <2>2. ASSUME NEW n \in 1..NumQueues, n - 1 \in T PROVE n \in T
    <3>1. n \in 0..NumQueues /\ n # 0
      BY <1>n
    <3> QED BY <1>3, <2>0, <2>2, <3>1, Zenon
  <2> HIDE DEF T
  <2>3. 0..NumQueues \subseteq T
    BY <1>n, <2>1, <2>2, BoundedInduction
  <2> QED BY <2>3, Zenon DEF T
<1>8. \A n \in 1..NumQueues : n \in 0..NumQueues /\ n # 0
  BY <1>n
<1>9. 0 \in 0..NumQueues /\ NumQueues \in 0..NumQueues
  BY <1>n
<1>10. /\ g[0] = [device |-> device, load |-> Zero]
       /\ \A n \in 1..NumQueues :
             g[n] = IF Turn(n) \in decided THEN Bind(g[n - 1], Turn(n), rows[Turn(n)])
                    ELSE g[n - 1]
  BY <1>3, <1>8, <1>9, Zenon
<1>11. Decide(decided, rows) = g[NumQueues].device
  BY <1>0, <1>7, <1>9, Zenon
<1>12. Binds(g, decided, rows)
  BY <1>10, <1>11, Zenon DEF Binds
<1> QED BY <1>4, <1>12, Zenon

-----------------------------------------------------------------------------
(* What a decision leaves *)

LoadFacts ==
  \A d \in Devices :
    /\ LoadOf(d) \in [0..NumQueues -> Nat] /\ LoadOf(d)[0] = 0
    /\ \A n \in 1..NumQueues :
         LoadOf(d)[n] = IF account[Turn(n)] # NoRow /\ device[Turn(n)] = d
                          THEN LoadOf(d)[n - 1] + account[Turn(n)][d]
                        ELSE LoadOf(d)[n - 1]

(* The loads of the queues decided, turn by turn. *)
LEMMA LoadLoop == TypeOK => LoadFacts
<1> SUFFICES ASSUME TypeOK, NEW d \in Devices
             PROVE  /\ LoadOf(d) \in [0..NumQueues -> Nat] /\ LoadOf(d)[0] = 0
                    /\ \A n \in 1..NumQueues :
                         LoadOf(d)[n] = IF account[Turn(n)] # NoRow /\ device[Turn(n)] = d
                                          THEN LoadOf(d)[n - 1] + account[Turn(n)][d]
                                        ELSE LoadOf(d)[n - 1]
  BY DEF LoadFacts
<1> DEFINE load[n \in 0..NumQueues] ==
             IF n = 0 THEN 0
             ELSE IF account[Turn(n)] # NoRow /\ device[Turn(n)] = d
               THEN load[n - 1] + account[Turn(n)][d]
             ELSE load[n - 1]
           Step == [n \in 1..NumQueues |->
                      [s \in Nat |-> IF account[Turn(n)] # NoRow /\ device[Turn(n)] = d
                                       THEN s + account[Turn(n)][d] ELSE s]]
<1>n. NumQueues \in Nat /\ Queues = 1..NumQueues
  BY SelectionAssumption DEF Queues
<1>0. LoadOf(d) = load
  BY DEF LoadOf
<1> HIDE DEF Step, load
<1>1. ASSUME NEW n \in 1..NumQueues, account[Turn(n)] # NoRow
      PROVE  account[Turn(n)][d] \in Nat
  <2>1. account[Turn(n)] \in Rows
    BY <1>n, <1>1, Turns DEF TypeOK
  <2> QED BY <2>1, RowFacts
<1>2. PICK g : Computes(g, Nat, 0, Step, NumQueues)
  <2>1. ASSUME NEW n \in 1..NumQueues, NEW s \in Nat
        PROVE  (IF account[Turn(n)] # NoRow /\ device[Turn(n)] = d
                  THEN s + account[Turn(n)][d] ELSE s) \in Nat
    BY <1>1
  <2>2. Step \in [1..NumQueues -> [Nat -> Nat]]
    BY <2>1, Zenon DEF Step
  <2>3. NumQueues \in Nat /\ 0 \in Nat
    BY <1>n
  <2> QED BY <2>2, <2>3, Iteration
<1>3. ASSUME NEW n \in 0..NumQueues
      PROVE  g[n] = IF n = 0 THEN 0
                    ELSE IF account[Turn(n)] # NoRow /\ device[Turn(n)] = d
                      THEN g[n - 1] + account[Turn(n)][d]
                    ELSE g[n - 1]
  <2>1. CASE n = 0
    BY <1>2, <2>1, Zenon DEF Computes
  <2>2. CASE n # 0
    <3>1. n \in 1..NumQueues /\ g[n - 1] \in Nat
      BY <1>n, <1>2, <2>2 DEF Computes
    <3>2. Step[n][g[n - 1]] = IF account[Turn(n)] # NoRow /\ device[Turn(n)] = d
                                THEN g[n - 1] + account[Turn(n)][d] ELSE g[n - 1]
      BY <3>1, Zenon DEF Step
    <3> QED BY <1>2, <2>2, <3>1, <3>2, Zenon DEF Computes
  <2> QED BY <2>1, <2>2
<1>4. g \in [0..NumQueues -> Nat]
  BY <1>2, Zenon DEF Computes
<1>5. g = [n \in 0..NumQueues |->
             IF n = 0 THEN 0
             ELSE IF account[Turn(n)] # NoRow /\ device[Turn(n)] = d
               THEN g[n - 1] + account[Turn(n)][d]
             ELSE g[n - 1]]
  BY <1>3, <1>4, Zenon
<1>6. load = [n \in 0..NumQueues |->
             IF n = 0 THEN 0
             ELSE IF account[Turn(n)] # NoRow /\ device[Turn(n)] = d
               THEN load[n - 1] + account[Turn(n)][d]
             ELSE load[n - 1]]
  BY <1>5, Zenon DEF load
<1>7. \A n \in 1..NumQueues : n \in 0..NumQueues /\ n # 0
  BY <1>n
<1>8. /\ load[0] = 0
      /\ \A n \in 1..NumQueues :
            load[n] = IF account[Turn(n)] # NoRow /\ device[Turn(n)] = d
                        THEN load[n - 1] + account[Turn(n)][d] ELSE load[n - 1]
  <2>1. 0 \in 0..NumQueues
    BY <1>n
  <2> QED BY <1>6, <1>7, <2>1, Zenon
<1>9. \A n \in 0..NumQueues : load[n] \in Nat
  <2> DEFINE T == {n \in 0..NumQueues : load[n] \in Nat}
  <2>1. 0 \in T
    BY <1>n, <1>8
  <2>2. ASSUME NEW n \in 1..NumQueues, n - 1 \in T PROVE n \in T
    BY <1>1, <1>7, <1>8, <2>2
  <2> HIDE DEF T
  <2>3. 0..NumQueues \subseteq T
    BY <1>n, <2>1, <2>2, BoundedInduction
  <2> QED BY <2>3, Zenon DEF T
<1>10. load \in [0..NumQueues -> Nat]
  BY <1>6, <1>9, Zenon
<1> QED BY <1>0, <1>8, <1>10, Zenon

(* A queue that a decision binds goes to the device that is best for the   *)
(* costs that CostOn() counts; the others stay. *)
LEMMA Decision ==
  ASSUME TypeOK, TypeOK', scheduler' = scheduler,
         NEW decided \in SUBSET Queues, NEW rows, \A q \in decided : rows[q] \in Rows,
         device' = Decide(decided, rows),
         account' = [q \in Queues |-> IF q \in decided THEN rows[q] ELSE NoRow],
         NEW q \in Queues
  PROVE  /\ q \notin decided => device'[q] = device[q] /\ account'[q] = NoRow
         /\ q \in decided =>
              \E cost \in Rows : /\ \A d \in Devices : CostOn(q, d)' = cost[d]
                                 /\ device'[q] = Choose(device[q], cost)
<1>n. NumQueues \in Nat /\ Queues = 1..NumQueues
  BY SelectionAssumption DEF Queues
<1>0. device \in [Queues -> Devices]
  BY DEF TypeOK
<1>b. PICK b \in [0..NumQueues -> Bindings] : Binds(b, decided, rows)
  BY <1>0, DecideLoop
<1>1. /\ b[0] = [device |-> device, load |-> Zero]
      /\ \A n \in 1..NumQueues :
           b[n] = IF Turn(n) \in decided THEN Bind(b[n - 1], Turn(n), rows[Turn(n)])
                  ELSE b[n - 1]
      /\ Decide(decided, rows) = b[NumQueues].device
  BY <1>b, Zenon DEF Binds
<1>2. LoadFacts'
  BY LoadLoop, PTL
<1>3. \A n \in Queues : /\ Turn(n)' = Turn(n) /\ Turn(n) \in Queues /\ Turn(Turn(n)) = n
  <2>1. \A n \in Queues : Turn(n)' = Turn(n)
    BY DEF Turn
  <2> QED BY <2>1, Turns
<1> DEFINE Costing(n) == Plus(rows[Turn(n)], b[n - 1].load)
<1>4. ASSUME NEW n \in 1..NumQueues
      PROVE  /\ b[n - 1] \in Bindings /\ b[n] \in Bindings
             /\ \A m \in Queues : m # Turn(n) => b[n].device[m] = b[n - 1].device[m]
             /\ Turn(n) \notin decided => b[n] = b[n - 1]
             /\ Turn(n) \in decided =>
                  /\ Costing(n) \in Rows
                  /\ b[n].device[Turn(n)] = Choose(b[n - 1].device[Turn(n)], Costing(n))
                  /\ \A d \in Devices :
                       b[n].load[d] = IF d = b[n].device[Turn(n)]
                                        THEN b[n - 1].load[d] + rows[Turn(n)][d]
                                      ELSE b[n - 1].load[d]
  <2>1. n \in Queues /\ n - 1 \in 0..NumQueues /\ n \in 0..NumQueues
    BY <1>n
  <2>2. b[n - 1] \in Bindings /\ b[n] \in Bindings /\ Turn(n) \in Queues
    BY <1>3, <2>1
  <2>3. CASE Turn(n) \notin decided
    BY <1>1, <2>2, <2>3, Zenon
  <2>4. CASE Turn(n) \in decided
    <3> DEFINE t == Turn(n)
               s == b[n - 1]
               chosen == Choose(s.device[t], Plus(rows[t], s.load))
    <3>1. rows[t] \in Rows /\ t \in Queues /\ s \in Bindings
      BY <2>2, <2>4
    <3>2. b[n] = Bind(s, t, rows[t])
      BY <1>1, <2>4, Zenon
    <3> HIDE DEF t, s
    <3>3. /\ b[n].device = [s.device EXCEPT ![t] = chosen]
          /\ \A d \in Devices : b[n].load[d] =
               IF d = chosen THEN s.load[d] + rows[t][d] ELSE s.load[d]
      <4> DEFINE row == rows[t]
      <4>1. row \in Rows
        BY <3>1
      <4> HIDE DEF row
      <4>2. /\ Bind(s, t, row).device = [s.device EXCEPT ![t] = Choose(s.device[t], Plus(row, s.load))]
            /\ \A d \in Devices : Bind(s, t, row).load[d] =
                 IF d = Choose(s.device[t], Plus(row, s.load)) THEN s.load[d] + row[d]
                 ELSE s.load[d]
        BY <3>1, <4>1, BindFacts
      <4> QED BY <3>2, <4>2, Zenon DEF row
    <3>4. s.device \in [Queues -> Devices] /\ s.load \in Rows
      BY <3>1 DEF Bindings
    <3>5. Costing(n) \in Rows
      BY <3>1, <3>4, RowFacts, Zenon DEF t, s
    <3> HIDE DEF chosen
    <3>6. b[n].device[t] = chosen /\ \A m \in Queues : m # t => b[n].device[m] = s.device[m]
      BY <3>1, <3>3, <3>4
    <3>7. chosen = Choose(b[n - 1].device[Turn(n)], Costing(n))
      BY DEF chosen, t, s
    <3> QED BY <2>2, <2>4, <3>3, <3>5, <3>6, <3>7, Zenon DEF t, s
  <2> QED BY <2>3, <2>4
<1> HIDE DEF Costing
<1>5. \A n \in 0..NumQueues : \A m \in Queues : Turn(m) > n => b[n].device[m] = device[m]
  <2> DEFINE Early(n) == \A m \in Queues : Turn(m) > n => b[n].device[m] = device[m]
             T == {n \in 0..NumQueues : Early(n)}
  <2>1. Early(0)
    BY <1>1
  <2>2. ASSUME NEW n \in 1..NumQueues, Early(n - 1) PROVE Early(n)
    <3> SUFFICES ASSUME NEW m \in Queues, Turn(m) > n PROVE b[n].device[m] = device[m]
      OBVIOUS
    <3>1. Turn(m) \in Nat /\ n \in Nat /\ n \in Queues
      BY <1>n, <1>3
    <3>2. Turn(m) > n - 1 /\ Turn(m) # n
      BY <3>1
    <3>3. m # Turn(n)
      BY <1>3, <3>1, <3>2
    <3> QED BY <1>4, <2>2, <3>2, <3>3
  <2> HIDE DEF Early
  <2>3. 0 \in T /\ \A n \in 1..NumQueues : n - 1 \in T => n \in T
    BY <1>n, <2>1, <2>2
  <2> HIDE DEF T
  <2>4. 0..NumQueues \subseteq T
    BY <1>n, <2>3, BoundedInduction
  <2> QED BY <2>4, Zenon DEF T, Early
<1>6. \A n \in 0..NumQueues : \A m \in Queues :
        Turn(m) <= n => b[n].device[m] = b[Turn(m)].device[m]
  <2> DEFINE Late(n) == \A m \in Queues : Turn(m) <= n => b[n].device[m] = b[Turn(m)].device[m]
             T == {n \in 0..NumQueues : Late(n)}
  <2>1. Late(0)
    BY <1>n, <1>3
  <2>2. ASSUME NEW n \in 1..NumQueues, Late(n - 1) PROVE Late(n)
    <3> SUFFICES ASSUME NEW m \in Queues, Turn(m) <= n
                 PROVE  b[n].device[m] = b[Turn(m)].device[m]
      OBVIOUS
    <3>1. Turn(m) \in Nat /\ n \in Nat /\ n \in Queues
      BY <1>n, <1>3
    <3>2. CASE Turn(m) = n
      BY <3>2
    <3>3. CASE Turn(m) # n
      <4>1. Turn(m) <= n - 1
        BY <3>1, <3>3
      <4>2. m # Turn(n)
        BY <1>3, <3>1, <3>3
      <4> QED BY <1>4, <2>2, <4>1, <4>2
    <3> QED BY <3>2, <3>3
  <2> HIDE DEF Late
  <2>3. 0 \in T /\ \A n \in 1..NumQueues : n - 1 \in T => n \in T
    BY <1>n, <2>1, <2>2
  <2> HIDE DEF T
  <2>4. 0..NumQueues \subseteq T
    BY <1>n, <2>3, BoundedInduction
  <2> QED BY <2>4, Zenon DEF T, Late
<1>7. \A m \in Queues : device'[m] = b[Turn(m)].device[m]
  <2> SUFFICES ASSUME NEW m \in Queues PROVE device'[m] = b[Turn(m)].device[m]
    OBVIOUS
  <2>1. NumQueues \in 0..NumQueues /\ Turn(m) <= NumQueues
    BY <1>n, <1>3
  <2>2. b[NumQueues].device[m] = b[Turn(m)].device[m]
    BY <1>6, <2>1, Zenon
  <2> QED BY <1>1, <2>2, Zenon
<1>8. \A n \in 0..NumQueues : \A d \in Devices : LoadOf(d)'[n] = b[n].load[d]
  <2> DEFINE Loaded(n) == \A d \in Devices : LoadOf(d)'[n] = b[n].load[d]
             T == {n \in 0..NumQueues : Loaded(n)}
  <2>1. Loaded(0)
    <3>1. \A d \in Devices : b[0].load[d] = 0
      BY <1>1 DEF Zero
    <3> QED BY <1>2, <3>1, Zenon DEF LoadFacts
  <2>2. ASSUME NEW n \in 1..NumQueues, Loaded(n - 1) PROVE Loaded(n)
    <3> SUFFICES ASSUME NEW d \in Devices PROVE LoadOf(d)'[n] = b[n].load[d]
      OBVIOUS
    <3> DEFINE t == Turn(n)
    <3>1. n \in Queues /\ t \in Queues /\ Turn(n)' = t /\ Turn(t) = n
      BY <1>n, <1>3
    <3>2. LoadOf(d)'[n] = IF account'[t] # NoRow /\ device'[t] = d
                            THEN LoadOf(d)'[n - 1] + account'[t][d]
                          ELSE LoadOf(d)'[n - 1]
      <4>1. LoadOf(d)'[n] = IF account'[Turn(n)'] # NoRow /\ device'[Turn(n)'] = d
                              THEN LoadOf(d)'[n - 1] + account'[Turn(n)'][d]
                            ELSE LoadOf(d)'[n - 1]
        BY <1>2, Zenon DEF LoadFacts
      <4> QED BY <3>1, <4>1, Zenon
    <3>3. device'[t] = b[n].device[t]
      BY <1>7, <3>1, Zenon
    <3>4. account'[t] = IF t \in decided THEN rows[t] ELSE NoRow
      BY <3>1, Zenon
    <3>5. LoadOf(d)'[n - 1] = b[n - 1].load[d]
      BY <2>2
    <3>6. CASE t \notin decided
      <4>1. b[n] = b[n - 1]
        BY <1>4, <3>6, Zenon
      <4> QED BY <3>2, <3>4, <3>5, <3>6, <4>1, Zenon
    <3>7. CASE t \in decided
      <4>1. b[n].load[d] = IF d = b[n].device[t] THEN b[n - 1].load[d] + rows[t][d]
                           ELSE b[n - 1].load[d]
        BY <1>4, <3>7, Zenon
      <4>2. account'[t] = rows[t] /\ account'[t] # NoRow
        BY <3>4, <3>7, RowFacts, Zenon
      <4> QED BY <3>2, <3>3, <3>5, <4>1, <4>2, Zenon
    <3> QED BY <3>6, <3>7
  <2> HIDE DEF Loaded
  <2>3. 0 \in T /\ \A n \in 1..NumQueues : n - 1 \in T => n \in T
    BY <1>n, <2>1, <2>2
  <2> HIDE DEF T
  <2>4. 0..NumQueues \subseteq T
    BY <1>n, <2>3, BoundedInduction
  <2> QED BY <2>4, Zenon DEF T, Loaded
<1> DEFINE t == Turn(q)
<1>9. /\ t \in 1..NumQueues /\ t - 1 \in 0..NumQueues /\ t > t - 1 /\ Turn(t) = q
      /\ Turn(q)' = t
  BY <1>n, <1>3
<1> HIDE DEF t
<1>10. b[t - 1].device[q] = device[q]
  BY <1>5, <1>9, Zenon DEF t
<1>11. device'[q] = b[t].device[q]
  BY <1>7, Zenon DEF t
<1>12. account'[q] = IF q \in decided THEN rows[q] ELSE NoRow
  BY Zenon
<1>13. CASE q \notin decided
  <2>1. b[t] = b[t - 1]
    BY <1>4, <1>9, <1>13, Zenon
  <2> QED BY <1>10, <1>11, <1>12, <1>13, <2>1, Zenon
<1>14. CASE q \in decided
  <2>1. Costing(t) \in Rows /\ device'[q] = Choose(device[q], Costing(t))
    <3>1. Turn(t) \in decided
      BY <1>9, <1>14, Zenon
    <3>2. Costing(t) \in Rows /\ b[t].device[Turn(t)] = Choose(b[t - 1].device[Turn(t)], Costing(t))
      BY <1>4, <1>9, <3>1
    <3> QED BY <1>9, <1>10, <1>11, <3>2, Zenon
  <2>2. ASSUME NEW d \in Devices PROVE CostOn(q, d)' = Costing(t)[d]
    <3>1. CostOn(q, d)' = account'[q][d] + LoadOf(d)'[Turn(q)' - 1]
      BY DEF CostOn
    <3>2. LoadOf(d)'[t - 1] = b[t - 1].load[d]
      BY <1>8, <1>9, Zenon
    <3>3. CostOn(q, d)' = rows[q][d] + b[t - 1].load[d]
      BY <1>9, <1>12, <1>14, <3>1, <3>2, Zenon
    <3>4. Costing(t)[d] = rows[q][d] + b[t - 1].load[d]
      BY <1>9 DEF Costing, Plus
    <3> QED BY <3>3, <3>4, Zenon
  <2> QED BY <1>14, <2>1, <2>2, Zenon
<1> QED BY <1>13, <1>14

-----------------------------------------------------------------------------
(* What kernels cost *)

Operations == Kernels \cup {Transfer}

(* The loop that skips what is not a kernel. *)
LEMMA LaunchesLoop ==
  ASSUME NEW ops \in Seq(Operations)
  PROVE  \E g \in [0..Len(ops) -> Seq(Kernels)] :
           /\ g[0] = <<>>
           /\ \A n \in 1..Len(ops) : g[n] = IF ops[n] = Transfer THEN g[n - 1] ELSE Append(g[n - 1], ops[n])
           /\ Launches(ops) = g[Len(ops)]
<1> DEFINE kernels[n \in 0..Len(ops)] ==
             IF n = 0 THEN <<>>
             ELSE IF ops[n] = Transfer THEN kernels[n - 1] ELSE Append(kernels[n - 1], ops[n])
           Step == [n \in 1..Len(ops) |->
                      [s \in Seq(Kernels) |-> IF ops[n] = Transfer THEN s ELSE Append(s, ops[n])]]
<1>n. Len(ops) \in Nat
  OBVIOUS
<1>0. Launches(ops) = kernels[Len(ops)]
  BY DEF Launches
<1> HIDE DEF Step, kernels
<1>1. <<>> \in Seq(Kernels)
  OBVIOUS
<1>2. PICK g : Computes(g, Seq(Kernels), <<>>, Step, Len(ops))
  <2>1. ASSUME NEW n \in 1..Len(ops), NEW s \in Seq(Kernels)
        PROVE  (IF ops[n] = Transfer THEN s ELSE Append(s, ops[n])) \in Seq(Kernels)
    BY DEF Operations
  <2>2. Step \in [1..Len(ops) -> [Seq(Kernels) -> Seq(Kernels)]]
    BY <2>1, Zenon DEF Step
  <2> QED BY <1>n, <1>1, <2>2, Iteration, Zenon
<1>3. g \in [0..Len(ops) -> Seq(Kernels)]
  BY <1>2, Zenon DEF Computes
<1>4. ASSUME NEW n \in 0..Len(ops)
      PROVE  g[n] = IF n = 0 THEN <<>> ELSE IF ops[n] = Transfer THEN g[n - 1] ELSE Append(g[n - 1], ops[n])
  <2>1. CASE n = 0
    BY <1>2, <2>1, Zenon DEF Computes
  <2>2. CASE n # 0
    <3>1. n \in 1..Len(ops) /\ g[n - 1] \in Seq(Kernels)
      BY <1>n, <1>3, <2>2
    <3>2. Step[n][g[n - 1]] = IF ops[n] = Transfer THEN g[n - 1] ELSE Append(g[n - 1], ops[n])
      BY <3>1, Zenon DEF Step
    <3> QED BY <1>2, <2>2, <3>1, <3>2, Zenon DEF Computes
  <2> QED BY <2>1, <2>2
<1>5. g = [n \in 0..Len(ops) |->
             IF n = 0 THEN <<>>
             ELSE IF ops[n] = Transfer THEN g[n - 1] ELSE Append(g[n - 1], ops[n])]
  BY <1>3, <1>4, Zenon
<1>6. kernels = [n \in 0..Len(ops) |->
             IF n = 0 THEN <<>>
             ELSE IF ops[n] = Transfer THEN kernels[n - 1] ELSE Append(kernels[n - 1], ops[n])]
  BY <1>5, Zenon DEF kernels
<1>7. \A n \in 1..Len(ops) : n \in 0..Len(ops) /\ n # 0
  BY <1>n
<1>8. 0 \in 0..Len(ops) /\ Len(ops) \in 0..Len(ops)
  BY <1>n
<1>9. ASSUME NEW n \in 0..Len(ops) PROVE kernels[n] = g[n]
  <2> DEFINE T == {i \in 0..Len(ops) : kernels[i] = g[i]}
  <2>1. 0 \in T
    BY <1>4, <1>6, <1>8, Zenon
  <2>2. ASSUME NEW i \in 1..Len(ops), i - 1 \in T PROVE i \in T
    BY <1>4, <1>6, <1>7, <2>2, Zenon
  <2> HIDE DEF T
  <2>3. 0..Len(ops) \subseteq T
    BY <1>n, <2>1, <2>2, BoundedInduction
  <2> QED BY <2>3, Zenon DEF T
<1>10. /\ g[0] = <<>>
       /\ \A n \in 1..Len(ops) : g[n] = IF ops[n] = Transfer THEN g[n - 1] ELSE Append(g[n - 1], ops[n])
  BY <1>4, <1>7, <1>8, Zenon
<1>11. Launches(ops) = g[Len(ops)]
  BY <1>0, <1>8, <1>9, Zenon
<1> QED BY <1>3, <1>10, <1>11, Zenon

(* The loop that adds up costs. *)
LEMMA CostLoop ==
  ASSUME NEW kernels \in Seq(Kernels), NEW record,
         \A i \in 1..Len(kernels) : record[Name[kernels[i]]] \in Rows
  PROVE  \E g \in [0..Len(kernels) -> Rows] :
           /\ g[0] = Zero
           /\ \A n \in 1..Len(kernels) : g[n] = Plus(g[n - 1], record[Name[kernels[n]]])
           /\ CostOf(kernels, record) = g[Len(kernels)]
<1> DEFINE cost[n \in 0..Len(kernels)] == IF n = 0 THEN Zero ELSE Plus(cost[n - 1], record[Name[kernels[n]]])
           Step == [n \in 1..Len(kernels) |-> [s \in Rows |-> Plus(s, record[Name[kernels[n]]])]]
<1>n. Len(kernels) \in Nat
  OBVIOUS
<1>0. CostOf(kernels, record) = cost[Len(kernels)]
  BY DEF CostOf
<1> HIDE DEF Step, cost
<1>1. Zero \in Rows
  BY RowFacts
<1>2. PICK g : Computes(g, Rows, Zero, Step, Len(kernels))
  <2>1. ASSUME NEW n \in 1..Len(kernels), NEW s \in Rows
        PROVE  (Plus(s, record[Name[kernels[n]]])) \in Rows
    BY RowFacts, Zenon
  <2>2. Step \in [1..Len(kernels) -> [Rows -> Rows]]
    BY <2>1, Zenon DEF Step
  <2> QED BY <1>n, <1>1, <2>2, Iteration, Zenon
<1>3. g \in [0..Len(kernels) -> Rows]
  BY <1>2, Zenon DEF Computes
<1>4. ASSUME NEW n \in 0..Len(kernels)
      PROVE  g[n] = IF n = 0 THEN Zero ELSE Plus(g[n - 1], record[Name[kernels[n]]])
  <2>1. CASE n = 0
    BY <1>2, <2>1, Zenon DEF Computes
  <2>2. CASE n # 0
    <3>1. n \in 1..Len(kernels) /\ g[n - 1] \in Rows
      BY <1>n, <1>3, <2>2
    <3>2. Step[n][g[n - 1]] = Plus(g[n - 1], record[Name[kernels[n]]])
      BY <3>1, Zenon DEF Step
    <3> QED BY <1>2, <2>2, <3>1, <3>2, Zenon DEF Computes
  <2> QED BY <2>1, <2>2
<1>5. g = [n \in 0..Len(kernels) |-> IF n = 0 THEN Zero ELSE Plus(g[n - 1], record[Name[kernels[n]]])]
  BY <1>3, <1>4, Zenon
<1>6. cost = [n \in 0..Len(kernels) |-> IF n = 0 THEN Zero ELSE Plus(cost[n - 1], record[Name[kernels[n]]])]
  BY <1>5, Zenon DEF cost
<1>7. \A n \in 1..Len(kernels) : n \in 0..Len(kernels) /\ n # 0
  BY <1>n
<1>8. 0 \in 0..Len(kernels) /\ Len(kernels) \in 0..Len(kernels)
  BY <1>n
<1>9. ASSUME NEW n \in 0..Len(kernels) PROVE cost[n] = g[n]
  <2> DEFINE T == {i \in 0..Len(kernels) : cost[i] = g[i]}
  <2>1. 0 \in T
    BY <1>4, <1>6, <1>8, Zenon
  <2>2. ASSUME NEW i \in 1..Len(kernels), i - 1 \in T PROVE i \in T
    BY <1>4, <1>6, <1>7, <2>2, Zenon
  <2> HIDE DEF T
  <2>3. 0..Len(kernels) \subseteq T
    BY <1>n, <2>1, <2>2, BoundedInduction
  <2> QED BY <2>3, Zenon DEF T
<1>10. /\ g[0] = Zero
       /\ \A n \in 1..Len(kernels) : g[n] = Plus(g[n - 1], record[Name[kernels[n]]])
  BY <1>4, <1>7, <1>8, Zenon
<1>11. CostOf(kernels, record) = g[Len(kernels)]
  BY <1>0, <1>8, <1>9, Zenon
<1> QED BY <1>3, <1>10, <1>11, Zenon

-----------------------------------------------------------------------------
(* The invariant *)

(* The rows of this pass. *)
Rowed == \A q \in hasKernel : estimate[q] \in Rows

(* The round robin scheduler decides without costs. *)
RoundRobinIsIdle ==
  scheduler = "rr" => pass = BetweenPasses /\ \A q \in Queues : account[q] = NoRow

SelInv == TypeOK /\ Rowed /\ RoundRobinIsIdle /\ NearBest

(* Costs are added to the record. *)
LEMMA RecordFacts ==
  ASSUME NEW record, \A n \in DOMAIN record : record[n] \in Rows,
         NEW costs, \A n \in DOMAIN costs : costs[n] \in Rows
  PROVE  /\ DOMAIN Record(record, costs) = DOMAIN record \cup DOMAIN costs
         /\ \A n \in DOMAIN Record(record, costs) : Record(record, costs)[n] \in Rows
  BY Zenon DEF Record

(* The kernels of a queue's commands. *)
LEMMA KernelsOfQueue ==
  ASSUME TypeOK, NEW q \in Queues
  PROVE  KernelsOf(commands[q]) \in Seq(Kernels)
<1> DEFINE cmds == commands[q]
           ops == [i \in 1..Len(cmds) |-> cmds[i].op]
<1>1. cmds \in Seq([op : Operations, deleted : BOOLEAN])
  BY DEF TypeOK, Operations
<1> HIDE DEF cmds
<1>2. ops \in Seq(Operations)
  <2>1. Len(cmds) \in Nat
    BY <1>1
  <2>2. \A S : cmds \in Seq(S) => \A i \in 1..Len(cmds) : cmds[i] \in S
    OBVIOUS
  <2>3. \A i \in 1..Len(cmds) : cmds[i].op \in Operations
    <3>1. \A i \in 1..Len(cmds) : cmds[i] \in [op : Operations, deleted : BOOLEAN]
      BY <1>1, <2>2, Zenon
    <3> QED BY <3>1
  <2> QED BY <2>1, <2>3
<1>3. KernelsOf(cmds) = Launches(ops)
  BY DEF KernelsOf
<1> HIDE DEF ops
<1>4. Launches(ops) \in Seq(Kernels)
  <2>1. PICK g \in [0..Len(ops) -> Seq(Kernels)] : Launches(ops) = g[Len(ops)]
    BY <1>2, LaunchesLoop
  <2>2. Len(ops) \in 0..Len(ops)
    BY <1>2
  <2> QED BY <2>1, <2>2
<1> QED BY <1>3, <1>4 DEF cmds

(* What EstimateQueue() reads and records are rows. *)
LEMMA EstimateFacts ==
  ASSUME TypeOK, NEW q \in Queues, EstimateQueue(q)
  PROVE  \E row \in Rows :
           /\ \A n \in DOMAIN epochs' : epochs'[n] \in Rows
           /\ \/ /\ accumulated' = accumulated
                 /\ estimate' = [estimate EXCEPT ![q] = row]
                 /\ hasKernel' \in {hasKernel, hasKernel \cup {q}}
              \/ /\ accumulated' \in {accumulated, [accumulated EXCEPT ![q] = Accumulate(@, row)]}
                 /\ UNCHANGED <<estimate, hasKernel>>
<1> DEFINE kernels == KernelsOf(commands[q])
           key == EpochString(kernels)
           known == key \in DOMAIN epochs
           names == {Name[k] : k \in Range(kernels)} \ DOMAIN epochs
<1>1. PICK costs \in [IF known THEN {} ELSE names -> Costs] :
        LET record == Record(epochs, costs)
            row    == IF known THEN epochs[key] ELSE CostOf(kernels, record)
        IN /\ epochs' = IF kernels = <<>> THEN epochs ELSE Record(record, [n \in {key} |-> row])
           /\ IF scheduler = "segmented"
                THEN /\ accumulated' = IF kernels = <<>> THEN accumulated
                                       ELSE [accumulated EXCEPT ![q] = Accumulate(@, row)]
                     /\ UNCHANGED <<estimate, hasKernel>>
                ELSE /\ estimate' = [estimate EXCEPT ![q] = row]
                     /\ hasKernel' = IF kernels = <<>> THEN hasKernel ELSE hasKernel \cup {q}
                     /\ UNCHANGED accumulated
  BY Zenon DEF EstimateQueue
<1>2. kernels \in Seq(Kernels)
  BY KernelsOfQueue
<1>3. \A n \in DOMAIN epochs : epochs[n] \in Rows
  BY DEF TypeOK
<1> HIDE DEF kernels, key
<1> DEFINE record == Record(epochs, costs)
           row == IF known THEN epochs[key] ELSE CostOf(kernels, record)
<1>4. \A n \in DOMAIN costs : costs[n] \in Rows
  BY <1>1, SelectionAssumption
<1>5. /\ DOMAIN record = DOMAIN epochs \cup DOMAIN costs
      /\ \A n \in DOMAIN record : record[n] \in Rows
  BY <1>3, <1>4, RecordFacts
<1> HIDE DEF record
<1>6. row \in Rows
  <2>1. CASE known
    BY <1>3, <2>1
  <2>2. CASE ~known
    <3>1. ASSUME NEW i \in 1..Len(kernels) PROVE record[Name[kernels[i]]] \in Rows
      <4>1. kernels[i] \in Range(kernels)
        BY <1>2 DEF Range
      <4>2. DOMAIN costs = names
        BY <1>1, <2>2
      <4>3. Name[kernels[i]] \in DOMAIN record
        BY <1>5, <4>1, <4>2
      <4> QED BY <1>5, <4>3
    <3>2. PICK g \in [0..Len(kernels) -> Rows] : CostOf(kernels, record) = g[Len(kernels)]
      BY <1>2, <3>1, CostLoop
    <3>3. Len(kernels) \in 0..Len(kernels)
      BY <1>2
    <3> QED BY <2>2, <3>2, <3>3
  <2> QED BY <2>1, <2>2
<1>7. \A n \in DOMAIN epochs' : epochs'[n] \in Rows
  <2>1. epochs' = IF kernels = <<>> THEN epochs ELSE Record(record, [n \in {key} |-> row])
    BY <1>1, Zenon DEF record
  <2> DEFINE new == [n \in {key} |-> row]
  <2>2. \A n \in DOMAIN new : new[n] \in Rows
    BY <1>6
  <2> HIDE DEF row, new
  <2>3. \A n \in DOMAIN Record(record, new) : Record(record, new)[n] \in Rows
    BY <1>5, <2>2, RecordFacts
  <2>4. epochs' = epochs \/ epochs' = Record(record, new)
    BY <2>1, Zenon DEF new
  <2> QED BY <1>3, <2>3, <2>4
<1>8. \/ /\ accumulated' = accumulated
         /\ estimate' = [estimate EXCEPT ![q] = row]
         /\ hasKernel' \in {hasKernel, hasKernel \cup {q}}
      \/ /\ accumulated' \in {accumulated, [accumulated EXCEPT ![q] = Accumulate(@, row)]}
         /\ UNCHANGED <<estimate, hasKernel>>
  <2> HIDE DEF known
  <2>1. IF scheduler = "segmented"
          THEN /\ accumulated' = IF kernels = <<>> THEN accumulated
                                 ELSE [accumulated EXCEPT ![q] = Accumulate(@, row)]
               /\ UNCHANGED <<estimate, hasKernel>>
          ELSE /\ estimate' = [estimate EXCEPT ![q] = row]
               /\ hasKernel' = IF kernels = <<>> THEN hasKernel ELSE hasKernel \cup {q}
               /\ UNCHANGED accumulated
    BY <1>1, Zenon DEF record
  <2> HIDE DEF row
  <2> QED BY <2>1, Zenon
<1> QED BY <1>6, <1>7, <1>8

-----------------------------------------------------------------------------
(* The steps *)

(* The types hold in the initial states and after each action. *)
LEMMA TypeInitial == Init => TypeOK /\ Rowed /\ RoundRobinIsIdle
<1> SUFFICES ASSUME Init PROVE TypeOK /\ Rowed /\ RoundRobinIsIdle
  OBVIOUS
<1>1. NumQueues \in Nat
  BY SelectionAssumption
<1>2. TypeOK
  BY <1>1 DEF Init, TypeOK, BetweenPasses, None, NoRow
<1>3. Rowed /\ RoundRobinIsIdle
  BY DEF Init, Rowed, RoundRobinIsIdle
<1> QED BY <1>2, <1>3

(* A decision binds queues to devices and keeps rows as its account. *)
LEMMA DecisionTypes ==
  ASSUME TypeOK, NEW decided \in SUBSET Queues, NEW rows, \A q \in decided : rows[q] \in Rows
  PROVE  /\ Decide(decided, rows) \in [Queues -> Devices]
         /\ [q \in Queues |-> IF q \in decided THEN rows[q] ELSE NoRow] \in [Queues -> Rows \cup {NoRow}]
<1>0. device \in [Queues -> Devices]
  BY DEF TypeOK
<1>b. PICK b \in [0..NumQueues -> Bindings] : Binds(b, decided, rows)
  BY <1>0, DecideLoop
<1>1. b \in [0..NumQueues -> Bindings] /\ Decide(decided, rows) = b[NumQueues].device
  BY <1>b, Zenon DEF Binds
<1>2. b[NumQueues] \in Bindings
  BY <1>1, SelectionAssumption
<1> QED BY <1>1, <1>2 DEF Bindings

(* The queues that a decision binds, with their rows. *)
LEMMA Decisions ==
  ASSUME TypeOK, Rowed, Synchronise \/ BindByPass
  PROVE  \E decided \in SUBSET auto : \E rows :
           /\ \A q \in decided : rows[q] \in Rows
           /\ device' = Decide(decided, rows)
           /\ account' = [q \in Queues |-> IF q \in decided THEN rows[q] ELSE NoRow]
           /\ perfDone' = perfDone \cup decided
<1>1. CASE Synchronise
  <2> DEFINE decided == {q \in auto : accumulated[q] # NoRow}
  <2>1. \A q \in decided : accumulated[q] \in Rows
    BY DEF TypeOK
  <2>2. /\ device' = Decide(decided, accumulated)
        /\ account' = [q \in Queues |-> IF q \in decided THEN accumulated[q] ELSE NoRow]
        /\ perfDone' = perfDone \cup decided
    BY <1>1, Zenon DEF Synchronise
  <2>3. decided \in SUBSET auto
    OBVIOUS
  <2> HIDE DEF decided
  <2> QED BY <2>1, <2>2, <2>3
<1>2. CASE BindByPass
  <2>1. /\ device' = Decide(hasKernel, estimate)
        /\ account' = [q \in Queues |-> IF q \in hasKernel THEN estimate[q] ELSE NoRow]
        /\ perfDone' = perfDone \cup hasKernel
    BY <1>2, Zenon DEF BindByPass
  <2>2. hasKernel \in SUBSET auto /\ \A q \in hasKernel : estimate[q] \in Rows
    BY DEF TypeOK, Rowed
  <2> QED BY <2>1, <2>2
<1> QED BY <1>1, <1>2

(* The types, with their sets named. *)
CommandLists == Seq([op : Kernels \cup {Transfer}, deleted : BOOLEAN])
Histories == Seq(Kernels \cup {Transfer})
Passes == [explicit : BOOLEAN, queue : 0..(NumQueues + 1)]
RowTables == [Queues -> Rows \cup {NoRow}]
Faults == {None, "deleted command", "vector of size 0"}
IsRecord(record) == \A n \in DOMAIN record : record[n] \in Rows

Types ==
  /\ scheduler \in Schedulers /\ auto \subseteq Queues
  /\ device \in [Queues -> Devices]
  /\ commands \in [Queues -> CommandLists]
  /\ accumulated \in RowTables
  /\ perfDone \subseteq Queues /\ hasKernel \subseteq auto
  /\ IsRecord(epochs)
  /\ pass \in Passes
  /\ estimate \in RowTables
  /\ fault \in Faults
  /\ since \in [Queues -> Histories]
  /\ account \in RowTables

(* Both say the same. *)
LEMMA TypeParts == TypeOK <=> Types
  BY Zenon DEF TypeOK, Types, CommandLists, Histories, Passes, RowTables, Faults, IsRecord

(* The values that steps assign. *)
LEMMA Values ==
  /\ BetweenPasses \in Passes
  /\ [q \in Queues |-> NoRow] \in RowTables
  /\ [q \in Queues |-> <<>>] \in [Queues -> CommandLists]
  /\ [q \in Queues |-> <<>>] \in [Queues -> Histories]
  /\ IsRecord(<<>>)
  /\ \A p \in Passes : \A q \in Queues : [p EXCEPT !.queue = q + 1] \in Passes
  /\ \A explicit \in BOOLEAN : 0 < NumQueues => [explicit |-> explicit, queue |-> 1] \in Passes
  /\ \A q \in Queues : q # BetweenPasses.queue
  /\ ~(BetweenPasses.queue > NumQueues)
  /\ "deleted command" \in Faults /\ "vector of size 0" \in Faults
<1>1. NumQueues \in Nat /\ Queues = 1..NumQueues
  BY SelectionAssumption DEF Queues
<1>2. /\ BetweenPasses \in Passes
      /\ \A p \in Passes : \A q \in Queues : [p EXCEPT !.queue = q + 1] \in Passes
      /\ \A explicit \in BOOLEAN : 0 < NumQueues => [explicit |-> explicit, queue |-> 1] \in Passes
      /\ \A q \in Queues : q # BetweenPasses.queue
      /\ ~(BetweenPasses.queue > NumQueues)
  BY <1>1 DEF Passes, BetweenPasses
<1>3. /\ [q \in Queues |-> NoRow] \in RowTables
      /\ [q \in Queues |-> <<>>] \in [Queues -> CommandLists]
      /\ [q \in Queues |-> <<>>] \in [Queues -> Histories]
  BY DEF RowTables, CommandLists, Histories
<1>4. IsRecord(<<>>)
  BY DEF IsRecord
<1>5. "deleted command" \in Faults /\ "vector of size 0" \in Faults
  BY DEF Faults
<1> QED BY <1>2, <1>3, <1>4, <1>5

(* A row takes its place in a table. *)
LEMMA RowTaken ==
  ASSUME NEW table \in RowTables, NEW q \in Queues, NEW row \in Rows
  PROVE  /\ [table EXCEPT ![q] = row] \in RowTables
         /\ [table EXCEPT ![q] = Accumulate(@, row)] \in RowTables
<1>1. Accumulate(table[q], row) \in Rows
  BY RowFacts DEF RowTables, Accumulate
<1> QED BY <1>1 DEF RowTables

(* Every step keeps the types, and a pass without round robin its rows. *)
LEMMA TypeStep ==
  ASSUME Types, Rowed, RoundRobinIsIdle, [Next]_vars
  PROVE  Types' /\ Rowed' /\ RoundRobinIsIdle'
<1>t. TypeOK
  BY TypeParts
<1>1. ASSUME NEW q \in Queues, NEW op \in Kernels \cup {Transfer}, Enqueue(q, op)
      PROVE  Types' /\ Rowed' /\ RoundRobinIsIdle'
  <2> DEFINE cmd == [op |-> op, deleted |-> FALSE]
  <2>1. commands' \in [Queues -> CommandLists]
    <3> DEFINE Cmd == [op : Kernels \cup {Transfer}, deleted : BOOLEAN]
    <3>1. cmd \in Cmd /\ commands' = [commands EXCEPT ![q] = Append(@, cmd)]
      BY <1>1 DEF Enqueue
    <3>2. commands \in [Queues -> Seq(Cmd)]
      BY DEF Types, CommandLists
    <3> HIDE DEF Cmd, cmd
    <3>3. commands' \in [Queues -> Seq(Cmd)]
      BY <3>1, <3>2
    <3> QED BY <3>3 DEF CommandLists, Cmd
  <2>2. since' \in [Queues -> Histories]
    <3>1. since' = [since EXCEPT ![q] = Append(@, op)]
      BY <1>1, Zenon DEF Enqueue
    <3>2. since \in [Queues -> Seq(Kernels \cup {Transfer})]
      BY DEF Types, Histories
    <3> QED BY <3>1, <3>2 DEF Histories
  <2>3. UNCHANGED <<settings, device, accumulated, perfDone, epochs, passVars, fault, account>>
    BY <1>1 DEF Enqueue
  <2> QED BY <2>1, <2>2, <2>3 DEF Types, Rowed, RoundRobinIsIdle, settings, passVars
<1>2. ASSUME NEW q \in Queues, DeleteCommand(q)
      PROVE  Types' /\ Rowed' /\ RoundRobinIsIdle'
  <2> DEFINE Cmd == [op : Kernels \cup {Transfer}, deleted : BOOLEAN]
  <2>1. PICK i \in DOMAIN commands[q] : commands' = [commands EXCEPT ![q][i].deleted = TRUE]
    BY <1>2, Zenon DEF DeleteCommand
  <2>2. commands \in [Queues -> Seq(Cmd)] /\ commands[q] \in Seq(Cmd)
    BY DEF Types, CommandLists
  <2> DEFINE cmd == [commands[q][i] EXCEPT !.deleted = TRUE]
             cmds == [commands[q] EXCEPT ![i] = cmd]
  <2>3. cmd \in Cmd
    <3>1. \A S : commands[q] \in Seq(S) => \A j \in DOMAIN commands[q] : commands[q][j] \in S
      OBVIOUS
    <3>2. commands[q][i] \in Cmd
      BY <2>1, <2>2, <3>1, Zenon
    <3> QED BY <3>2
  <2>4. commands' = [commands EXCEPT ![q] = cmds]
    BY <2>1
  <2> HIDE DEF Cmd, cmd
  <2>5. cmds \in Seq(Cmd)
    BY <2>1, <2>2, <2>3
  <2> HIDE DEF cmds
  <2>6. commands' \in [Queues -> Seq(Cmd)]
    BY <2>2, <2>4, <2>5
  <2>8. commands' \in [Queues -> CommandLists]
    BY <2>6 DEF Cmd, CommandLists
  <2>7. UNCHANGED <<settings, device, accumulated, perfDone, epochs, passVars, fault, since, account>>
    BY <1>2 DEF DeleteCommand
  <2> QED BY <2>7, <2>8 DEF Types, Rowed, RoundRobinIsIdle, settings, passVars
<1>3. ASSUME NEW q \in Queues, SkipQueue(q)
      PROVE  Types' /\ Rowed' /\ RoundRobinIsIdle'
  <2>1. pass' \in Passes
    BY Values, <1>3 DEF SkipQueue, Types
  <2>2. scheduler # "rr"
    BY Values, <1>3 DEF SkipQueue, Estimating, RoundRobinIsIdle
  <2> QED BY <1>3, <2>1, <2>2 DEF SkipQueue, Types, Rowed, RoundRobinIsIdle, settings
<1>4. ASSUME NEW q \in Queues, ReadDeleted(q)
      PROVE  Types' /\ Rowed' /\ RoundRobinIsIdle'
  BY Values, <1>4 DEF ReadDeleted, Crash, Types, Rowed, RoundRobinIsIdle, settings, passVars
<1>5. ASSUME NEW q \in Queues, EstimateQueue(q)
      PROVE  Types' /\ Rowed' /\ RoundRobinIsIdle'
  <2>1. PICK row \in Rows :
          /\ \A n \in DOMAIN epochs' : epochs'[n] \in Rows
          /\ \/ /\ accumulated' = accumulated
                /\ estimate' = [estimate EXCEPT ![q] = row]
                /\ hasKernel' \in {hasKernel, hasKernel \cup {q}}
             \/ /\ accumulated' \in {accumulated, [accumulated EXCEPT ![q] = Accumulate(@, row)]}
                /\ UNCHANGED <<estimate, hasKernel>>
    BY <1>5, <1>t, EstimateFacts
  <2>2. /\ q \in auto /\ fault = None /\ pass.queue = q
        /\ pass' = [pass EXCEPT !.queue = q + 1]
        /\ UNCHANGED <<settings, device, commands, perfDone, fault, since, account>>
    BY <1>5 DEF EstimateQueue, Estimating, Considered
  <2>3. pass' \in Passes
    BY Values, <2>2 DEF Types
  <2>4. scheduler # "rr"
    BY Values, <2>2 DEF RoundRobinIsIdle
  <2>5. accumulated' \in RowTables /\ estimate' \in RowTables /\ IsRecord(epochs')
    <3>1. accumulated \in RowTables /\ estimate \in RowTables
      BY DEF Types
    <3>2. IsRecord(epochs')
      BY <2>1 DEF IsRecord
    <3>3. [estimate EXCEPT ![q] = row] \in RowTables
      BY <3>1, RowTaken
    <3>4. [accumulated EXCEPT ![q] = Accumulate(@, row)] \in RowTables
      BY <3>1, RowTaken
    <3> QED BY <2>1, <3>1, <3>2, <3>3, <3>4, Zenon
  <2>6. hasKernel' \subseteq auto
    BY <2>1, <2>2 DEF Types
  <2>7. Rowed'
    <3>1. DOMAIN estimate = Queues /\ hasKernel \subseteq Queues
      BY DEF Types, RowTables
    <3> QED BY <2>1, <3>1 DEF Rowed
  <2> QED BY <2>2, <2>3, <2>4, <2>5, <2>6, <2>7 DEF Types, RoundRobinIsIdle, settings
<1>6. ASSUME RoundRobin
      PROVE  Types' /\ Rowed' /\ RoundRobinIsIdle'
  <2>1. device' \in [Queues -> Devices]
    BY <1>6, SelectionAssumption DEF RoundRobin, Queues, Devices
  <2> QED BY <1>6, <2>1 DEF RoundRobin, Types, Rowed, RoundRobinIsIdle, settings, passVars
<1>7. ASSUME NEW explicit \in BOOLEAN, BeginPass(explicit)
      PROVE  Types' /\ Rowed' /\ RoundRobinIsIdle'
  BY Values, <1>7 DEF BeginPass, Types, Rowed, RoundRobinIsIdle, settings
<1>8. ASSUME EndEpoch
      PROVE  Types' /\ Rowed' /\ RoundRobinIsIdle'
  BY Values, <1>8 DEF EndEpoch, Forget, Types, Rowed, RoundRobinIsIdle, settings
<1>9. ASSUME Synchronise \/ BindByPass
      PROVE  Types' /\ Rowed' /\ RoundRobinIsIdle'
  <2>a. PICK decided \in SUBSET auto : \E rows :
          /\ \A q \in decided : rows[q] \in Rows
          /\ device' = Decide(decided, rows)
          /\ account' = [q \in Queues |-> IF q \in decided THEN rows[q] ELSE NoRow]
          /\ perfDone' = perfDone \cup decided
    BY <1>9, <1>t, Decisions
  <2>1. PICK rows :
          /\ \A q \in decided : rows[q] \in Rows
          /\ device' = Decide(decided, rows)
          /\ account' = [q \in Queues |-> IF q \in decided THEN rows[q] ELSE NoRow]
          /\ perfDone' = perfDone \cup decided
    BY <2>a
  <2>2. decided \in SUBSET Queues
    BY DEF Types
  <2>3. device' \in [Queues -> Devices] /\ account' \in RowTables
    BY <1>t, <2>1, <2>2, DecisionTypes DEF RowTables
  <2>4. /\ commands' = [q \in Queues |-> <<>>] /\ pass' = BetweenPasses
        /\ estimate' = [q \in Queues |-> NoRow] /\ hasKernel' = {}
        /\ UNCHANGED <<settings, fault>>
        /\ since' = [q \in Queues |-> <<>>]
        /\ accumulated' = accumulated \/ accumulated' = [q \in Queues |-> NoRow]
        /\ epochs' = epochs \/ epochs' = <<>>
    BY <1>9 DEF Synchronise, BindByPass, Forget
  <2>5. scheduler # "rr"
    BY Values, <1>9 DEF Synchronise, BindByPass, Estimated, RoundRobinIsIdle
  <2>6. IsRecord(epochs')
    BY <2>4, Values DEF Types
  <2>7. perfDone' \subseteq Queues
    BY <2>1, <2>2 DEF Types
  <2>8. Types'
    BY Values, <2>3, <2>4, <2>6, <2>7 DEF Types, settings
  <2> QED BY <2>4, <2>5, <2>8 DEF Rowed, RoundRobinIsIdle, settings
<1>10. ASSUME AddToMissingRow
       PROVE  Types' /\ Rowed' /\ RoundRobinIsIdle'
  BY Values, <1>10 DEF AddToMissingRow, Crash, Types, Rowed, RoundRobinIsIdle, settings, passVars
<1>11. CASE UNCHANGED vars
  BY <1>11 DEF vars, Types, Rowed, RoundRobinIsIdle, settings, passVars
<1> QED BY <1>1, <1>2, <1>3, <1>4, <1>5, <1>6, <1>7, <1>8, <1>9, <1>10, <1>11 DEF Next

-----------------------------------------------------------------------------
(* NearBest and MovesForGain *)

(* Costs that decisions left stay when a step takes no decision. *)
LEMMA CostsStay ==
  ASSUME TypeOK, TypeOK', scheduler' = scheduler, device' = device, account' = account,
         NEW q \in Queues, NEW d \in Devices
  PROVE  CostOn(q, d)' = CostOn(q, d)
<1>n. NumQueues \in Nat /\ Queues = 1..NumQueues
  BY SelectionAssumption DEF Queues
<1>1. LoadFacts /\ LoadFacts'
  BY LoadLoop, PTL
<1>2. \A n \in Queues : Turn(n)' = Turn(n) /\ Turn(n) \in Queues
  <2>1. \A n \in Queues : Turn(n)' = Turn(n)
    BY DEF Turn
  <2> QED BY <2>1, Turns
<1>a. /\ LoadOf(d)[0] = 0
      /\ \A n \in 1..NumQueues :
           LoadOf(d)[n] = IF account[Turn(n)] # NoRow /\ device[Turn(n)] = d
                            THEN LoadOf(d)[n - 1] + account[Turn(n)][d]
                          ELSE LoadOf(d)[n - 1]
  BY <1>1, Zenon DEF LoadFacts
<1>b. /\ LoadOf(d)'[0] = 0
      /\ \A n \in 1..NumQueues :
           LoadOf(d)'[n] = IF account'[Turn(n)'] # NoRow /\ device'[Turn(n)'] = d
                             THEN LoadOf(d)'[n - 1] + account'[Turn(n)'][d]
                           ELSE LoadOf(d)'[n - 1]
  BY <1>1, Zenon DEF LoadFacts
<1>3. \A n \in 0..NumQueues : LoadOf(d)'[n] = LoadOf(d)[n]
  <2> DEFINE T == {n \in 0..NumQueues : LoadOf(d)'[n] = LoadOf(d)[n]}
  <2>1. 0 \in T
    <3>1. LoadOf(d)'[0] = LoadOf(d)[0]
      BY <1>a, <1>b, Zenon
    <3> QED BY <1>n, <3>1
  <2>2. ASSUME NEW n \in 1..NumQueues, n - 1 \in T PROVE n \in T
    <3>3. Turn(n)' = Turn(n) /\ n \in 0..NumQueues
      BY <1>n, <1>2
    <3>4. LoadOf(d)'[n - 1] = LoadOf(d)[n - 1]
      BY <2>2
    <3>5. LoadOf(d)'[n] = LoadOf(d)[n]
      BY <1>a, <1>b, <3>3, <3>4, Zenon
    <3> QED BY <3>3, <3>5
  <2> HIDE DEF T
  <2>3. 0..NumQueues \subseteq T
    BY <1>n, <2>1, <2>2, BoundedInduction
  <2> QED BY <2>3, Zenon DEF T
<1>4. Turn(q)' = Turn(q) /\ Turn(q) - 1 \in 0..NumQueues
  BY <1>n, <1>2
<1> QED BY <1>3, <1>4, Zenon DEF CostOn

(* What a queue gains by a move, against the threshold. *)
LEMMA BeatsGain ==
  ASSUME NEW cost \in Rows, NEW a \in Devices, NEW b \in Devices
  PROVE  /\ Beats(cost, b, a) <=> 100 * (cost[a] - cost[b]) > Threshold * cost[a]
         /\ ~Beats(cost, b, a) => 100 * (cost[a] - cost[b]) <= Threshold * cost[a]
<1> DEFINE ta == Threshold * cost[a]
<1>1. cost[a] \in Nat /\ cost[b] \in Nat /\ ta \in Nat
  BY SelectionAssumption DEF Rows
<1> HIDE DEF ta
<1>2. ~(100 * (cost[a] - cost[b]) > ta) => 100 * (cost[a] - cost[b]) <= ta
  BY <1>1
<1> QED BY <1>2, Zenon DEF ta, Beats

(* After a decision each queue is where it costs least, or close to it, and *)
(* those that it moved were worse where they were. *)
LEMMA DecisionIsBest ==
  ASSUME TypeOK, TypeOK', scheduler' = scheduler, Rowed, Synchronise \/ BindByPass,
         NEW q \in Queues
  PROVE  /\ account'[q] # NoRow =>
              \A d \in Devices :
                100 * (CostOn(q, device[q])' - CostOn(q, d)') <= Threshold * CostOn(q, device[q])'
         /\ device'[q] # device[q] =>
              /\ q \in auto /\ account'[q] # NoRow
              /\ \E old \in {device[q]} :
                   100 * (CostOn(q, old)' - CostOn(q, device[q])') > Threshold * CostOn(q, old)'
<1>a. PICK decided \in SUBSET auto : \E rows :
        /\ \A p \in decided : rows[p] \in Rows
        /\ device' = Decide(decided, rows)
        /\ account' = [p \in Queues |-> IF p \in decided THEN rows[p] ELSE NoRow]
  BY Decisions, Zenon
<1>1. PICK rows :
        /\ \A p \in decided : rows[p] \in Rows
        /\ device' = Decide(decided, rows)
        /\ account' = [p \in Queues |-> IF p \in decided THEN rows[p] ELSE NoRow]
  BY <1>a
<1>2. decided \in SUBSET Queues
  BY DEF TypeOK
<1>3. /\ q \notin decided => device'[q] = device[q] /\ account'[q] = NoRow
      /\ q \in decided =>
           \E cost \in Rows : /\ \A d \in Devices : CostOn(q, d)' = cost[d]
                              /\ device'[q] = Choose(device[q], cost)
  BY <1>1, <1>2, Decision
<1>4. CASE q \notin decided
  BY <1>3, <1>4, Zenon
<1>5. CASE q \in decided
  <2>1. PICK cost \in Rows : /\ \A d \in Devices : CostOn(q, d)' = cost[d]
                             /\ device'[q] = Choose(device[q], cost)
    BY <1>3, <1>5, Zenon
  <2>2. device[q] \in Devices /\ device'[q] \in Devices
    BY DEF TypeOK
  <2>3. /\ \A d \in Devices : ~Beats(cost, d, device'[q])
        /\ device'[q] # device[q] => Beats(cost, device'[q], device[q])
    <3> DEFINE old == device[q]
               new == Choose(old, cost)
    <3>1. old \in Devices /\ device'[q] = new
      BY <2>1, <2>2
    <3> HIDE DEF old
    <3>2. \A d \in Devices : ~Beats(cost, d, new)
      BY <3>1, ChooseBest
    <3>3. new # old => Beats(cost, new, old)
      BY <3>1, ChooseBest
    <3> HIDE DEF new
    <3> QED BY <3>1, <3>2, <3>3, Zenon DEF old
  <2>4. CostOn(q, device[q])' = cost[device'[q]] /\ \A d \in Devices : CostOn(q, d)' = cost[d]
    BY <2>1, <2>2, Zenon
  <2>5. ASSUME NEW d \in Devices
        PROVE  100 * (CostOn(q, device[q])' - CostOn(q, d)') <= Threshold * CostOn(q, device[q])'
    <3>1. 100 * (cost[device'[q]] - cost[d]) <= Threshold * cost[device'[q]]
      BY <2>2, <2>3, BeatsGain, Zenon
    <3> QED BY <2>4, <3>1, Zenon
  <2>6. q \in auto /\ account'[q] # NoRow
    <3>1. account'[q] = rows[q] /\ rows[q] \in Rows
      BY <1>1, <1>5
    <3> QED BY <1>5, <3>1, RowFacts, Zenon
  <2>7. ASSUME device'[q] # device[q]
        PROVE  \E old \in {device[q]} :
                 100 * (CostOn(q, old)' - CostOn(q, device[q])') > Threshold * CostOn(q, old)'
    <3> DEFINE old == device[q]
    <3>1. 100 * (cost[old] - cost[device'[q]]) > Threshold * cost[old]
      BY <2>2, <2>3, <2>7, BeatsGain, Zenon
    <3> HIDE DEF old
    <3> QED BY <2>2, <2>4, <3>1, Zenon DEF old
  <2> QED BY <2>5, <2>6, <2>7
<1> QED BY <1>4, <1>5

-----------------------------------------------------------------------------
(* Theorems *)

(* The invariant holds initially, when no decision has been taken. *)
LEMMA SelInitial == Init => SelInv
<1> SUFFICES ASSUME Init PROVE SelInv
  OBVIOUS
<1>1. NearBest
  BY DEF Init, NearBest
<1> QED BY <1>1, TypeInitial DEF SelInv

(* What steps do to devices and accounts. *)
LEMMA StepKinds ==
  ASSUME [Next]_vars
  PROVE  /\ scheduler' = scheduler /\ auto' = auto
         /\ \/ device' = device /\ account' = account
            \/ RoundRobin
            \/ Synchronise \/ BindByPass
<1>1. CASE RoundRobin
  BY <1>1 DEF RoundRobin, settings
<1>2. CASE Synchronise \/ BindByPass
  BY <1>2 DEF Synchronise, BindByPass, Forget, settings
<1>3. CASE \E q \in Queues : \/ \E op \in Kernels \cup {Transfer} : Enqueue(q, op)
                             \/ DeleteCommand(q)
                             \/ SkipQueue(q) \/ ReadDeleted(q)
  BY <1>3, Zenon DEF Enqueue, DeleteCommand, SkipQueue, ReadDeleted, Crash, settings
<1>4. CASE \E q \in Queues : EstimateQueue(q)
  BY <1>4, Zenon DEF EstimateQueue, settings
<1>5. CASE (\E explicit \in BOOLEAN : BeginPass(explicit)) \/ EndEpoch \/ AddToMissingRow
  BY <1>5 DEF BeginPass, EndEpoch, AddToMissingRow, Crash, Forget, settings
<1>6. CASE UNCHANGED vars
  BY <1>6 DEF vars, settings
<1> QED BY <1>1, <1>2, <1>3, <1>4, <1>5, <1>6 DEF Next

(* The invariant is inductive. *)
LEMMA SelStep == SelInv /\ [Next]_vars => SelInv'
<1> SUFFICES ASSUME SelInv, [Next]_vars PROVE SelInv'
  OBVIOUS
<1>1. TypeOK /\ Rowed /\ RoundRobinIsIdle /\ NearBest
  BY DEF SelInv
<1>2. TypeOK' /\ Rowed' /\ RoundRobinIsIdle'
  <2>1. Types
    BY <1>1, TypeParts
  <2>2. Types' /\ Rowed' /\ RoundRobinIsIdle'
    BY <1>1, <2>1, TypeStep
  <2>3. Types' => TypeOK'
    BY TypeParts, PTL
  <2> QED BY <2>2, <2>3
<1>3. /\ scheduler' = scheduler /\ auto' = auto
      /\ \/ device' = device /\ account' = account
         \/ RoundRobin
         \/ Synchronise \/ BindByPass
  BY StepKinds
<1>4. NearBest'
  <2> SUFFICES ASSUME NEW q \in Queues, account'[q] # NoRow, NEW d \in Devices
               PROVE  100 * (CostOn(q, device[q])' - CostOn(q, d)') <= Threshold * CostOn(q, device[q])'
    BY Zenon DEF NearBest
  <2>1. CASE device' = device /\ account' = account
    <3>1. device[q] \in Devices
      BY <1>1 DEF TypeOK
    <3>2. \A e \in Devices : CostOn(q, e)' = CostOn(q, e)
      BY <1>1, <1>2, <1>3, <2>1, CostsStay
    <3>3. 100 * (CostOn(q, device[q]) - CostOn(q, d)) <= Threshold * CostOn(q, device[q])
      BY <1>1, <2>1, Zenon DEF NearBest
    <3> QED BY <2>1, <3>1, <3>2, <3>3, Zenon
  <2>2. CASE RoundRobin
    BY <1>1, <2>2 DEF RoundRobin, RoundRobinIsIdle
  <2>3. CASE Synchronise \/ BindByPass
    BY <1>1, <1>2, <1>3, <2>3, DecisionIsBest, Zenon
  <2> QED BY <1>3, <2>1, <2>2, <2>3
<1> QED BY <1>2, <1>4 DEF SelInv

(* The invariant holds in every reachable state, for any numbers of queues *)
(* and devices, any costs and any threshold. *)
THEOREM SelectionInvariant == Spec => []SelInv
  BY SelInitial, SelStep, PTL DEF Spec

(* A queue is always bound to a device of its context, and what Progress() *)
(* keeps of costs are vectors of one cost for each device, or empty. *)
THEOREM TypeCorrect == Spec => []TypeOK
<1>1. SelInv => TypeOK
  BY DEF SelInv
<1> QED BY <1>1, SelectionInvariant, PTL

(* The greedy loop of Progress() leaves no queue on a device that another  *)
(* beats by more than the threshold, and nothing disturbs its choice until *)
(* the next decision. *)
THEOREM StaysNearBest == Spec => []NearBest
<1>1. SelInv => NearBest
  BY DEF SelInv
<1> QED BY <1>1, SelectionInvariant, PTL

(* Progress() moves an automatic queue only, and only for a gain above the *)
(* threshold. *)
THEOREM MovesOnlyForGain == Spec => MovesForGain
<1> DEFINE Gains(q) ==
      \/ scheduler = "rr"
      \/ /\ q \in auto /\ account'[q] # NoRow
         /\ \E old \in {device[q]} :
              100 * (CostOn(q, old)' - CostOn(q, device[q])') > Threshold * CostOn(q, old)'
<1>1. SelInv /\ SelInv' /\ [Next]_vars => [\A q \in Queues : device'[q] # device[q] => Gains(q)]_vars
  <2> SUFFICES ASSUME SelInv, SelInv', [Next]_vars, NEW q \in Queues, device'[q] # device[q]
               PROVE  Gains(q)
    BY Zenon
  <2>1. TypeOK /\ TypeOK' /\ Rowed
    BY DEF SelInv
  <2>2. /\ scheduler' = scheduler
        /\ \/ device' = device
           \/ RoundRobin
           \/ Synchronise \/ BindByPass
    BY StepKinds
  <2>3. CASE RoundRobin
    BY <2>3 DEF RoundRobin
  <2>4. CASE Synchronise \/ BindByPass
    BY <2>1, <2>2, <2>4, DecisionIsBest, Zenon
  <2> QED BY <2>2, <2>3, <2>4
<1> QED BY <1>1, SelectionInvariant, PTL DEF Spec, MovesForGain

-----------------------------------------------------------------------------
(* Names and sums *)

(* The loop that puts names one after another. *)
LEMMA TextLoop ==
  ASSUME NEW kernels \in Seq(Kernels)
  PROVE  \E g \in [0..Len(kernels) -> Seq({"a", "b", "c"})] :
           /\ g[0] = <<>>
           /\ \A n \in 1..Len(kernels) : g[n] = g[n - 1] \o Name[kernels[n]]
           /\ EpochString(kernels) = g[Len(kernels)]
<1> DEFINE text[n \in 0..Len(kernels)] == IF n = 0 THEN <<>> ELSE text[n - 1] \o Name[kernels[n]]
           Step == [n \in 1..Len(kernels) |-> [s \in Seq({"a", "b", "c"}) |-> s \o Name[kernels[n]]]]
<1>n. Len(kernels) \in Nat
  OBVIOUS
<1>0. EpochString(kernels) = text[Len(kernels)]
  BY DEF EpochString
<1> HIDE DEF Step, text
<1>1. <<>> \in Seq({"a", "b", "c"})
  OBVIOUS
<1>2. PICK g : Computes(g, Seq({"a", "b", "c"}), <<>>, Step, Len(kernels))
  <2>1. ASSUME NEW n \in 1..Len(kernels), NEW s \in Seq({"a", "b", "c"})
        PROVE  (s \o Name[kernels[n]]) \in Seq({"a", "b", "c"})
    <3>1. kernels[n] \in Kernels
      OBVIOUS
    <3>2. Name[kernels[n]] \in Seq({"a", "b", "c"})
      BY <3>1, SelectionAssumption
    <3> QED BY <3>2
  <2>2. Step \in [1..Len(kernels) -> [Seq({"a", "b", "c"}) -> Seq({"a", "b", "c"})]]
    BY <2>1, Zenon DEF Step
  <2> QED BY <1>n, <1>1, <2>2, Iteration, Zenon
<1>3. g \in [0..Len(kernels) -> Seq({"a", "b", "c"})]
  BY <1>2, Zenon DEF Computes
<1>4. ASSUME NEW n \in 0..Len(kernels)
      PROVE  g[n] = IF n = 0 THEN <<>> ELSE g[n - 1] \o Name[kernels[n]]
  <2>1. CASE n = 0
    BY <1>2, <2>1, Zenon DEF Computes
  <2>2. CASE n # 0
    <3>1. n \in 1..Len(kernels) /\ g[n - 1] \in Seq({"a", "b", "c"})
      BY <1>n, <1>3, <2>2
    <3>2. Step[n][g[n - 1]] = g[n - 1] \o Name[kernels[n]]
      BY <3>1, Zenon DEF Step
    <3> QED BY <1>2, <2>2, <3>1, <3>2, Zenon DEF Computes
  <2> QED BY <2>1, <2>2
<1>5. g = [n \in 0..Len(kernels) |-> IF n = 0 THEN <<>> ELSE g[n - 1] \o Name[kernels[n]]]
  BY <1>3, <1>4, Zenon
<1>6. text = [n \in 0..Len(kernels) |-> IF n = 0 THEN <<>> ELSE text[n - 1] \o Name[kernels[n]]]
  BY <1>5, Zenon DEF text
<1>7. \A n \in 1..Len(kernels) : n \in 0..Len(kernels) /\ n # 0
  BY <1>n
<1>8. 0 \in 0..Len(kernels) /\ Len(kernels) \in 0..Len(kernels)
  BY <1>n
<1>9. ASSUME NEW n \in 0..Len(kernels) PROVE text[n] = g[n]
  <2> DEFINE T == {i \in 0..Len(kernels) : text[i] = g[i]}
  <2>1. 0 \in T
    BY <1>4, <1>6, <1>8, Zenon
  <2>2. ASSUME NEW i \in 1..Len(kernels), i - 1 \in T PROVE i \in T
    BY <1>4, <1>6, <1>7, <2>2, Zenon
  <2> HIDE DEF T
  <2>3. 0..Len(kernels) \subseteq T
    BY <1>n, <2>1, <2>2, BoundedInduction
  <2> QED BY <2>3, Zenon DEF T
<1>10. /\ g[0] = <<>>
       /\ \A n \in 1..Len(kernels) : g[n] = g[n - 1] \o Name[kernels[n]]
  BY <1>4, <1>7, <1>8, Zenon
<1>11. EpochString(kernels) = g[Len(kernels)]
  BY <1>0, <1>8, <1>9, Zenon
<1> QED BY <1>3, <1>10, <1>11, Zenon

(* Sums of rows. *)
LEMMA PlusFacts ==
  ASSUME NEW x \in Rows, NEW y \in Rows, NEW z \in Rows
  PROVE  /\ Plus(x, Zero) = x /\ Plus(Zero, x) = x
         /\ Plus(Plus(x, y), z) = Plus(x, Plus(y, z))
<1>1. \A d \in Devices : x[d] \in Nat /\ y[d] \in Nat /\ z[d] \in Nat
  BY RowFacts
<1>2. \A d \in Devices : x[d] + 0 = x[d] /\ 0 + x[d] = x[d] /\ x[d] + y[d] + z[d] = x[d] + (y[d] + z[d])
  BY <1>1
<1>3. x = [d \in Devices |-> x[d]]
  BY DEF Rows
<1>4. [d \in Devices |-> x[d] + 0] = x /\ [d \in Devices |-> 0 + x[d]] = x
  BY <1>2, <1>3
<1>5. Plus(x, Zero) = [d \in Devices |-> x[d] + 0] /\ Plus(Zero, x) = [d \in Devices |-> 0 + x[d]]
  BY DEF Plus, Zero
<1>6. /\ Plus(Plus(x, y), z) = [d \in Devices |-> x[d] + y[d] + z[d]]
      /\ Plus(x, Plus(y, z)) = [d \in Devices |-> x[d] + (y[d] + z[d])]
  BY DEF Plus
<1>7. [d \in Devices |-> x[d] + y[d] + z[d]] = [d \in Devices |-> x[d] + (y[d] + z[d])]
  BY <1>2
<1> QED BY <1>4, <1>5, <1>6, <1>7, Zenon

(* All costs of kernels are in a record. *)
Covers(record, kernels) ==
  \A i \in 1..Len(kernels) : Name[kernels[i]] \in DOMAIN record

(* The kernels of s cost by r1 what those of t cost by r2, one by one. *)
SameCosts(s, r1, t, r2) ==
  /\ s \in Seq(Kernels) /\ t \in Seq(Kernels) /\ Len(s) = Len(t)
  /\ \A i \in 1..Len(s) : r1[Name[s[i]]] \in Rows /\ r1[Name[s[i]]] = r2[Name[t[i]]]

(* What kernels cost depends on the costs of their names alone. *)
LEMMA CostDepends ==
  ASSUME NEW s, NEW t, NEW r1, NEW r2, SameCosts(s, r1, t, r2)
  PROVE  CostOf(s, r1) = CostOf(t, r2)
<1>0. /\ s \in Seq(Kernels) /\ t \in Seq(Kernels) /\ Len(s) = Len(t)
      /\ \A i \in 1..Len(s) : r1[Name[s[i]]] \in Rows /\ r1[Name[s[i]]] = r2[Name[t[i]]]
  BY DEF SameCosts
<1>n. Len(s) \in Nat
  BY <1>0
<1>1. PICK g \in [0..Len(s) -> Rows] :
        /\ g[0] = Zero
        /\ \A n \in 1..Len(s) : g[n] = Plus(g[n - 1], r1[Name[s[n]]])
        /\ CostOf(s, r1) = g[Len(s)]
  BY <1>0, CostLoop
<1>2. PICK h \in [0..Len(t) -> Rows] :
        /\ h[0] = Zero
        /\ \A n \in 1..Len(t) : h[n] = Plus(h[n - 1], r2[Name[t[n]]])
        /\ CostOf(t, r2) = h[Len(t)]
  BY <1>0, CostLoop
<1> DEFINE T == {n \in 0..Len(s) : g[n] = h[n]}
<1>3. 0 \in T
  BY <1>0, <1>n, <1>1, <1>2
<1>4. ASSUME NEW n \in 1..Len(s), n - 1 \in T PROVE n \in T
  <2>1. g[n] = Plus(g[n - 1], r1[Name[s[n]]]) /\ h[n] = Plus(h[n - 1], r2[Name[t[n]]])
    BY <1>0, <1>1, <1>2
  <2>a. r1[Name[s[n]]] = r2[Name[t[n]]]
    BY <1>0
  <2>2. g[n - 1] = h[n - 1] /\ n \in 0..Len(s)
    BY <1>n, <1>4
  <2>3. g[n] = h[n]
    BY <2>1, <2>2, <2>a, Zenon
  <2> QED BY <2>2, <2>3
<1> HIDE DEF T
<1>5. 0..Len(s) \subseteq T
  BY <1>n, <1>3, <1>4, BoundedInduction
<1>6. g[Len(s)] = h[Len(s)]
  <2>1. Len(s) \in 0..Len(s)
    BY <1>n
  <2> QED BY <1>5, <2>1, Zenon DEF T
<1> QED BY <1>0, <1>1, <1>2, <1>6

(* Costs add up. *)
LEMMA CostConcat ==
  ASSUME NEW s \in Seq(Kernels), NEW t \in Seq(Kernels), NEW r,
         \A i \in 1..Len(s) : r[Name[s[i]]] \in Rows,
         \A i \in 1..Len(t) : r[Name[t[i]]] \in Rows
  PROVE  /\ CostOf(s, r) \in Rows /\ CostOf(t, r) \in Rows
         /\ CostOf(s \o t, r) = Plus(CostOf(s, r), CostOf(t, r))
<1> DEFINE u == s \o t
<1>n. /\ Len(s) \in Nat /\ Len(t) \in Nat /\ u \in Seq(Kernels) /\ Len(u) = Len(s) + Len(t)
      /\ \A i \in 1..Len(s) : u[i] = s[i]
      /\ \A i \in 1..Len(t) : u[Len(s) + i] = t[i]
  OBVIOUS
<1> HIDE DEF u
<1>1. PICK g \in [0..Len(s) -> Rows] :
        /\ g[0] = Zero
        /\ \A n \in 1..Len(s) : g[n] = Plus(g[n - 1], r[Name[s[n]]])
        /\ CostOf(s, r) = g[Len(s)]
  BY CostLoop
<1>2. PICK h \in [0..Len(t) -> Rows] :
        /\ h[0] = Zero
        /\ \A n \in 1..Len(t) : h[n] = Plus(h[n - 1], r[Name[t[n]]])
        /\ CostOf(t, r) = h[Len(t)]
  BY CostLoop
<1>3. ASSUME NEW i \in 1..Len(u) PROVE r[Name[u[i]]] \in Rows
  <2>1. CASE i <= Len(s)
    BY <1>n, <2>1
  <2>2. CASE i > Len(s)
    <3>1. i - Len(s) \in 1..Len(t) /\ Len(s) + (i - Len(s)) = i
      BY <1>n, <2>2
    <3>2. u[i] = t[i - Len(s)]
      BY <1>n, <3>1
    <3> QED BY <3>1, <3>2
  <2> QED BY <1>n, <2>1, <2>2
<1>4. PICK f \in [0..Len(u) -> Rows] :
        /\ f[0] = Zero
        /\ \A n \in 1..Len(u) : f[n] = Plus(f[n - 1], r[Name[u[n]]])
        /\ CostOf(u, r) = f[Len(u)]
  BY <1>n, <1>3, CostLoop
<1>5. f[Len(s)] = g[Len(s)]
  <2> DEFINE T == {n \in 0..Len(s) : f[n] = g[n]}
  <2>1. 0 \in T
    BY <1>n, <1>1, <1>4
  <2>2. ASSUME NEW n \in 1..Len(s), n - 1 \in T PROVE n \in T
    <3>1. n \in 1..Len(u) /\ u[n] = s[n] /\ n \in 0..Len(s) /\ f[n - 1] = g[n - 1]
      BY <1>n, <2>2
    <3>2. f[n] = Plus(f[n - 1], r[Name[s[n]]])
      BY <1>4, <3>1, Zenon
    <3>3. f[n] = g[n]
      BY <1>1, <3>1, <3>2, Zenon
    <3> QED BY <3>1, <3>3
  <2> HIDE DEF T
  <2>3. 0..Len(s) \subseteq T
    BY <1>n, <2>1, <2>2, BoundedInduction
  <2>4. Len(s) \in T
    <3>1. Len(s) \in 0..Len(s)
      BY <1>n
    <3> QED BY <2>3, <3>1, Zenon
  <2> QED BY <2>4 DEF T
<1>a. Len(s) \in 0..Len(s) /\ Len(t) \in 0..Len(t)
  BY <1>n
<1>6. g[Len(s)] \in Rows /\ \A n \in 0..Len(t) : h[n] \in Rows
  <2>1. \A n \in 0..Len(t) : h[n] \in Rows
    OBVIOUS
  <2> QED BY <1>a, <2>1
<1>7. f[Len(s) + Len(t)] = Plus(g[Len(s)], h[Len(t)])
  <2> DEFINE T == {n \in 0..Len(t) : f[Len(s) + n] = Plus(g[Len(s)], h[n])}
  <2>1. 0 \in T
    <3>1. Plus(g[Len(s)], h[0]) = g[Len(s)]
      BY <1>2, <1>6, PlusFacts
    <3>2. Len(s) + 0 = Len(s) /\ 0 \in 0..Len(t)
      BY <1>n
    <3>3. f[Len(s) + 0] = Plus(g[Len(s)], h[0])
      BY <1>5, <3>1, <3>2, Zenon
    <3> QED BY <3>2, <3>3
  <2>2. ASSUME NEW n \in 1..Len(t), n - 1 \in T PROVE n \in T
    <3> DEFINE m == Len(s) + n
               row == r[Name[t[n]]]
    <3>1. /\ m \in 1..Len(u) /\ u[m] = t[n] /\ m - 1 = Len(s) + (n - 1)
          /\ n \in 0..Len(t) /\ n - 1 \in 0..Len(t)
      BY <1>n
    <3>2. f[m - 1] = Plus(g[Len(s)], h[n - 1])
      BY <2>2, <3>1
    <3> HIDE DEF m
    <3>3. f[m] = Plus(f[m - 1], row)
      BY <1>4, <3>1, Zenon
    <3>4. row \in Rows /\ h[n] = Plus(h[n - 1], row)
      BY <1>2
    <3> HIDE DEF row
    <3>5. f[m] = Plus(g[Len(s)], h[n])
      <4>1. h[n - 1] \in Rows /\ g[Len(s)] \in Rows
        BY <1>6, <3>1
      <4>2. Plus(Plus(g[Len(s)], h[n - 1]), row) = Plus(g[Len(s)], Plus(h[n - 1], row))
        BY <3>4, <4>1, PlusFacts
      <4> QED BY <3>2, <3>3, <3>4, <4>2, Zenon
    <3> QED BY <3>1, <3>5 DEF m
  <2> HIDE DEF T
  <2>3. 0..Len(t) \subseteq T
    BY <1>n, <2>1, <2>2, BoundedInduction
  <2>4. Len(t) \in T
    <3>1. Len(t) \in 0..Len(t)
      BY <1>n
    <3> QED BY <2>3, <3>1, Zenon
  <2> QED BY <2>4 DEF T
<1>8. h[Len(t)] \in Rows
  BY <1>n, <1>6
<1> QED BY <1>n, <1>1, <1>2, <1>4, <1>6, <1>7, <1>8 DEF u

(* One kernel. *)
LEMMA OneKernel ==
  ASSUME NEW k \in Kernels
  PROVE  /\ EpochString(<<k>>) = Name[k]
         /\ \A r : r[Name[k]] \in Rows => CostOf(<<k>>, r) = r[Name[k]]
<1> DEFINE s == <<k>>
<1>n. s \in Seq(Kernels) /\ Len(s) = 1 /\ s[1] = k
  OBVIOUS
<1> HIDE DEF s
<1>1. EpochString(s) = Name[k]
  <2>1. PICK g \in [0..Len(s) -> Seq({"a", "b", "c"})] :
          /\ g[0] = <<>>
          /\ \A n \in 1..Len(s) : g[n] = g[n - 1] \o Name[s[n]]
          /\ EpochString(s) = g[Len(s)]
    BY <1>n, TextLoop
  <2>2. g[1] = g[1 - 1] \o Name[s[1]] /\ 1 - 1 = 0
    BY <1>n, <2>1
  <2>3. g[1] = <<>> \o Name[k]
    BY <1>n, <2>1, <2>2
  <2>4. Name[k] \in Seq({"a", "b", "c"})
    BY SelectionAssumption
  <2>5. <<>> \o Name[k] = Name[k]
    BY <2>4
  <2> QED BY <1>n, <2>1, <2>3, <2>5
<1>2. ASSUME NEW r, r[Name[k]] \in Rows PROVE CostOf(s, r) = r[Name[k]]
  <2>0. \A i \in 1..Len(s) : r[Name[s[i]]] \in Rows
    BY <1>n, <1>2
  <2>1. PICK g \in [0..Len(s) -> Rows] :
          /\ g[0] = Zero
          /\ \A n \in 1..Len(s) : g[n] = Plus(g[n - 1], r[Name[s[n]]])
          /\ CostOf(s, r) = g[Len(s)]
    BY <1>n, <2>0, CostLoop
  <2>2. g[1] = Plus(g[1 - 1], r[Name[s[1]]]) /\ 1 - 1 = 0
    BY <1>n, <2>1
  <2>3. g[1] = Plus(Zero, r[Name[k]])
    BY <1>n, <2>1, <2>2
  <2>4. Plus(Zero, r[Name[k]]) = r[Name[k]]
    BY <1>2, PlusFacts
  <2> QED BY <1>n, <2>1, <2>3, <2>4
<1> QED BY <1>1, <1>2 DEF s

(* Appending to the second of two sequences appends to both. *)
LEMMA AppendAfter ==
  \A s, t \in Seq(Operations) : \A x \in Operations : Append(s \o t, x) = s \o Append(t, x)
<1> SUFFICES ASSUME NEW s \in Seq(Operations), NEW t \in Seq(Operations), NEW x \in Operations
             PROVE  Append(s \o t, x) = s \o Append(t, x)
  OBVIOUS
<1> DEFINE u == s \o t
           one == <<x>>
<1>1. u \in Seq(Operations) /\ one \in Seq(Operations)
  OBVIOUS
<1> HIDE DEF u, one
<1>2. Append(u, x) = u \o one
  BY <1>1, AppendIsConcat DEF one
<1>3. Append(t, x) = t \o one
  BY AppendIsConcat DEF one
<1>4. (s \o t) \o one = s \o (t \o one)
  BY <1>1, ConcatAssociative
<1> QED BY <1>2, <1>3, <1>4, Zenon DEF u

(* The kernels among operations, one part after the other. *)
LEMMA LaunchesConcat ==
  ASSUME NEW a \in Seq(Operations), NEW b \in Seq(Operations)
  PROVE  /\ Launches(a) \in Seq(Kernels) /\ Launches(b) \in Seq(Kernels)
         /\ Launches(a \o b) = Launches(a) \o Launches(b)
<1> DEFINE u == a \o b
<1>n. /\ Len(a) \in Nat /\ Len(b) \in Nat /\ u \in Seq(Operations) /\ Len(u) = Len(a) + Len(b)
      /\ \A i \in 1..Len(a) : u[i] = a[i]
      /\ \A i \in 1..Len(b) : u[Len(a) + i] = b[i]
  OBVIOUS
<1> HIDE DEF u
<1>1. PICK g \in [0..Len(a) -> Seq(Kernels)] :
        /\ g[0] = <<>>
        /\ \A n \in 1..Len(a) : g[n] = IF a[n] = Transfer THEN g[n - 1] ELSE Append(g[n - 1], a[n])
        /\ Launches(a) = g[Len(a)]
  BY LaunchesLoop
<1>2. PICK h \in [0..Len(b) -> Seq(Kernels)] :
        /\ h[0] = <<>>
        /\ \A n \in 1..Len(b) : h[n] = IF b[n] = Transfer THEN h[n - 1] ELSE Append(h[n - 1], b[n])
        /\ Launches(b) = h[Len(b)]
  BY LaunchesLoop
<1>4. PICK f \in [0..Len(u) -> Seq(Kernels)] :
        /\ f[0] = <<>>
        /\ \A n \in 1..Len(u) : f[n] = IF u[n] = Transfer THEN f[n - 1] ELSE Append(f[n - 1], u[n])
        /\ Launches(u) = f[Len(u)]
  BY <1>n, LaunchesLoop
<1>5. f[Len(a)] = g[Len(a)]
  <2> DEFINE T == {n \in 0..Len(a) : f[n] = g[n]}
  <2>1. 0 \in T
    BY <1>n, <1>1, <1>4
  <2>2. ASSUME NEW n \in 1..Len(a), n - 1 \in T PROVE n \in T
    <3>1. n \in 1..Len(u) /\ u[n] = a[n] /\ n \in 0..Len(a) /\ f[n - 1] = g[n - 1]
      BY <1>n, <2>2
    <3>2. f[n] = IF a[n] = Transfer THEN f[n - 1] ELSE Append(f[n - 1], a[n])
      BY <1>4, <3>1, Zenon
    <3>3. f[n] = g[n]
      BY <1>1, <3>1, <3>2, Zenon
    <3> QED BY <3>1, <3>3
  <2> HIDE DEF T
  <2>3. 0..Len(a) \subseteq T
    BY <1>n, <2>1, <2>2, BoundedInduction
  <2>4. Len(a) \in T
    <3>1. Len(a) \in 0..Len(a)
      BY <1>n
    <3> QED BY <2>3, <3>1, Zenon
  <2> QED BY <2>4 DEF T
<1> DEFINE ga == g[Len(a)]
<1>6. ga \in Seq(Kernels) /\ \A n \in 0..Len(b) : h[n] \in Seq(Kernels)
  <2>1. \A n \in 0..Len(b) : h[n] \in Seq(Kernels)
    OBVIOUS
  <2>2. Len(a) \in 0..Len(a)
    BY <1>n
  <2>3. g[Len(a)] \in Seq(Kernels)
    BY <2>2
  <2> QED BY <2>1, <2>3
<1>a. Launches(a) = ga /\ f[Len(a)] = ga
  BY <1>1, <1>5
<1> HIDE DEF ga
<1>7. f[Len(a) + Len(b)] = ga \o h[Len(b)]
  <2> DEFINE T == {n \in 0..Len(b) : f[Len(a) + n] = ga \o h[n]}
  <2>1. 0 \in T
    <3>1. ga \o <<>> = ga
      BY <1>6
    <3>2. Len(a) + 0 = Len(a) /\ 0 \in 0..Len(b)
      BY <1>n
    <3>3. f[Len(a) + 0] = ga \o h[0]
      BY <1>2, <1>a, <3>1, <3>2, Zenon
    <3> QED BY <3>2, <3>3
  <2>2. ASSUME NEW n \in 1..Len(b), n - 1 \in T PROVE n \in T
    <3> DEFINE m == Len(a) + n
               op == b[n]
    <3>1. /\ m \in 1..Len(u) /\ u[m] = op /\ m - 1 = Len(a) + (n - 1)
          /\ n \in 0..Len(b) /\ n - 1 \in 0..Len(b) /\ op \in Operations
      BY <1>n
    <3>2. f[m - 1] = ga \o h[n - 1]
      BY <2>2, <3>1
    <3> HIDE DEF m
    <3>3. f[m] = IF op = Transfer THEN f[m - 1] ELSE Append(f[m - 1], op)
      BY <1>4, <3>1, Zenon
    <3>4. h[n] = IF op = Transfer THEN h[n - 1] ELSE Append(h[n - 1], op)
      BY <1>2
    <3> HIDE DEF op
    <3>5. f[m] = ga \o h[n]
      <4>1. h[n - 1] \in Seq(Kernels)
        BY <1>6, <3>1
      <4>2. CASE op = Transfer
        BY <3>2, <3>3, <3>4, <4>2, Zenon
      <4>3. CASE op # Transfer
        <5>1. op \in Kernels
          BY <3>1, <4>3 DEF Operations
        <5> DEFINE hn == h[n - 1]
        <5>2. hn \in Seq(Kernels)
          BY <4>1
        <5> HIDE DEF hn
        <5>3. Append(ga \o hn, op) = ga \o Append(hn, op)
          <6>1. ga \in Seq(Operations) /\ hn \in Seq(Operations) /\ op \in Operations
            BY <1>6, <5>1, <5>2 DEF Operations
          <6> QED BY <6>1, AppendAfter, Zenon
        <5> QED BY <3>2, <3>3, <3>4, <4>3, <5>3, Zenon DEF hn
      <4> QED BY <4>2, <4>3
    <3> QED BY <3>1, <3>5 DEF m
  <2> HIDE DEF T
  <2>3. 0..Len(b) \subseteq T
    BY <1>n, <2>1, <2>2, BoundedInduction
  <2>4. Len(b) \in T
    <3>1. Len(b) \in 0..Len(b)
      BY <1>n
    <3> QED BY <2>3, <3>1, Zenon
  <2> QED BY <2>4 DEF T
<1>8. h[Len(b)] \in Seq(Kernels)
  BY <1>n, <1>6
<1> QED BY <1>n, <1>2, <1>4, <1>6, <1>7, <1>8, <1>a DEF u

-----------------------------------------------------------------------------
(* Records of costs *)

(* Kernels whose names put together read the same have the same names: for *)
(* example, when all names have one length.  Progress() relies on it. *)
SameNames(s, t) == Len(s) = Len(t) /\ \A i \in 1..Len(s) : Name[s[i]] = Name[t[i]]
Unambiguous ==
  \A s, t \in Seq(Kernels) : EpochString(s) = EpochString(t) => SameNames(s, t)

(* No name is the end of another. *)
NoNameEndsAnother ==
  \A k, l \in Kernels : \A u, v \in Seq({"a", "b", "c"}) :
    u \o Name[k] = v \o Name[l] => Name[k] = Name[l]

(* Then kernels whose names put together read the same have the same       *)
(* names: the last name can be told, and those before it in turn. *)
THEOREM NamesApart == ASSUME NoNameEndsAnother PROVE Unambiguous
<1> SUFFICES ASSUME NEW s \in Seq(Kernels), NEW t \in Seq(Kernels), EpochString(s) = EpochString(t)
             PROVE  SameNames(s, t)
  BY DEF Unambiguous
<1> DEFINE Texts == Seq({"a", "b", "c"})
<1>n. Len(s) \in Nat /\ Len(t) \in Nat
  OBVIOUS
<1>1. PICK g \in [0..Len(s) -> Texts] :
        /\ g[0] = <<>>
        /\ \A n \in 1..Len(s) : g[n] = g[n - 1] \o Name[s[n]]
        /\ EpochString(s) = g[Len(s)]
  BY TextLoop
<1>2. PICK h \in [0..Len(t) -> Texts] :
        /\ h[0] = <<>>
        /\ \A n \in 1..Len(t) : h[n] = h[n - 1] \o Name[t[n]]
        /\ EpochString(t) = h[Len(t)]
  BY TextLoop
<1>3. /\ \A n \in 0..Len(s) : g[n] \in Texts
      /\ \A n \in 0..Len(t) : h[n] \in Texts
      /\ \A k \in Kernels : Name[k] \in Texts /\ Name[k] # <<>>
  <2>1. \A k \in Kernels : Name[k] \in Texts /\ Name[k] # <<>>
    BY SelectionAssumption
  <2> HIDE DEF Texts
  <2> QED BY <2>1
<1>4. \A x, y, z \in Texts : x \o z = y \o z => x = y
  BY ConcatSimplifications
<1>c. \A x, z \in Texts : z # <<>> => x \o z # <<>>
  OBVIOUS
<1> HIDE DEF Texts
<1> DEFINE Agree(a, b) == a = b /\ \A i \in 1..a : Name[s[i]] = Name[t[i]]
           T == {a \in 0..Len(s) : \A b \in 0..Len(t) : g[a] = h[b] => Agree(a, b)}
<1>5. \A i \in 1..Len(s) : s[i] \in Kernels /\ i - 1 \in 0..Len(s) /\ i \in 0..Len(s)
  BY <1>n
<1>6. \A i \in 1..Len(t) : t[i] \in Kernels /\ i - 1 \in 0..Len(t) /\ i \in 0..Len(t)
  BY <1>n
<1>7. ASSUME NEW b \in 1..Len(t) PROVE h[b] # <<>>
  <2>1. h[b] = h[b - 1] \o Name[t[b]] /\ h[b - 1] \in Texts
    BY <1>2, <1>3, <1>6, Zenon
  <2>2. Name[t[b]] \in Texts /\ Name[t[b]] # <<>>
    BY <1>3, <1>6, Zenon
  <2> QED BY <1>c, <2>1, <2>2, Zenon
<1>8. ASSUME NEW a \in 1..Len(s) PROVE g[a] # <<>>
  <2>1. g[a] = g[a - 1] \o Name[s[a]] /\ g[a - 1] \in Texts
    BY <1>1, <1>3, <1>5, Zenon
  <2>2. Name[s[a]] \in Texts /\ Name[s[a]] # <<>>
    BY <1>3, <1>5, Zenon
  <2> QED BY <1>c, <2>1, <2>2, Zenon
<1>9. 0 \in T
  <2>1. \A b \in 0..Len(t) : g[0] = h[b] => b = 0
    BY <1>n, <1>1, <1>7
  <2>2. Agree(0, 0)
    OBVIOUS
  <2> QED BY <1>n, <2>1, <2>2
<1>10. ASSUME NEW a \in 1..Len(s), a - 1 \in T PROVE a \in T
  <2> SUFFICES ASSUME NEW b \in 0..Len(t), g[a] = h[b] PROVE Agree(a, b)
    BY <1>5
  <2>1. b \in 1..Len(t)
    <3>1. b # 0
      BY <1>2, <1>8
    <3> QED BY <1>n, <3>1
  <2>2. g[a - 1] \o Name[s[a]] = h[b - 1] \o Name[t[b]]
    BY <1>1, <1>2, <2>1, Zenon
  <2>3. Name[s[a]] = Name[t[b]]
    <3>1. s[a] \in Kernels /\ t[b] \in Kernels
      BY <1>5, <1>6, <2>1, Zenon
    <3>2. g[a - 1] \in Texts /\ h[b - 1] \in Texts
      BY <1>3, <1>5, <1>6, <2>1, Zenon
    <3>3. \A k, l \in Kernels : \A u, v \in Texts : u \o Name[k] = v \o Name[l] => Name[k] = Name[l]
      BY Zenon DEF NoNameEndsAnother, Texts
    <3> HIDE DEF NoNameEndsAnother
    <3> QED BY <2>2, <3>1, <3>2, <3>3, Zenon
  <2>4. g[a - 1] = h[b - 1]
    BY <1>3, <1>4, <1>5, <1>6, <2>1, <2>2, <2>3, Zenon
  <2>5. Agree(a - 1, b - 1)
    BY <1>6, <1>10, <2>1, <2>4
  <2>6. a = b
    BY <1>n, <2>1, <2>5
  <2>7. ASSUME NEW i \in 1..a PROVE Name[s[i]] = Name[t[i]]
    <3>1. CASE i \in 1..(a - 1)
      BY <2>5, <3>1
    <3>2. CASE i = a
      BY <2>3, <2>6, <3>2
    <3> QED BY <1>n, <3>1, <3>2
  <2> QED BY <2>6, <2>7
<1> HIDE DEF T
<1>11. 0..Len(s) \subseteq T
  BY <1>n, <1>9, <1>10, BoundedInduction
<1>12. Agree(Len(s), Len(t))
  <2>1. Len(s) \in T /\ Len(t) \in 0..Len(t)
    BY <1>n, <1>11
  <2>2. g[Len(s)] = h[Len(t)]
    BY <1>1, <1>2
  <2> HIDE DEF Agree
  <2> QED BY <2>1, <2>2 DEF T
<1> QED BY <1>12 DEF SameNames

(* The names that are not recorded. *)
Missing(r, kernels) == {Name[k] : k \in Range(kernels)} \ DOMAIN r

(* r2 has what r1 has. *)
Extends(r1, r2) == \A n \in DOMAIN r1 : n \in DOMAIN r2 /\ r2[n] = r1[n]

(* What is recorded for an epoch string is what its kernels cost together. *)
Consistent(r) ==
  /\ IsRecord(r)
  /\ \A key \in DOMAIN r : \E s \in Seq(Kernels) :
       key = EpochString(s) /\ Covers(r, s) /\ r[key] = CostOf(s, r)

(* Costs that are recorded stay. *)
LEMMA CostKept ==
  ASSUME NEW r1, NEW r2, IsRecord(r1), Extends(r1, r2),
         NEW s \in Seq(Kernels), Covers(r1, s)
  PROVE  Covers(r2, s) /\ CostOf(s, r2) = CostOf(s, r1) /\ CostOf(s, r1) \in Rows
<1>1. \A i \in 1..Len(s) : r1[Name[s[i]]] \in Rows /\ r1[Name[s[i]]] = r2[Name[s[i]]]
  BY Zenon DEF IsRecord, Extends, Covers
<1>2. CostOf(s, r1) = CostOf(s, r2)
  <2>1. SameCosts(s, r1, s, r2)
    BY <1>1 DEF SameCosts
  <2> QED BY <2>1, CostDepends
<1>3. CostOf(s, r1) \in Rows
  <2>1. PICK g \in [0..Len(s) -> Rows] : CostOf(s, r1) = g[Len(s)]
    BY <1>1, CostLoop
  <2>2. Len(s) \in 0..Len(s)
    OBVIOUS
  <2> QED BY <2>1, <2>2
<1>4. Covers(r2, s)
  BY Zenon DEF Extends, Covers
<1> QED BY <1>2, <1>3, <1>4

(* Kernels of the same names cost the same. *)
LEMMA CostOfNames ==
  ASSUME NEW r, IsRecord(r), NEW s \in Seq(Kernels), NEW t \in Seq(Kernels),
         SameNames(s, t), Covers(r, s)
  PROVE  Covers(r, t) /\ CostOf(s, r) = CostOf(t, r)
<1>1. Len(s) = Len(t) /\ \A i \in 1..Len(s) : Name[s[i]] = Name[t[i]]
  BY DEF SameNames
<1>2. \A i \in 1..Len(s) : r[Name[s[i]]] \in Rows /\ r[Name[s[i]]] = r[Name[t[i]]]
  BY <1>1, Zenon DEF IsRecord, Covers
<1>3. CostOf(s, r) = CostOf(t, r)
  <2>1. SameCosts(s, r, t, r)
    BY <1>1, <1>2 DEF SameCosts
  <2> QED BY <2>1, CostDepends
<1>4. Covers(r, t)
  BY <1>1 DEF Covers
<1> QED BY <1>3, <1>4

(* all is r with the costs of kernels that were missing, then their sum    *)
(* for their epoch string. *)
Recorded(r, kernels, costs, all) ==
  /\ Consistent(r) /\ kernels \in Seq(Kernels) /\ kernels # <<>>
  /\ IsRecord(costs) /\ DOMAIN costs = Missing(r, kernels)
  /\ EpochString(kernels) \notin DOMAIN r
  /\ all = Record(Record(r, costs),
                  [n \in {EpochString(kernels)} |-> CostOf(kernels, Record(r, costs))])

(* Recording the costs of kernels, then their sum for their epoch string,  *)
(* keeps the record consistent. *)
LEMMA RecordEpoch ==
  ASSUME Unambiguous, NEW r, NEW kernels, NEW costs, NEW all, Recorded(r, kernels, costs, all)
  PROVE  /\ Extends(r, all) /\ Consistent(all) /\ Covers(all, kernels)
         /\ CostOf(kernels, Record(r, costs)) = CostOf(kernels, all)
<1> DEFINE key == EpochString(kernels)
           record == Record(r, costs)
           new == [n \in {key} |-> CostOf(kernels, record)]
<1>0. /\ Consistent(r) /\ kernels \in Seq(Kernels) /\ kernels # <<>>
      /\ IsRecord(costs) /\ DOMAIN costs = Missing(r, kernels)
      /\ key \notin DOMAIN r /\ all = Record(record, new)
  BY DEF Recorded
<1>a. DOMAIN new = {key} /\ new[key] = CostOf(kernels, record)
  OBVIOUS
<1>b. record = Record(r, costs) /\ key = EpochString(kernels)
  OBVIOUS
<1> HIDE DEF key, record, new
<1> DEFINE row == CostOf(kernels, record)
<1>1. /\ DOMAIN record = DOMAIN r \cup DOMAIN costs
      /\ \A n \in DOMAIN record : record[n] = IF n \in DOMAIN costs THEN costs[n] ELSE r[n]
      /\ DOMAIN costs = {Name[k] : k \in Range(kernels)} \ DOMAIN r
  BY <1>0, <1>b, Zenon DEF Record, Missing
<1>2. /\ DOMAIN all = DOMAIN record \cup {key}
      /\ \A n \in DOMAIN all : all[n] = IF n = key THEN row ELSE record[n]
  <2> HIDE DEF row
  <2>1. DOMAIN new = {key} /\ \A n \in DOMAIN new : new[n] = row
    BY <1>a DEF row
  <2>2. /\ DOMAIN all = DOMAIN record \cup DOMAIN new
        /\ \A n \in DOMAIN all : all[n] = IF n \in DOMAIN new THEN new[n] ELSE record[n]
    BY <1>0, Zenon DEF Record
  <2> QED BY <2>1, <2>2
<1>3. IsRecord(record) /\ Extends(r, record)
  BY <1>0, <1>1 DEF IsRecord, Extends, Consistent
<1>4. Covers(record, kernels)
  <2>1. \A i \in 1..Len(kernels) : kernels[i] \in Range(kernels)
    BY <1>0 DEF Range
  <2> QED BY <1>1, <2>1 DEF Covers
<1>5. row \in Rows
  <2>1. Extends(record, record)
    BY DEF Extends
  <2> QED BY <1>0, <1>3, <1>4, <2>1, CostKept
<1>6. Extends(record, all)
  <2> SUFFICES ASSUME NEW n \in DOMAIN record PROVE n \in DOMAIN all /\ all[n] = record[n]
    BY DEF Extends
  <2>1. CASE n # key
    BY <1>2, <2>1
  <2>2. CASE n = key
    <3>1. PICK k \in Range(kernels) : Name[k] = key
      BY <1>0, <1>1, <2>2
    <3>2. k \in Kernels
      BY <1>0, <3>1 DEF Range
    <3> DEFINE one == <<k>>
    <3>3. one \in Seq(Kernels) /\ Len(one) = 1 /\ one[1] = k
      BY <3>2
    <3>4. EpochString(one) = Name[k] /\ (record[Name[k]] \in Rows => CostOf(one, record) = record[Name[k]])
      BY <3>2, OneKernel
    <3> HIDE DEF one
    <3>5. SameNames(kernels, one)
      BY <1>0, <1>b, <3>1, <3>3, <3>4 DEF Unambiguous
    <3>7. CostOf(one, record) = row
      BY <1>0, <1>3, <1>4, <3>3, <3>5, CostOfNames
    <3>8. record[Name[k]] \in Rows
      BY <1>3, <2>2, <3>1, Zenon DEF IsRecord
    <3>9. record[n] = row
      BY <2>2, <3>1, <3>4, <3>7, <3>8
    <3> QED BY <1>2, <2>2, <3>9
  <2> QED BY <2>1, <2>2
<1>7. Extends(r, all)
  BY <1>3, <1>6 DEF Extends
<1>8. IsRecord(all)
  BY <1>2, <1>3, <1>5 DEF IsRecord
<1>9. Covers(all, kernels) /\ row = CostOf(kernels, all)
  BY <1>0, <1>3, <1>4, <1>6, CostKept
<1> HIDE DEF row
<1>10. Consistent(all)
  <2> SUFFICES ASSUME NEW n \in DOMAIN all
               PROVE  \E s \in Seq(Kernels) :
                        n = EpochString(s) /\ Covers(all, s) /\ all[n] = CostOf(s, all)
    BY <1>8 DEF Consistent
  <2>1. CASE n \in DOMAIN r
    <3>1. PICK s \in Seq(Kernels) : n = EpochString(s) /\ Covers(r, s) /\ r[n] = CostOf(s, r)
      BY <1>0, <2>1 DEF Consistent
    <3>2. Covers(all, s) /\ CostOf(s, all) = CostOf(s, r)
      BY <1>0, <1>7, <3>1, CostKept DEF Consistent
    <3>3. all[n] = r[n]
      BY <1>7, <2>1 DEF Extends
    <3> QED BY <3>1, <3>2, <3>3
  <2>2. CASE n \in DOMAIN costs
    <3>1. PICK k \in Range(kernels) : n = Name[k]
      BY <1>1, <2>2
    <3>2. k \in Kernels
      BY <1>0, <3>1 DEF Range
    <3> DEFINE one == <<k>>
    <3>3. one \in Seq(Kernels) /\ Len(one) = 1 /\ one[1] = k
      BY <3>2
    <3>4. EpochString(one) = Name[k] /\ (all[Name[k]] \in Rows => CostOf(one, all) = all[Name[k]])
      BY <3>2, OneKernel
    <3> HIDE DEF one
    <3>5. all[n] \in Rows
      BY <1>8, Zenon DEF IsRecord
    <3>6. Covers(all, one)
      BY <3>1, <3>3 DEF Covers
    <3> QED BY <3>1, <3>3, <3>4, <3>5, <3>6
  <2>3. CASE n = key
    <3>1. all[n] = row
      BY <1>2, <2>3
    <3> QED BY <1>0, <1>9, <1>b, <2>3, <3>1
  <2> QED BY <1>1, <1>2, <2>1, <2>2, <2>3
<1> QED BY <1>7, <1>9, <1>10, <1>b DEF row

(* A pass of a queue of the code segmented scheduler adds what its kernels *)
(* cost by the record, and costs in the record stay. *)
LEMMA EstimateRecords ==
  ASSUME Unambiguous, TypeOK, Consistent(epochs), scheduler = "segmented",
         NEW q \in Queues, EstimateQueue(q)
  PROVE  LET kernels == KernelsOf(commands[q]) IN
         /\ Extends(epochs, epochs') /\ Consistent(epochs') /\ Covers(epochs', kernels)
         /\ accumulated' = IF kernels = <<>> THEN accumulated
                           ELSE [accumulated EXCEPT ![q] = Accumulate(@, CostOf(kernels, epochs'))]
<1> DEFINE kernels == KernelsOf(commands[q])
           key == EpochString(kernels)
           known == key \in DOMAIN epochs
           names == {Name[k] : k \in Range(kernels)} \ DOMAIN epochs
<1>1. PICK costs \in [IF known THEN {} ELSE names -> Costs] :
        LET record == Record(epochs, costs)
            row    == IF known THEN epochs[key] ELSE CostOf(kernels, record)
        IN /\ epochs' = IF kernels = <<>> THEN epochs ELSE Record(record, [n \in {key} |-> row])
           /\ IF scheduler = "segmented"
                THEN /\ accumulated' = IF kernels = <<>> THEN accumulated
                                       ELSE [accumulated EXCEPT ![q] = Accumulate(@, row)]
                     /\ UNCHANGED <<estimate, hasKernel>>
                ELSE /\ estimate' = [estimate EXCEPT ![q] = row]
                     /\ hasKernel' = IF kernels = <<>> THEN hasKernel ELSE hasKernel \cup {q}
                     /\ UNCHANGED accumulated
  BY Zenon DEF EstimateQueue
<1>2. kernels \in Seq(Kernels)
  BY KernelsOfQueue
<1> HIDE DEF kernels, key
<1> DEFINE record == Record(epochs, costs)
           row == IF known THEN epochs[key] ELSE CostOf(kernels, record)
           new == [n \in {key} |-> row]
<1>3. /\ epochs' = IF kernels = <<>> THEN epochs ELSE Record(record, new)
      /\ accumulated' = IF kernels = <<>> THEN accumulated
                        ELSE [accumulated EXCEPT ![q] = Accumulate(@, row)]
  BY <1>1, Zenon
<1>4. Extends(epochs, epochs)
  BY DEF Extends
<1>5. CASE kernels = <<>>
  <2>1. epochs' = epochs /\ accumulated' = accumulated
    BY <1>3, <1>5, Zenon
  <2>2. Covers(epochs, kernels)
    BY <1>5 DEF Covers
  <2> QED BY <1>4, <1>5, <2>1, <2>2 DEF kernels
<1>6. CASE kernels # <<>> /\ known
  <2>1. PICK s \in Seq(Kernels) :
          key = EpochString(s) /\ Covers(epochs, s) /\ epochs[key] = CostOf(s, epochs)
    BY <1>6 DEF Consistent
  <2>2. SameNames(s, kernels)
    BY <1>2, <2>1 DEF Unambiguous, key
  <2>3. Covers(epochs, kernels)
    BY <1>2, <2>1, <2>2, CostOfNames DEF Consistent
  <2>5. CostOf(s, epochs) = CostOf(kernels, epochs)
    BY <1>2, <2>1, <2>2, CostOfNames DEF Consistent
  <2>6. row = CostOf(kernels, epochs) /\ row = epochs[key]
    BY <1>6, <2>1, <2>5
  <2>7. DOMAIN costs = {}
    BY <1>6
  <2> HIDE DEF row
  <2>8. DOMAIN record = DOMAIN epochs /\ \A n \in DOMAIN record : record[n] = epochs[n]
    BY <2>7 DEF Record
  <2> HIDE DEF record
  <2>9. DOMAIN epochs' = DOMAIN epochs /\ \A n \in DOMAIN epochs : epochs'[n] = epochs[n]
    <3>1. epochs' = Record(record, new)
      BY <1>3, <1>6
    <3>2. DOMAIN new = {key} /\ \A n \in DOMAIN new : new[n] = row
      OBVIOUS
    <3> HIDE DEF new
    <3>3. /\ DOMAIN epochs' = DOMAIN record \cup DOMAIN new
          /\ \A n \in DOMAIN epochs' : epochs'[n] = IF n \in DOMAIN new THEN new[n] ELSE record[n]
      BY <3>1, Zenon DEF Record
    <3> QED BY <1>6, <2>6, <2>8, <3>2, <3>3
  <2>10. Extends(epochs, epochs')
    BY <2>9 DEF Extends
  <2>11. Covers(epochs', kernels) /\ CostOf(kernels, epochs') = CostOf(kernels, epochs)
    BY <1>2, <2>3, <2>10, CostKept DEF Consistent
  <2>12. Consistent(epochs')
    <3>1. IsRecord(epochs')
      BY <2>9 DEF IsRecord, Consistent
    <3>2. ASSUME NEW n \in DOMAIN epochs'
          PROVE  \E t \in Seq(Kernels) :
                   n = EpochString(t) /\ Covers(epochs', t) /\ epochs'[n] = CostOf(t, epochs')
      <4>1. PICK t \in Seq(Kernels) :
              n = EpochString(t) /\ Covers(epochs, t) /\ epochs[n] = CostOf(t, epochs)
        BY <2>9, <3>2 DEF Consistent
      <4>2. Covers(epochs', t) /\ CostOf(t, epochs') = CostOf(t, epochs)
        BY <2>10, <4>1, CostKept DEF Consistent
      <4> QED BY <2>9, <4>1, <4>2
    <3> QED BY <3>1, <3>2 DEF Consistent
  <2>13. accumulated' = [accumulated EXCEPT ![q] = Accumulate(@, CostOf(kernels, epochs'))]
    BY <1>3, <1>6, <2>6, <2>11, Zenon
  <2> QED BY <1>6, <2>10, <2>11, <2>12, <2>13 DEF kernels
<1>7. CASE kernels # <<>> /\ ~known
  <2>1. DOMAIN costs = Missing(epochs, kernels) /\ IsRecord(costs)
    BY <1>7, SelectionAssumption DEF IsRecord, Missing
  <2>2. row = CostOf(kernels, record)
    BY <1>7
  <2>3. epochs' = Record(record, new)
    BY <1>3, <1>7
  <2>4. /\ Extends(epochs, epochs') /\ Consistent(epochs') /\ Covers(epochs', kernels)
        /\ row = CostOf(kernels, epochs')
    <3>1. Recorded(epochs, kernels, costs, epochs')
      BY <1>2, <1>7, <2>1, <2>3 DEF Recorded, key
    <3>2. /\ Extends(epochs, epochs') /\ Consistent(epochs') /\ Covers(epochs', kernels)
          /\ CostOf(kernels, record) = CostOf(kernels, epochs')
      BY <3>1, RecordEpoch
    <3> HIDE DEF record, row
    <3> QED BY <2>2, <3>2
  <2> HIDE DEF row
  <2>5. accumulated' = [accumulated EXCEPT ![q] = Accumulate(@, CostOf(kernels, epochs'))]
    BY <1>3, <1>7, <2>4, Zenon
  <2> QED BY <1>7, <2>4, <2>5 DEF kernels
<1> QED BY <1>5, <1>6, <1>7

-----------------------------------------------------------------------------
(* What queues have accumulated *)

(* The first of two sequences put together. *)
LEMMA FirstPart ==
  \A a, b \in Seq(Operations) : /\ SubSeq(a \o b, 1, Len(a \o b) - Len(b)) = a
                                /\ SubSeq(a, 1, Len(a) - 0) = a
<1> SUFFICES ASSUME NEW a \in Seq(Operations), NEW b \in Seq(Operations)
             PROVE  /\ SubSeq(a \o b, 1, Len(a \o b) - Len(b)) = a
                    /\ SubSeq(a, 1, Len(a) - 0) = a
  OBVIOUS
<1> DEFINE u == a \o b
<1>1. /\ u \in Seq(Operations) /\ Len(a) \in Nat /\ Len(b) \in Nat /\ Len(u) = Len(a) + Len(b)
      /\ \A i \in 1..Len(a) : u[i] = a[i]
  OBVIOUS
<1> HIDE DEF u
<1>2. Len(u) - Len(b) = Len(a) /\ Len(a) - 0 = Len(a)
  BY <1>1
<1> DEFINE v == SubSeq(u, 1, Len(a))
<1>3. /\ v \in Seq(Operations) /\ Len(v) = Len(a)
      /\ \A i \in 1..Len(a) : v[i] = a[i]
  BY <1>1
<1> HIDE DEF v
<1>4. v = a
  BY <1>3
<1>5. SubSeq(a, 1, Len(a)) = a
  BY SubSeqFull
<1> QED BY <1>2, <1>4, <1>5 DEF u, v

(* The commands of a queue that no decision has seen, as they were         *)
(* enqueued, are the end of its history. *)
Pending(q) == [i \in 1..Len(commands[q]) |-> commands[q][i].op]
Split(q, old) == old \in Seq(Operations) /\ since[q] = old \o Pending(q)
EndsPending == \A q \in Queues : \E old : Split(q, old)

(* The kernels whose costs are counted: a pass has counted what is pending *)
(* on the queues that it is past. *)
Counted(q) ==
  LET waiting == IF q < pass.queue THEN 0 ELSE Len(commands[q])
  IN  Launches(SubSeq(since[q], 1, Len(since[q]) - waiting))

(* What the counts are, by what is pending. *)
CountedFacts ==
  \A q \in Queues :
    /\ Pending(q) \in Seq(Operations)
    /\ KernelsOf(commands[q]) \in Seq(Kernels)
    /\ \A old : Split(q, old) =>
         /\ Launches(old) \in Seq(Kernels)
         /\ Launches(since[q]) = Launches(old) \o KernelsOf(commands[q])
         /\ Counted(q) = IF q < pass.queue THEN Launches(since[q]) ELSE Launches(old)
         /\ Counted(q) \in Seq(Kernels)

(* The history is what was counted before this pass, then what is pending. *)
LEMMA CountedParts == TypeOK => CountedFacts
<1> SUFFICES ASSUME TypeOK, NEW q \in Queues
             PROVE  /\ Pending(q) \in Seq(Operations)
                    /\ KernelsOf(commands[q]) \in Seq(Kernels)
                    /\ \A old : Split(q, old) =>
                         /\ Launches(old) \in Seq(Kernels)
                         /\ Launches(since[q]) = Launches(old) \o KernelsOf(commands[q])
                         /\ Counted(q) = IF q < pass.queue THEN Launches(since[q]) ELSE Launches(old)
                         /\ Counted(q) \in Seq(Kernels)
  BY DEF CountedFacts
<1> DEFINE cmds == commands[q]
           ops == [i \in 1..Len(cmds) |-> cmds[i].op]
<1>1. cmds \in Seq([op : Operations, deleted : BOOLEAN])
  BY DEF TypeOK, Operations
<1>2. ops = Pending(q) /\ KernelsOf(cmds) = Launches(ops)
  BY DEF Pending, KernelsOf
<1> HIDE DEF cmds
<1>3. ops \in Seq(Operations) /\ Len(ops) = Len(cmds)
  <2>1. Len(cmds) \in Nat
    BY <1>1
  <2>2. \A S : cmds \in Seq(S) => \A i \in 1..Len(cmds) : cmds[i] \in S
    OBVIOUS
  <2>3. \A i \in 1..Len(cmds) : cmds[i].op \in Operations
    <3>1. \A i \in 1..Len(cmds) : cmds[i] \in [op : Operations, deleted : BOOLEAN]
      BY <1>1, <2>2, Zenon
    <3> QED BY <3>1
  <2> QED BY <2>1, <2>3
<1> HIDE DEF ops
<1>4. KernelsOf(cmds) \in Seq(Kernels)
  BY <1>2, <1>3, LaunchesConcat
<1>5. ASSUME NEW old, Split(q, old)
      PROVE  /\ Launches(old) \in Seq(Kernels)
             /\ Launches(since[q]) = Launches(old) \o KernelsOf(cmds)
             /\ Counted(q) = IF q < pass.queue THEN Launches(since[q]) ELSE Launches(old)
             /\ Counted(q) \in Seq(Kernels)
  <2>1. old \in Seq(Operations) /\ since[q] = old \o ops
    BY <1>2, <1>5 DEF Split
  <2>2. since[q] \in Seq(Operations)
    BY <1>3, <2>1
  <2>3. /\ Launches(old) \in Seq(Kernels)
        /\ Launches(since[q]) \in Seq(Kernels)
        /\ Launches(since[q]) = Launches(old) \o KernelsOf(cmds)
    BY <1>2, <1>3, <2>1, <2>2, LaunchesConcat
  <2>4. /\ SubSeq(since[q], 1, Len(since[q]) - Len(cmds)) = old
        /\ SubSeq(since[q], 1, Len(since[q]) - 0) = since[q]
    BY <1>3, <2>1, <2>2, FirstPart, Zenon
  <2>5. Counted(q) = IF q < pass.queue THEN Launches(since[q]) ELSE Launches(old)
    BY <2>4, Zenon DEF Counted, cmds
  <2> QED BY <2>3, <2>5
<1> QED BY <1>2, <1>3, <1>4, <1>5 DEF cmds

(* The costs of what is counted are what the queue has accumulated. *)
Accounts(q) == accumulated[q] = IF Counted(q) = <<>> THEN NoRow ELSE CostOf(Counted(q), epochs)

(* The costs that a queue has accumulated are those of the kernels that    *)
(* are counted, and all of them are recorded. *)
Balanced ==
  scheduler = "segmented" =>
    Consistent(epochs) /\ \A q \in auto : Covers(epochs, Counted(q)) /\ Accounts(q)

(* What is inductive. *)
AccInv == EndsPending /\ Balanced

(* Accounting follows. *)
LEMMA AccImplies == AccInv => Accounting
  BY Zenon DEF AccInv, Balanced, Accounts, Counted, Accounting

(* A step that changes no count, no sum and no record keeps the balance. *)
LEMMA NothingCounted ==
  ASSUME Balanced, scheduler' = scheduler, auto' = auto, accumulated' = accumulated,
         epochs' = epochs, \A q \in auto : Counted(q)' = Counted(q)
  PROVE  Balanced'
<1>1. \A q \in auto : Counted(q) = Counted(q)' => Accounts(q)' = Accounts(q)
  BY Zenon DEF Accounts
<1> QED BY <1>1, Zenon DEF Balanced

(* At first nothing is enqueued, accumulated or recorded. *)
LEMMA AccInitial == TypeOK /\ Init => AccInv
<1> SUFFICES ASSUME TypeOK, Init PROVE AccInv
  OBVIOUS
<1>1. ASSUME NEW q \in Queues PROVE Split(q, <<>>) /\ Counted(q) = <<>>
  <2>1. commands[q] = <<>> /\ since[q] = <<>> /\ pass = BetweenPasses
    BY <1>1, Zenon DEF Init
  <2>2. Pending(q) = <<>>
    BY <2>1 DEF Pending
  <2>3. Split(q, <<>>)
    BY <2>1, <2>2 DEF Split
  <2>4. <<>> \in Seq(Operations)
    OBVIOUS
  <2>5. Launches(<<>>) = <<>>
    <3>1. PICK g \in [0..Len(<<>>) -> Seq(Kernels)] : g[0] = <<>> /\ Launches(<<>>) = g[Len(<<>>)]
      BY <2>4, LaunchesLoop
    <3> QED BY <3>1
  <2>6. Counted(q) = <<>>
    BY <2>1, <2>3, <2>5, CountedParts DEF CountedFacts
  <2> QED BY <2>3, <2>6
<1>2. EndsPending
  BY <1>1, Zenon DEF EndsPending
<1>3. Consistent(epochs)
  BY DEF Init, Consistent, IsRecord
<1>4. ASSUME NEW q \in auto PROVE Covers(epochs, Counted(q)) /\ Accounts(q)
  <2>1. q \in Queues
    BY DEF Init
  <2>2. Counted(q) = <<>>
    BY <1>1, <2>1
  <2>3. accumulated[q] = NoRow
    BY <2>1 DEF Init
  <2>4. Covers(epochs, <<>>)
    BY DEF Covers
  <2> QED BY <2>2, <2>3, <2>4 DEF Accounts
<1> QED BY <1>2, <1>3, <1>4 DEF AccInv, Balanced

(* The queue a pass is at, and the one after it. *)
LEMMA PassFacts ==
  ASSUME TypeOK
  PROVE  pass.queue \in Int /\ \A q : [pass EXCEPT !.queue = q + 1].queue = q + 1
<1>1. pass \in [explicit : BOOLEAN, queue : 0..(NumQueues + 1)] /\ NumQueues \in Nat
  BY SelectionAssumption DEF TypeOK
<1> QED BY <1>1

(* Queues by number. *)
LEMMA QueueNumbers ==
  \A q \in Queues : /\ q \in Int /\ ~(q < BetweenPasses.queue)
                    /\ \A n \in Int : n > NumQueues => q < n
<1>1. NumQueues \in Nat /\ BetweenPasses.queue = 0
  BY SelectionAssumption DEF BetweenPasses
<1> QED BY <1>1 DEF Queues

(* Steps that add nothing to what is counted. *)
LEMMA CountsStay ==
  ASSUME TypeOK, TypeOK', EndsPending, CountedFacts, CountedFacts', NEW q \in Queues,
         \/ commands' = commands /\ since' = since /\ (q < pass'.queue <=> q < pass.queue)
         \/ \E op \in Operations, p \in Queues : Enqueue(p, op)
         \/ \E p \in Queues : DeleteCommand(p)
         \/ EndEpoch
  PROVE  (\E old : Split(q, old)') /\ Counted(q)' = Counted(q)
<1>1. PICK old : Split(q, old)
  BY DEF EndsPending
<1>2. CASE commands' = commands /\ since' = since /\ (q < pass'.queue <=> q < pass.queue)
  <2>1. Split(q, old)'
    BY <1>1, <1>2 DEF Split, Pending
  <2>2. Counted(q)' = Counted(q)
    BY <1>2 DEF Counted
  <2> QED BY <2>1, <2>2
<1>3. CASE \E op \in Operations, p \in Queues : Enqueue(p, op)
  <2>1. PICK op \in Operations, p \in Queues : Enqueue(p, op)
    BY <1>3
  <2>a. pass = BetweenPasses /\ pass' = pass
    BY <2>1, Zenon DEF Enqueue, Idle, passVars
  <2>2. /\ commands' = [commands EXCEPT ![p] = Append(@, [op |-> op, deleted |-> FALSE])]
        /\ since' = [since EXCEPT ![p] = Append(@, op)]
        /\ pass' = pass /\ ~(q < pass.queue)
    BY <2>1, <2>a, QueueNumbers, Zenon DEF Enqueue
  <2>3. Split(q, old)'
    <3>1. CASE q # p
      BY <1>1, <2>2, <3>1 DEF Split, Pending, TypeOK
    <3>2. CASE q = p
      <4>1. /\ since'[q] = Append(since[q], op)
            /\ commands'[q] = Append(commands[q], [op |-> op, deleted |-> FALSE])
        BY <2>2, <3>2 DEF TypeOK
      <4>2. Pending(q)' = Append(Pending(q), op)
        <5> DEFINE Cmd == [op : Operations, deleted : BOOLEAN]
        <5>1. commands[q] \in Seq(Cmd)
          BY DEF TypeOK, Operations
        <5> DEFINE cmd == [op |-> op, deleted |-> FALSE]
        <5>2. cmd \in Cmd /\ cmd.op = op
          OBVIOUS
        <5> DEFINE s == commands[q]
                   s2 == commands'[q]
        <5>3. s \in Seq(Cmd) /\ s2 = Append(s, cmd)
          BY <4>1, <5>1
        <5> HIDE DEF Cmd, cmd, s, s2
        <5>4. /\ Len(s) \in Nat /\ Len(s2) = Len(s) + 1 /\ s2[Len(s) + 1] = cmd
              /\ \A i \in 1..Len(s) : s2[i] = s[i]
          BY <5>2, <5>3
        <5>5. Pending(q)' = [i \in 1..Len(s2) |-> s2[i].op] /\ Pending(q) = [i \in 1..Len(s) |-> s[i].op]
          BY DEF Pending, s, s2
        <5> DEFINE a == Pending(q)
                   b == Pending(q)'
        <5>6. a \in Seq(Operations) /\ b \in Seq(Operations)
          BY DEF CountedFacts
        <5>7. /\ Len(a) = Len(s) /\ Len(b) = Len(a) + 1 /\ b[Len(a) + 1] = op
              /\ \A i \in 1..Len(a) : b[i] = a[i]
          BY <5>2, <5>4, <5>5
        <5> HIDE DEF a, b
        <5>8. b = Append(a, op)
          BY <5>6, <5>7
        <5> QED BY <5>8 DEF a, b
      <4>3. since[q] = old \o Pending(q) /\ old \in Seq(Operations) /\ Pending(q) \in Seq(Operations)
        BY <1>1 DEF Split, CountedFacts
      <4>4. Append(old \o Pending(q), op) = old \o Append(Pending(q), op)
        BY <4>3, AppendAfter, Zenon
      <4> QED BY <4>1, <4>2, <4>3, <4>4 DEF Split
    <3> QED BY <3>1, <3>2
  <2>4. Counted(q) = Launches(old) /\ Counted(q)' = Launches(old)
    BY <1>1, <2>2, <2>3 DEF CountedFacts
  <2> QED BY <2>3, <2>4
<1>4. CASE \E p \in Queues : DeleteCommand(p)
  <2>1. PICK p \in Queues : DeleteCommand(p)
    BY <1>4
  <2>2. PICK i \in DOMAIN commands[p] : commands' = [commands EXCEPT ![p][i].deleted = TRUE]
    BY <2>1 DEF DeleteCommand
  <2>3. since' = since /\ pass' = pass
    BY <2>1 DEF DeleteCommand, passVars
  <2>4. Pending(q)' = Pending(q)
    <3> DEFINE Cmd == [op : Operations, deleted : BOOLEAN]
    <3>1. commands \in [Queues -> Seq(Cmd)]
      BY DEF TypeOK, Operations
    <3> DEFINE s == commands[q]
               s2 == commands'[q]
    <3>2. s \in Seq(Cmd) /\ (s2 = s \/ (i \in DOMAIN s /\ s2 = [s EXCEPT ![i].deleted = TRUE]))
      BY <2>2, <3>1
    <3> HIDE DEF s, s2
    <3>3. \A j \in 1..Len(s) : s[j] \in Cmd
      <4>1. \A S : s \in Seq(S) => \A j \in 1..Len(s) : s[j] \in S
        OBVIOUS
      <4> QED BY <3>2, <4>1, Zenon
    <3>4. Len(s2) = Len(s) /\ \A j \in 1..Len(s) : s2[j].op = s[j].op
      BY <3>2, <3>3
    <3>5. [j \in 1..Len(s2) |-> s2[j].op] = [j \in 1..Len(s) |-> s[j].op]
      BY <3>4
    <3> QED BY <3>5 DEF Pending, s, s2
  <2>5. Split(q, old)'
    BY <1>1, <2>3, <2>4 DEF Split
  <2>6. Counted(q)' = Counted(q)
    BY <1>1, <2>3, <2>5, Zenon DEF CountedFacts
  <2> QED BY <2>5, <2>6
<1>5. CASE EndEpoch
  <2>1. /\ commands' = [p \in Queues |-> <<>>] /\ since' = since
        /\ pass' = BetweenPasses /\ pass.queue > NumQueues
    BY <1>5 DEF EndEpoch, Forget, Estimated
  <2>2. q < pass.queue /\ ~(q < pass'.queue)
    <3>1. pass.queue \in Int
      BY PassFacts
    <3> QED BY <2>1, <3>1, QueueNumbers
  <2>3. since[q] \in Seq(Operations)
    BY DEF TypeOK, Operations
  <2>4. Pending(q)' = <<>>
    BY <2>1 DEF Pending
  <2>5. Split(q, since[q])'
    BY <2>1, <2>3, <2>4 DEF Split
  <2>6. Counted(q) = Launches(since[q]) /\ Counted(q)' = Launches(since[q])
    BY <1>1, <2>1, <2>2, <2>5, Zenon DEF CountedFacts
  <2> QED BY <2>5, <2>6
<1> QED BY <1>2, <1>3, <1>4, <1>5

(* A queue that was estimated has counted its kernels. *)
LEMMA EstimateBalances ==
  ASSUME Unambiguous, TypeOK, TypeOK', AccInv, CountedFacts, CountedFacts',
         NEW q \in Queues, EstimateQueue(q)
  PROVE  AccInv'
<1>1. /\ pass.queue = q /\ pass' = [pass EXCEPT !.queue = q + 1]
      /\ scheduler' = scheduler /\ auto' = auto /\ commands' = commands /\ since' = since
  BY DEF EstimateQueue, Estimating, settings
<1>2. pass'.queue = q + 1 /\ q \in Int
  BY <1>1, PassFacts, QueueNumbers, Zenon
<1>3. \A p \in Queues : (\E old : Split(p, old)') /\ (p # q => Counted(p)' = Counted(p))
  <2>1. ASSUME NEW p \in Queues PROVE \E old : Split(p, old)'
    BY <1>1, Zenon DEF AccInv, EndsPending, Split, Pending
  <2>2. ASSUME NEW p \in Queues, p # q PROVE Counted(p)' = Counted(p)
    <3>1. p < pass'.queue <=> p < pass.queue
      BY <1>1, <1>2, <2>2, SelectionAssumption DEF Queues
    <3> QED BY <1>1, <3>1 DEF Counted
  <2> QED BY <2>1, <2>2
<1>4. EndsPending'
  BY <1>3 DEF EndsPending
<1>5. ASSUME scheduler = "segmented"
      PROVE  Consistent(epochs') /\ \A p \in auto : Covers(epochs', Counted(p)') /\ Accounts(p)'
  <2> DEFINE kernels == KernelsOf(commands[q])
             row == CostOf(kernels, epochs')
  <2>1. /\ Consistent(epochs) /\ \A p \in auto : Covers(epochs, Counted(p)) /\ Accounts(p)
    BY <1>5 DEF AccInv, Balanced
  <2>2. /\ Extends(epochs, epochs') /\ Consistent(epochs') /\ Covers(epochs', kernels)
        /\ accumulated' = IF kernels = <<>> THEN accumulated
                          ELSE [accumulated EXCEPT ![q] = Accumulate(@, row)]
    BY <1>5, <2>1, EstimateRecords
  <2>3. IsRecord(epochs) /\ IsRecord(epochs')
    BY <2>1, <2>2 DEF Consistent
  <2>4. kernels \in Seq(Kernels) /\ \A p \in auto : p \in Queues /\ Counted(p) \in Seq(Kernels)
    BY DEF CountedFacts, AccInv, EndsPending, TypeOK
  <2>5. ASSUME NEW p \in auto
        PROVE  /\ Covers(epochs', Counted(p))
               /\ accumulated[p] = IF Counted(p) = <<>> THEN NoRow ELSE CostOf(Counted(p), epochs')
               /\ CostOf(Counted(p), epochs') \in Rows
    <3>1. /\ Covers(epochs', Counted(p)) /\ CostOf(Counted(p), epochs') = CostOf(Counted(p), epochs)
          /\ CostOf(Counted(p), epochs) \in Rows
      BY <2>1, <2>2, <2>3, <2>4, CostKept
    <3>2. accumulated[p] = IF Counted(p) = <<>> THEN NoRow ELSE CostOf(Counted(p), epochs)
      BY <2>1, Zenon DEF Accounts
    <3> QED BY <3>1, <3>2
  <2>6. ASSUME NEW p \in auto, p # q PROVE Covers(epochs', Counted(p)') /\ Accounts(p)'
    <3>1. accumulated'[p] = accumulated[p]
      BY <2>2, <2>4, <2>6 DEF TypeOK
    <3>2. Counted(p)' = Counted(p)
      BY <1>3, <2>4, <2>6
    <3> QED BY <2>5, <3>1, <3>2, Zenon DEF Accounts
  <2>7. ASSUME q \in auto PROVE Covers(epochs', Counted(q)') /\ Accounts(q)'
    <3>1. PICK old : Split(q, old)
      BY DEF AccInv, EndsPending
    <3>2. Split(q, old)'
      BY <1>1, <3>1 DEF Split, Pending
    <3> DEFINE before == Counted(q)
               after == Counted(q)'
    <3>3. before = Launches(old) /\ before \in Seq(Kernels)
      BY <1>1, <1>2, <3>1 DEF CountedFacts
    <3>4. after = Launches(since'[q]) /\ after \in Seq(Kernels)
      BY <1>2, <3>2 DEF CountedFacts
    <3>5. after = before \o kernels
      <4>1. since'[q] = since[q]
        BY <1>1
      <4>2. after = Launches(since[q])
        BY <3>4, <4>1, Zenon
      <4>3. Launches(since[q]) = Launches(old) \o kernels
        BY <3>1, Zenon DEF CountedFacts
      <4> QED BY <3>3, <4>2, <4>3, Zenon
    <3>6. /\ Covers(epochs', before)
          /\ accumulated[q] = IF before = <<>> THEN NoRow ELSE CostOf(before, epochs')
          /\ CostOf(before, epochs') \in Rows
      BY <2>5, <2>7
    <3>a. Accounts(q)' <=> accumulated'[q] = IF after = <<>> THEN NoRow ELSE CostOf(after, epochs')
      BY Zenon DEF Accounts
    <3> HIDE DEF before, after, kernels
    <3>7. Covers(epochs', after)
      <4>1. ASSUME NEW i \in 1..Len(after) PROVE Name[after[i]] \in DOMAIN epochs'
        <5>1. CASE i <= Len(before)
          BY <2>4, <3>3, <3>5, <3>6, <5>1 DEF Covers
        <5>2. CASE i > Len(before)
          <6>1. i - Len(before) \in 1..Len(kernels) /\ after[i] = kernels[i - Len(before)]
            BY <2>4, <3>3, <3>5, <5>2
          <6> QED BY <2>2, <6>1 DEF Covers
        <5> QED BY <3>3, <5>1, <5>2
      <4> QED BY <4>1 DEF Covers
    <3>8. CostOf(after, epochs') = Plus(CostOf(before, epochs'), row) /\ row \in Rows
      <4>1. /\ \A i \in 1..Len(before) : epochs'[Name[before[i]]] \in Rows
            /\ \A i \in 1..Len(kernels) : epochs'[Name[kernels[i]]] \in Rows
        BY <2>2, <2>3, <3>6, Zenon DEF Covers, IsRecord
      <4> QED BY <2>4, <3>3, <3>5, <4>1, CostConcat
    <3> HIDE DEF row
    <3>9. accumulated'[q] = IF after = <<>> THEN NoRow ELSE CostOf(after, epochs')
      <4>1. CASE kernels = <<>>
        <5>1. after = before
          BY <3>3, <3>5, <4>1
        <5> QED BY <2>2, <3>6, <4>1, <5>1
      <4>2. CASE kernels # <<>>
        <5>1. after # <<>>
          BY <2>4, <3>3, <3>5, <4>2
        <5>2. accumulated'[q] = Accumulate(accumulated[q], row)
          BY <2>2, <4>2 DEF TypeOK
        <5>3. CASE before = <<>>
          <6>1. after = kernels
            BY <2>4, <3>5, <5>3
          <6>2. accumulated'[q] = row
            BY <3>6, <5>2, <5>3 DEF Accumulate
          <6> QED BY <5>1, <6>1, <6>2 DEF row
        <5>4. CASE before # <<>>
          <6>1. accumulated[q] = CostOf(before, epochs') /\ accumulated[q] # NoRow
            BY <3>6, <5>4, RowFacts
          <6> QED BY <3>8, <5>1, <5>2, <6>1, Zenon DEF Accumulate
        <5> QED BY <5>3, <5>4
      <4> QED BY <4>1, <4>2
    <3> QED BY <3>7, <3>9, <3>a DEF after
  <2> QED BY <2>2, <2>6, <2>7
<1> QED BY <1>1, <1>4, <1>5 DEF AccInv, Balanced

(* A decision starts the counts again. *)
LEMMA DecisionBalances ==
  ASSUME TypeOK, TypeOK', CountedFacts', Synchronise \/ BindByPass
  PROVE  AccInv'
<1>1. /\ commands' = [q \in Queues |-> <<>>] /\ since' = [q \in Queues |-> <<>>]
      /\ pass' = BetweenPasses /\ scheduler' = scheduler /\ auto' = auto
  BY DEF Synchronise, BindByPass, Forget, settings
<1>2. Launches(<<>>) = <<>> /\ <<>> \in Seq(Operations)
  <2>1. <<>> \in Seq(Operations)
    OBVIOUS
  <2>2. PICK g \in [0..Len(<<>>) -> Seq(Kernels)] : g[0] = <<>> /\ Launches(<<>>) = g[Len(<<>>)]
    BY <2>1, LaunchesLoop
  <2> QED BY <2>1, <2>2
<1>3. ASSUME NEW q \in Queues PROVE Split(q, <<>>)' /\ Counted(q)' = <<>>
  <2>1. commands'[q] = <<>> /\ since'[q] = <<>>
    BY <1>1
  <2>2. Pending(q)' = <<>>
    BY <2>1 DEF Pending
  <2>3. Split(q, <<>>)'
    BY <1>2, <2>1, <2>2 DEF Split
  <2>4. Counted(q)' = <<>>
    BY <1>2, <2>1, <2>3 DEF CountedFacts
  <2> QED BY <2>3, <2>4
<1>4. EndsPending'
  BY <1>3, Zenon DEF EndsPending
<1>5. ASSUME scheduler = "segmented"
      PROVE  Consistent(epochs') /\ \A q \in auto : Covers(epochs', Counted(q)') /\ Accounts(q)'
  <2>1. epochs' = <<>> /\ accumulated' = [q \in Queues |-> NoRow]
    BY <1>5 DEF Synchronise, BindByPass
  <2>2. Consistent(epochs')
    BY <2>1 DEF Consistent, IsRecord
  <2>3. ASSUME NEW q \in auto PROVE Covers(epochs', Counted(q)') /\ Accounts(q)'
    <3>1. q \in Queues
      BY DEF TypeOK
    <3>2. Counted(q)' = <<>> /\ accumulated'[q] = NoRow
      BY <1>3, <2>1, <3>1
    <3>3. Covers(epochs', <<>>)
      BY DEF Covers
    <3> QED BY <3>2, <3>3 DEF Accounts
  <2> QED BY <2>2, <2>3
<1> QED BY <1>1, <1>4, <1>5 DEF AccInv, Balanced

(* The balance is inductive. *)
LEMMA AccStep ==
  ASSUME Unambiguous, TypeOK, TypeOK', AccInv, [Next]_vars
  PROVE  AccInv'
<1>1. CountedFacts /\ CountedFacts'
  <2>1. CountedFacts
    BY CountedParts
  <2>2. TypeOK' => CountedFacts'
    BY CountedParts, PTL
  <2> QED BY <2>1, <2>2
<1>2. CASE \E q \in Queues : EstimateQueue(q)
  BY <1>1, <1>2, EstimateBalances
<1>3. CASE Synchronise \/ BindByPass
  BY <1>1, <1>3, DecisionBalances
<1>4. ASSUME scheduler' = scheduler, auto' = auto, accumulated' = accumulated, epochs' = epochs,
             \A q \in Queues : \E old : Split(q, old)',
             scheduler = "segmented" => \A q \in auto : Counted(q)' = Counted(q)
      PROVE  AccInv'
  <2>1. EndsPending'
    BY <1>4, Zenon DEF EndsPending
  <2>2. Balanced'
    <3>1. CASE scheduler = "segmented"
      BY <1>4, <3>1, NothingCounted DEF AccInv
    <3>2. CASE scheduler # "segmented"
      BY <1>4, <3>2 DEF Balanced
    <3> QED BY <3>1, <3>2
  <2> QED BY <2>1, <2>2 DEF AccInv
<1>q. auto \subseteq Queues /\ EndsPending
  BY DEF TypeOK, AccInv
<1>5. CASE \/ \E op \in Operations, p \in Queues : Enqueue(p, op)
           \/ \E p \in Queues : DeleteCommand(p)
           \/ EndEpoch
  <2>1. \A q \in Queues : (\E old : Split(q, old)') /\ Counted(q)' = Counted(q)
    BY <1>1, <1>5, <1>q, CountsStay
  <2>2. scheduler' = scheduler /\ auto' = auto /\ accumulated' = accumulated /\ epochs' = epochs
    <3>1. CASE \E op \in Operations, p \in Queues : Enqueue(p, op)
      BY <3>1, Zenon DEF Enqueue, settings
    <3>2. CASE \E p \in Queues : DeleteCommand(p)
      BY <3>2, Zenon DEF DeleteCommand, settings
    <3>3. CASE EndEpoch
      BY <3>3, Zenon DEF EndEpoch, Forget, settings
    <3> QED BY <1>5, <3>1, <3>2, <3>3
  <2> QED BY <1>4, <1>q, <2>1, <2>2
<1>6. ASSUME commands' = commands, since' = since,
             scheduler' = scheduler, auto' = auto, accumulated' = accumulated, epochs' = epochs,
             scheduler = "segmented" => \A q \in auto : q < pass'.queue <=> q < pass.queue
      PROVE  AccInv'
  <2>1. \A q \in Queues : \E old : Split(q, old)'
    BY <1>6, <1>q, Zenon DEF EndsPending, Split, Pending
  <2>2. scheduler = "segmented" => \A q \in auto : Counted(q)' = Counted(q)
    BY <1>6 DEF Counted
  <2> QED BY <1>4, <1>6, <2>1, <2>2
<1>7. CASE \E p \in Queues : SkipQueue(p)
  <2>1. PICK p \in Queues : SkipQueue(p)
    BY <1>7
  <2>2. /\ commands' = commands /\ since' = since
        /\ scheduler' = scheduler /\ auto' = auto /\ accumulated' = accumulated /\ epochs' = epochs
        /\ pass.queue = p /\ pass' = [pass EXCEPT !.queue = p + 1]
        /\ ~Considered(p)
    BY <2>1, Zenon DEF SkipQueue, Estimating, settings
  <2>3. pass'.queue = p + 1
    BY <2>2, PassFacts, Zenon
  <2>4. ASSUME scheduler = "segmented", NEW q \in auto PROVE q < pass'.queue <=> q < pass.queue
    <3>1. p \notin auto
      BY <2>2, <2>4 DEF Considered
    <3>2. q \in Int /\ p \in Int /\ q # p
      BY <1>q, <3>1, QueueNumbers
    <3> QED BY <2>2, <2>3, <3>2
  <2> QED BY <1>6, <2>2, <2>4
<1>8. CASE \E explicit \in BOOLEAN : BeginPass(explicit)
  <2>1. PICK explicit \in BOOLEAN : BeginPass(explicit)
    BY <1>8
  <2>2. /\ commands' = commands /\ since' = since
        /\ scheduler' = scheduler /\ auto' = auto /\ accumulated' = accumulated /\ epochs' = epochs
        /\ pass = BetweenPasses /\ pass' = [explicit |-> explicit, queue |-> 1]
    BY <2>1, Zenon DEF BeginPass, Idle, settings
  <2>3. \A q \in Queues : ~(q < pass'.queue) /\ ~(q < pass.queue)
    <3>1. pass'.queue = 1 /\ pass.queue = 0
      BY <2>2 DEF BetweenPasses
    <3>2. \A q \in Queues : ~(q < 0) /\ ~(q < 1)
      BY SelectionAssumption DEF Queues
    <3> QED BY <3>1, <3>2, Zenon
  <2> QED BY <1>6, <1>q, <2>2, <2>3
<1>9. CASE (\E q \in Queues : ReadDeleted(q)) \/ RoundRobin \/ AddToMissingRow \/ UNCHANGED vars
  <2>1. /\ commands' = commands /\ since' = since /\ pass' = pass
        /\ scheduler' = scheduler /\ auto' = auto /\ accumulated' = accumulated /\ epochs' = epochs
    BY <1>9 DEF ReadDeleted, RoundRobin, AddToMissingRow, Crash, vars, settings, passVars
  <2> QED BY <1>6, <2>1
<1> QED BY <1>2, <1>3, <1>5, <1>7, <1>8, <1>9, Zenon DEF Next, Operations

(* When kernels' names put together cannot be mistaken for those of others, *)
(* a queue has accumulated, at any moment between two explicit             *)
(* synchronisations, the costs of the kernels that were counted, each      *)
(* once: whichever pass counted them, and whether by an estimate, by a     *)
(* name's record or by an epoch's. *)
THEOREM Accounted == ASSUME Unambiguous PROVE Spec => []Accounting
<1>1. Init => AccInv
  BY AccInitial, TypeInitial
<1>2. TypeOK /\ TypeOK' /\ AccInv /\ [Next]_vars => AccInv'
  BY AccStep
<1>3. Spec => []TypeOK
  BY TypeCorrect
<1> QED BY <1>1, <1>2, <1>3, AccImplies, PTL DEF Spec

=============================================================================
