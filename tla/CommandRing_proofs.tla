------------------------- MODULE CommandRing_proofs -------------------------
(***************************************************************************)
(* The ring of commands is a bounded FIFO queue for any number of          *)
(* producers and any size, as long as no producer misses a whole lap of    *)
(* claims between its read of idx_w_cas_ and its swap: MaxLag < Size.      *)
(***************************************************************************)
EXTENDS CommandRing, Integers, SequenceTheorems, TLAPS

(* The three indices are met in the order idx_r_, idx_w_, idx_w_cas_. *)
Ordered == Ahead(idxR, idxW) + Ahead(idxW, idxWcas) = Ahead(idxR, idxWcas)

(* lag is how far idx_w_cas_ has gone from the index a producer has read. *)
LagExact ==
  \A p \in Producers : at[p] \in {"check", "claim"} => Ahead(prev[p], idxWcas) = lag[p]

(* A swap that is going to succeed finds the ring not full. *)
ClaimFits ==
  \A p \in Producers : at[p] = "claim" /\ lag[p] = 0 => Succ(idxWcas) # idxR

(* A producer carries its command to its slot. *)
Carried ==
  \A p \in Producers :
    /\ at[p] # "idle" => value[p] \in Values
    /\ at[p] = "publish" => elements[prev[p]] = value[p]

(* What the consumer has read is still at the head of the ring. *)
InHand ==
  /\ consumerAt = "advance" => idxR # idxW /\ taken = elements[idxR]
  /\ peeked # None => idxR # idxW /\ peeked = elements[idxR]

RingInv ==
  /\ TypeOK /\ Ordered /\ LagExact /\ ClaimFits /\ ExclusiveSlots /\ Carried /\ InHand

-----------------------------------------------------------------------------
(* Going round the ring *)

(* The remainder of what has gone past the last slot once at most. *)
LEMMA Wrap ==
  ASSUME NEW a \in 0 .. 2 * Size - 1
  PROVE  a % Size = IF a < Size THEN a ELSE a - Size
  BY RingAssumption

(* Succ() and Ahead() without remainders. *)
LEMMA RingValues ==
  ASSUME NEW i \in Slots, NEW j \in Slots
  PROVE  /\ Succ(i) = IF i = Size - 1 THEN 0 ELSE i + 1
         /\ Succ(i) \in Slots
         /\ Ahead(i, j) = IF i <= j THEN j - i ELSE j + Size - i
         /\ Ahead(i, j) \in Slots
<1>s. Size \in Nat /\ Size >= 2
  BY RingAssumption
<1> DEFINE a == i + 1
           b == j + Size - i
<1>1. a \in 0 .. 2 * Size - 1 /\ b \in 0 .. 2 * Size - 1
  BY <1>s DEF Slots
<1> HIDE DEF a, b
<1>2. a % Size = IF a < Size THEN a ELSE a - Size
  BY <1>1, Wrap
<1>3. b % Size = IF b < Size THEN b ELSE b - Size
  BY <1>1, Wrap
<1>4. Succ(i) = IF i = Size - 1 THEN 0 ELSE i + 1
  BY <1>s, <1>2 DEF Succ, Slots, a
<1>5. Ahead(i, j) = IF i <= j THEN j - i ELSE j + Size - i
  BY <1>s, <1>3 DEF Ahead, Slots, b
<1> QED BY <1>s, <1>4, <1>5 DEF Slots

(* Distances are below the size of the ring. *)
LEMMA AheadBounds ==
  ASSUME NEW i \in Slots, NEW j \in Slots
  PROVE  Ahead(i, j) \in Nat /\ Ahead(i, j) < Size /\ Size \in Nat
<1>1. Ahead(i, j) \in 0 .. Size - 1
  BY RingValues DEF Slots
<1> QED BY <1>1, RingAssumption

(* The distance between two indices when one of them goes on. *)
LEMMA Moving ==
  ASSUME NEW i \in Slots, NEW j \in Slots
  PROVE  /\ Ahead(i, j) = 0 <=> i = j
         /\ Succ(j) # i => Ahead(i, Succ(j)) = Ahead(i, j) + 1
         /\ Ahead(i, j) < Size - 1 => Succ(j) # i
         /\ Ahead(i, j) < Size
         /\ i # j => Ahead(Succ(i), j) = Ahead(i, j) - 1
         /\ i # j => Succ(i) # Succ(j)
<1>s. Size \in Nat /\ Size >= 2
  BY RingAssumption
<1>1. Succ(i) \in Slots /\ Succ(j) \in Slots
  BY RingValues
<1>2. /\ Ahead(i, j) = IF i <= j THEN j - i ELSE j + Size - i
      /\ Ahead(i, Succ(j)) = IF i <= Succ(j) THEN Succ(j) - i ELSE Succ(j) + Size - i
      /\ Ahead(Succ(i), j) = IF Succ(i) <= j THEN j - Succ(i) ELSE j + Size - Succ(i)
      /\ Succ(i) = IF i = Size - 1 THEN 0 ELSE i + 1
      /\ Succ(j) = IF j = Size - 1 THEN 0 ELSE j + 1
  BY <1>1, RingValues
<1> QED BY <1>s, <1>1, <1>2 DEF Slots

(* The index that is k steps from i. *)
LEMMA Steps ==
  ASSUME NEW i \in Slots, NEW k \in 1 .. Size
  PROVE  /\ (i + k - 1) % Size \in Slots
         /\ Ahead(i, (i + k - 1) % Size) = k - 1
         /\ k < Size => (Succ(i) + k - 1) % Size = (i + (k + 1) - 1) % Size
         /\ k = 1 => (i + k - 1) % Size = i
<1>s. Size \in Nat /\ Size >= 2
  BY RingAssumption
<1> DEFINE a == i + k - 1
           b == Succ(i) + k - 1
           c == i + (k + 1) - 1
<1>1. Succ(i) \in Slots /\ Succ(i) = IF i = Size - 1 THEN 0 ELSE i + 1
  BY RingValues
<1>2. a \in 0 .. 2 * Size - 1 /\ b \in 0 .. 2 * Size - 1
  BY <1>s, <1>1 DEF Slots
<1>3. c \in 0 .. 2 * Size - 1
  BY <1>s DEF Slots
<1>4. b = IF i = Size - 1 THEN k - 1 ELSE i + k
  BY <1>s, <1>1 DEF Slots
<1>5. a = i + k - 1 /\ c = i + k
  BY <1>s DEF Slots
<1>6. i \in Nat /\ i < Size /\ k \in Nat /\ 1 <= k /\ k <= Size
  BY <1>s DEF Slots
<1> HIDE DEF a, b, c
<1>7. /\ a % Size = IF a < Size THEN a ELSE a - Size
      /\ b % Size = IF b < Size THEN b ELSE b - Size
      /\ c % Size = IF c < Size THEN c ELSE c - Size
  BY <1>2, <1>3, Wrap
<1>8. a % Size \in Slots
  BY <1>s, <1>2, <1>7 DEF Slots
<1>9. Ahead(i, a % Size) = IF i <= a % Size THEN (a % Size) - i ELSE (a % Size) + Size - i
  BY <1>8, RingValues
<1>10. Ahead(i, a % Size) = k - 1
  BY <1>s, <1>5, <1>6, <1>7, <1>9
<1>11. k < Size => b % Size = c % Size
  BY <1>s, <1>4, <1>5, <1>6, <1>7
<1>12. k = 1 => a % Size = i
  BY <1>s, <1>5, <1>6, <1>7
<1> QED BY <1>8, <1>10, <1>11, <1>12 DEF a, b, c

(* An index is its distance, and one that lies before j, seen from i, is   *)
(* beyond every k that i sees after j. *)
LEMMA Distances ==
  ASSUME NEW i \in Slots, NEW j \in Slots, NEW k \in Slots
  PROVE  /\ Ahead(i, j) = Ahead(i, k) => j = k
         /\ Ahead(i, k) < Ahead(i, j) => Ahead(j, k) = Ahead(i, k) + Size - Ahead(i, j)
<1>s. Size \in Nat /\ Size >= 2
  BY RingAssumption
<1>1. /\ Ahead(i, j) = IF i <= j THEN j - i ELSE j + Size - i
      /\ Ahead(i, k) = IF i <= k THEN k - i ELSE k + Size - i
      /\ Ahead(j, k) = IF j <= k THEN k - j ELSE k + Size - j
  BY RingValues
<1> QED BY <1>s, <1>1 DEF Slots

-----------------------------------------------------------------------------
(* Every step keeps RingInv *)

(* The types of the variables, for every schedule. *)
LEMMA TypeStep ==
  ASSUME TypeOK, [Next]_vars
  PROVE  TypeOK'
<1>s. Size \in Nat /\ MaxLag \in Nat
  BY RingAssumption
<1>1. ASSUME NEW p \in Producers, NEW v \in Values, Enqueue(p, v)
      PROVE  TypeOK'
  BY <1>1 DEF TypeOK, Enqueue, consumerVars
<1>2. ASSUME NEW p \in Producers, LoadIndex(p)
      PROVE  TypeOK'
  BY <1>s, <1>2 DEF TypeOK, LoadIndex, consumerVars
<1>3. ASSUME NEW p \in Producers, CheckFull(p)
      PROVE  TypeOK'
  BY <1>3 DEF TypeOK, CheckFull, consumerVars
<1>4. ASSUME NEW p \in Producers, Claim(p)
      PROVE  TypeOK'
  <2>1. Succ(prev[p]) \in Slots
    BY RingValues DEF TypeOK
  <2>2. lag' \in [Producers -> 0 .. MaxLag]
    BY <1>s, <1>4 DEF TypeOK, Claim, consumerVars
  <2> QED BY <1>4, <2>1, <2>2 DEF TypeOK, Claim, consumerVars
<1>5. ASSUME NEW p \in Producers, WriteElement(p)
      PROVE  TypeOK'
  BY <1>5 DEF TypeOK, WriteElement, consumerVars
<1>6. ASSUME NEW p \in Producers, Publish(p)
      PROVE  TypeOK'
  <2>1. Succ(prev[p]) \in Slots
    BY RingValues DEF TypeOK
  <2> QED BY <1>6, <2>1 DEF TypeOK, Publish, consumerVars
<1>7. CASE Peek
  BY <1>7 DEF TypeOK, Peek, producerVars
<1>8. CASE ReadElement
  BY <1>8 DEF TypeOK, ReadElement, producerVars
<1>9. CASE Advance
  <2>1. Succ(idxR) \in Slots
    BY RingValues DEF TypeOK
  <2> QED BY <1>9, <2>1 DEF TypeOK, Advance, producerVars
<1>10. CASE UNCHANGED vars
  BY <1>10 DEF TypeOK, vars, producerVars, consumerVars
<1> QED
  BY <1>1, <1>2, <1>3, <1>4, <1>5, <1>6, <1>7, <1>8, <1>9, <1>10
  DEF Next, Producer, Consumer

(* LoadIndex(), CheckFull() and the call of Enqueue(). *)
LEMMA BeforeSwap ==
  ASSUME MaxLag < Size, RingInv, NEW p \in Producers,
         LoadIndex(p) \/ CheckFull(p) \/ \E v \in Values : Enqueue(p, v), TypeOK'
  PROVE  RingInv'
<1>f. UNCHANGED <<idxR, idxW, idxWcas, elements, consumerVars>>
  BY DEF LoadIndex, CheckFull, Enqueue
<1>t. /\ idxWcas \in Slots /\ prev \in [Producers -> Slots]
      /\ at \in [Producers -> {"idle", "load", "check", "claim", "write", "publish"}]
      /\ lag \in [Producers -> 0 .. MaxLag] /\ value \in [Producers -> Values \cup {None}]
  BY DEF RingInv, TypeOK
<1>1. Ordered' /\ InHand'
  BY <1>f DEF RingInv, Ordered, InHand, Ahead, consumerVars
<1>2. LagExact'
  <2>1. Ahead(idxWcas, idxWcas) = 0
    BY <1>t, Moving
  <2>2. \A o \in Producers : Ahead(prev[o], idxWcas)' = Ahead(prev'[o], idxWcas)
    BY <1>f DEF Ahead
  <2> QED BY <1>t, <2>1, <2>2 DEF RingInv, LagExact, LoadIndex, CheckFull, Enqueue
<1>3. ClaimFits'
  <2>1. at[p] = "check" /\ lag[p] = 0 => prev[p] = idxWcas
    BY <1>t, Moving DEF RingInv, LagExact
  <2> QED BY <1>f, <1>t, <2>1 DEF RingInv, ClaimFits, LoadIndex, CheckFull, Enqueue, Succ
<1>4. ExclusiveSlots'
  BY <1>f, <1>t DEF RingInv, ExclusiveSlots, LoadIndex, CheckFull, Enqueue, Ahead
<1>5. Carried'
  BY <1>f, <1>t DEF RingInv, Carried, LoadIndex, CheckFull, Enqueue
<1> QED BY <1>1, <1>2, <1>3, <1>4, <1>5 DEF RingInv

(* A swap that succeeds finds idx_w_cas_ where its thread read it, and not *)
(* a lap ahead: the ring is not full, and the slot is nobody's. *)
LEMMA ClaimStep ==
  ASSUME MaxLag < Size, RingInv, NEW p \in Producers, Claim(p), TypeOK'
  PROVE  RingInv'
<1>f. UNCHANGED <<idxR, idxW, elements, value, prev, consumerVars>>
  BY DEF Claim
<1>t. /\ idxR \in Slots /\ idxW \in Slots /\ idxWcas \in Slots /\ prev \in [Producers -> Slots]
      /\ at \in [Producers -> {"idle", "load", "check", "claim", "write", "publish"}]
      /\ lag \in [Producers -> 0 .. MaxLag]
  BY DEF RingInv, TypeOK
<1>s. Size \in Nat /\ MaxLag \in Nat
  BY RingAssumption
<1>1. CASE idxWcas # prev[p]
  <2>1. UNCHANGED <<idxWcas, lag>> /\ at' = [at EXCEPT ![p] = "load"]
    BY <1>1 DEF Claim
  <2>2. Ordered' /\ InHand'
    BY <1>f, <2>1 DEF RingInv, Ordered, InHand, Ahead, consumerVars
  <2>3. LagExact'
    BY <1>f, <1>t, <2>1 DEF RingInv, LagExact, Ahead
  <2>4. ClaimFits'
    BY <1>f, <1>t, <2>1 DEF RingInv, ClaimFits, Succ
  <2>5. ExclusiveSlots'
    BY <1>f, <1>t, <2>1 DEF RingInv, ExclusiveSlots, Ahead
  <2>6. Carried'
    <3>1. ASSUME NEW o \in Producers
          PROVE  (at'[o] = "publish" => at[o] = "publish") /\ (at'[o] # "idle" => at[o] # "idle")
      BY <1>t, <2>1 DEF Claim
    <3> QED BY <1>f, <3>1 DEF RingInv, Carried
  <2> QED BY <2>2, <2>3, <2>4, <2>5, <2>6 DEF RingInv
<1>2. CASE idxWcas = prev[p]
  <2>1. /\ at[p] = "claim" /\ at' = [at EXCEPT ![p] = "write"]
        /\ idxWcas' = Succ(idxWcas)
        /\ \A o \in Racing(p) : lag[o] < MaxLag
        /\ lag' = [o \in Producers |-> IF o \in Racing(p) THEN lag[o] + 1 ELSE lag[o]]
    BY <1>2 DEF Claim
  <2>2. lag[p] = 0
    BY <1>2, <1>t, <2>1, Moving DEF RingInv, LagExact
  <2>3. Succ(idxWcas) # idxR
    BY <2>1, <2>2 DEF RingInv, ClaimFits
  <2>4. /\ Ahead(idxR, idxW) \in Slots /\ Ahead(idxW, idxWcas) \in Slots
        /\ Ahead(idxR, idxWcas) \in Slots /\ Succ(idxWcas) \in Slots
    BY <1>t, RingValues
  <2>5. Ahead(idxR, Succ(idxWcas)) = Ahead(idxR, idxWcas) + 1
    BY <1>t, <2>3, Moving
  <2>6. Ahead(idxW, idxWcas) < Size - 1
    <3>1. Ahead(idxR, Succ(idxWcas)) \in Slots
      BY <1>t, <2>4, RingValues
    <3> QED BY <1>s, <2>4, <2>5, <3>1 DEF RingInv, Ordered, Slots
  <2>7. Ahead(idxW, Succ(idxWcas)) = Ahead(idxW, idxWcas) + 1
    BY <1>t, <2>6, Moving
  <2>8. Ordered'
    BY <1>f, <1>s, <2>1, <2>4, <2>5, <2>7 DEF RingInv, Ordered, Ahead, Slots
  <2>9. LagExact'
    <3>1. ASSUME NEW o \in Producers, at'[o] \in {"check", "claim"}
          PROVE  Ahead(prev[o], Succ(idxWcas)) = lag'[o]
      <4>1. o \in Racing(p) /\ at[o] \in {"check", "claim"}
        BY <1>t, <2>1, <3>1 DEF Racing
      <4>2. lag[o] < MaxLag /\ lag[o] \in Nat /\ lag'[o] = lag[o] + 1
        BY <1>s, <1>t, <2>1, <4>1
      <4>3. Ahead(prev[o], idxWcas) = lag[o]
        BY <4>1 DEF RingInv, LagExact
      <4>4. Ahead(prev[o], idxWcas) < Size - 1
        BY <1>s, <4>2, <4>3
      <4> QED BY <1>t, <4>2, <4>3, <4>4, Moving
    <3> QED BY <1>f, <2>1, <3>1 DEF LagExact, Ahead
  <2>10. ClaimFits'
    <3>1. ASSUME NEW o \in Producers, at'[o] = "claim"
          PROVE  lag'[o] # 0
      BY <1>s, <1>t, <2>1, <3>1 DEF Racing
    <3> QED BY <3>1 DEF ClaimFits
  <2>11. ExclusiveSlots'
    <3>1. ASSUME NEW o \in Producers, o # p, at'[o] \in {"write", "publish"}
          PROVE  /\ at[o] \in {"write", "publish"}
                 /\ Ahead(idxW, prev[o]) < Ahead(idxW, idxWcas)
                 /\ Ahead(idxW, prev[o]) \in Slots
                 /\ prev[o] # prev[p]
      <4>1. at[o] \in {"write", "publish"}
        BY <1>t, <2>1, <3>1
      <4>2. Ahead(idxW, prev[o]) < Ahead(idxW, idxWcas)
        BY <4>1 DEF RingInv, ExclusiveSlots
      <4>3. Ahead(idxW, prev[o]) \in Slots
        BY <1>t, RingValues
      <4> QED BY <1>2, <1>s, <2>4, <4>1, <4>2, <4>3 DEF Slots
    <3>2. ASSUME NEW o \in Producers, at'[o] \in {"write", "publish"}
          PROVE  Ahead(idxW, prev[o]) < Ahead(idxW, Succ(idxWcas))
      BY <1>2, <1>s, <2>4, <2>7, <3>1, <3>2 DEF Slots
    <3>3. ASSUME NEW o \in Producers, NEW q \in Producers \ {o},
                 at'[o] \in {"write", "publish"}, at'[q] \in {"write", "publish"}
          PROVE  prev[q] # prev[o]
      BY <3>1, <3>3 DEF RingInv, ExclusiveSlots
    <3> QED BY <1>f, <2>1, <3>2, <3>3 DEF ExclusiveSlots, Ahead
  <2>12. Carried' /\ InHand'
    BY <1>f, <1>t, <2>1 DEF RingInv, Carried, InHand, consumerVars
  <2> QED BY <2>8, <2>9, <2>10, <2>11, <2>12 DEF RingInv
<1> QED BY <1>1, <1>2

(* The slot of a producer between its swaps is none that the consumer may  *)
(* read. *)
LEMMA SlotHidden ==
  ASSUME RingInv, NEW p \in Producers, at[p] \in {"write", "publish"},
         NEW q \in Slots, Ahead(idxR, q) < Ahead(idxR, idxW)
  PROVE  q # prev[p]
<1>s. Size \in Nat /\ Size >= 2
  BY RingAssumption
<1>t. idxR \in Slots /\ idxW \in Slots /\ idxWcas \in Slots /\ prev[p] \in Slots
  BY DEF RingInv, TypeOK
<1>1. /\ Ahead(idxR, q) \in Slots /\ Ahead(idxR, idxW) \in Slots
      /\ Ahead(idxW, idxWcas) \in Slots /\ Ahead(idxR, idxWcas) \in Slots
  BY <1>t, RingValues
<1>2. Ahead(idxW, q) = Ahead(idxR, q) + Size - Ahead(idxR, idxW)
  BY <1>t, Distances
<1>3. Ahead(idxW, idxWcas) = Ahead(idxR, idxWcas) - Ahead(idxR, idxW)
  BY <1>1 DEF RingInv, Ordered, Slots
<1>4. ~(Ahead(idxW, q) < Ahead(idxW, idxWcas))
  BY <1>s, <1>1, <1>2, <1>3 DEF Slots
<1> QED BY <1>4 DEF RingInv, ExclusiveSlots

(* A command is written where no other producer writes and the consumer    *)
(* does not look. *)
LEMMA WriteStep ==
  ASSUME MaxLag < Size, RingInv, NEW p \in Producers, WriteElement(p), TypeOK'
  PROVE  RingInv'
<1>f. UNCHANGED <<idxR, idxW, idxWcas, value, prev, lag, consumerVars>>
  BY DEF WriteElement
<1>t. /\ idxR \in Slots /\ idxW \in Slots /\ prev \in [Producers -> Slots]
      /\ elements \in [Slots -> Values \cup {None}]
      /\ at \in [Producers -> {"idle", "load", "check", "claim", "write", "publish"}]
  BY DEF RingInv, TypeOK
<1>1. /\ at[p] = "write" /\ at' = [at EXCEPT ![p] = "publish"]
      /\ elements' = [elements EXCEPT ![prev[p]] = value[p]]
  BY DEF WriteElement
<1>2. Ordered' /\ LagExact' /\ ClaimFits'
  BY <1>f, <1>t, <1>1 DEF RingInv, Ordered, LagExact, ClaimFits, Ahead, Succ
<1>3. ExclusiveSlots'
  BY <1>f, <1>t, <1>1 DEF RingInv, ExclusiveSlots, Ahead
<1>4. Carried'
  <2>1. ASSUME NEW o \in Producers \ {p}, at[o] = "publish"
        PROVE  prev[o] # prev[p]
    BY <1>1, <2>1 DEF RingInv, ExclusiveSlots
  <2> QED BY <1>f, <1>t, <1>1, <2>1 DEF RingInv, Carried
<1>5. InHand'
  <2>1. idxR # idxW => elements'[idxR] = elements[idxR]
    <3>1. Ahead(idxR, idxR) = 0 /\ (idxR # idxW => Ahead(idxR, idxW) # 0)
          /\ Ahead(idxR, idxW) \in Slots
      BY <1>t, Moving, RingValues
    <3>2. idxR # idxW => Ahead(idxR, idxR) < Ahead(idxR, idxW)
      BY <3>1, RingAssumption DEF Slots
    <3>3. idxR # idxW => idxR # prev[p]
      BY <1>t, <1>1, <3>2, SlotHidden
    <3> QED BY <1>t, <1>1, <3>3
  <2> QED BY <1>f, <2>1 DEF RingInv, InHand, consumerVars
<1> QED BY <1>2, <1>3, <1>4, <1>5 DEF RingInv

(* The slots become visible in the order they were claimed. *)
LEMMA PublishFacts ==
  ASSUME RingInv, NEW p \in Producers, Publish(p)
  PROVE  /\ idxW = prev[p] /\ idxW # idxWcas /\ elements[idxW] = value[p]
         /\ value[p] \in Values
         /\ Ahead(Succ(idxW), idxWcas) = Ahead(idxW, idxWcas) - 1
         /\ Ahead(idxR, Succ(idxW)) = Ahead(idxR, idxW) + 1
         /\ Ahead(idxR, idxW) < Size - 1
<1>s. Size \in Nat /\ Size >= 2
  BY RingAssumption
<1>t. idxR \in Slots /\ idxW \in Slots /\ idxWcas \in Slots
  BY DEF RingInv, TypeOK
<1>1. idxW = prev[p] /\ at[p] = "publish"
  BY DEF Publish
<1>2. /\ Ahead(idxR, idxW) \in Slots /\ Ahead(idxW, idxWcas) \in Slots
      /\ Ahead(idxR, idxWcas) \in Slots
  BY <1>t, RingValues
<1>3. Ahead(idxW, idxW) = 0 /\ Ahead(idxW, idxW) < Ahead(idxW, idxWcas)
  BY <1>t, <1>1, Moving DEF RingInv, ExclusiveSlots
<1>4. idxW # idxWcas
  BY <1>s, <1>2, <1>3 DEF Slots
<1>5. Ahead(idxR, idxW) < Size - 1
  BY <1>s, <1>2, <1>3 DEF RingInv, Ordered, Slots
<1>6. Ahead(idxR, Succ(idxW)) = Ahead(idxR, idxW) + 1
  BY <1>t, <1>5, Moving
<1>7. Ahead(Succ(idxW), idxWcas) = Ahead(idxW, idxWcas) - 1
  BY <1>t, <1>4, Moving
<1>8. elements[idxW] = value[p] /\ value[p] \in Values
  BY <1>1 DEF RingInv, Carried
<1> QED BY <1>1, <1>4, <1>5, <1>6, <1>7, <1>8

(* The producer whose claim is the oldest makes its element visible. *)
LEMMA PublishStep ==
  ASSUME MaxLag < Size, RingInv, NEW p \in Producers, Publish(p), TypeOK'
  PROVE  RingInv'
<1>f. UNCHANGED <<idxR, idxWcas, elements, value, prev, lag, consumerVars>>
  BY DEF Publish
<1>s. Size \in Nat /\ Size >= 2
  BY RingAssumption
<1>t. /\ idxR \in Slots /\ idxW \in Slots /\ idxWcas \in Slots /\ prev \in [Producers -> Slots]
      /\ at \in [Producers -> {"idle", "load", "check", "claim", "write", "publish"}]
  BY DEF RingInv, TypeOK
<1>1. at[p] = "publish" /\ at' = [at EXCEPT ![p] = "idle"] /\ idxW' = Succ(idxW)
  BY DEF Publish
<1>2. /\ Ahead(idxR, idxW) \in Slots /\ Ahead(idxW, idxWcas) \in Slots
      /\ Ahead(idxR, idxWcas) \in Slots /\ Succ(idxW) \in Slots
  BY <1>t, RingValues
<1>3. Ordered'
  BY <1>f, <1>1, <1>2, PublishFacts DEF RingInv, Ordered, Ahead, Slots
<1>4. LagExact' /\ ClaimFits'
  BY <1>f, <1>t, <1>1 DEF RingInv, LagExact, ClaimFits, Ahead, Succ
<1>5. ExclusiveSlots'
  <2>1. ASSUME NEW o \in Producers, at'[o] \in {"write", "publish"}
        PROVE  o # p /\ at[o] \in {"write", "publish"}
    BY <1>t, <1>1, <2>1
  <2>2. ASSUME NEW o \in Producers, at'[o] \in {"write", "publish"}
        PROVE  Ahead(Succ(idxW), prev[o]) < Ahead(Succ(idxW), idxWcas)
    <3>1. Ahead(idxW, prev[o]) < Ahead(idxW, idxWcas) /\ Ahead(idxW, prev[o]) \in Slots
      BY <1>t, <2>1, <2>2, RingValues DEF RingInv, ExclusiveSlots
    <3>2. prev[o] # prev[p]
      BY <1>1, <2>1, <2>2 DEF RingInv, ExclusiveSlots
    <3>3. Ahead(Succ(idxW), prev[o]) = Ahead(idxW, prev[o]) - 1
      BY <1>t, <3>2, PublishFacts, Moving
    <3> QED BY <1>2, <3>1, <3>3, PublishFacts DEF Slots
  <2>3. ASSUME NEW o \in Producers, NEW q \in Producers \ {o},
               at'[o] \in {"write", "publish"}, at'[q] \in {"write", "publish"}
        PROVE  prev[q] # prev[o]
    BY <2>1, <2>3 DEF RingInv, ExclusiveSlots
  <2> QED BY <1>f, <1>1, <2>2, <2>3 DEF ExclusiveSlots, Ahead
<1>6. Carried'
  BY <1>f, <1>t, <1>1 DEF RingInv, Carried
<1>7. InHand'
  <2>1. Succ(idxW) # idxR
    <3>1. Ahead(idxR, Succ(idxW)) # 0
      BY <1>2, PublishFacts DEF Slots
    <3> QED BY <1>t, <1>2, <3>1, Moving
  <2> QED BY <1>f, <1>1, <2>1 DEF RingInv, InHand, consumerVars
<1> QED BY <1>3, <1>4, <1>5, <1>6, <1>7 DEF RingInv

(* The consumer reads, and then moves on. *)
LEMMA ReadStep ==
  ASSUME RingInv, Peek \/ ReadElement, TypeOK'
  PROVE  RingInv'
<1>f. UNCHANGED <<idxR, idxW, idxWcas, elements, producerVars>>
  BY DEF Peek, ReadElement
<1>1. Ordered' /\ LagExact' /\ ClaimFits'
  BY <1>f DEF RingInv, Ordered, LagExact, ClaimFits, Ahead, Succ, producerVars
<1>2. ExclusiveSlots' /\ Carried'
  BY <1>f DEF RingInv, ExclusiveSlots, Carried, Ahead, producerVars
<1>3. InHand'
  BY DEF RingInv, InHand, Peek, ReadElement
<1> QED BY <1>1, <1>2, <1>3 DEF RingInv

(* The consumer moves the read index past an element that it has read. *)
LEMMA AdvanceFacts ==
  ASSUME RingInv, Advance
  PROVE  /\ idxR # idxW /\ idxR # idxWcas /\ taken = elements[idxR]
         /\ Ahead(Succ(idxR), idxW) = Ahead(idxR, idxW) - 1
         /\ Ahead(Succ(idxR), idxWcas) = Ahead(idxR, idxWcas) - 1
         /\ Ahead(idxR, idxW) # 0
<1>s. Size \in Nat /\ Size >= 2
  BY RingAssumption
<1>t. idxR \in Slots /\ idxW \in Slots /\ idxWcas \in Slots
  BY DEF RingInv, TypeOK
<1>1. idxR # idxW /\ taken = elements[idxR]
  BY DEF RingInv, InHand, Advance
<1>2. /\ Ahead(idxR, idxW) \in Slots /\ Ahead(idxW, idxWcas) \in Slots
      /\ Ahead(idxR, idxWcas) \in Slots
  BY <1>t, RingValues
<1>3. Ahead(idxR, idxW) # 0 /\ Ahead(Succ(idxR), idxW) = Ahead(idxR, idxW) - 1
  BY <1>t, <1>1, Moving
<1>4. Ahead(idxR, idxWcas) # 0
  BY <1>2, <1>3 DEF RingInv, Ordered, Slots
<1>5. idxR # idxWcas /\ Ahead(Succ(idxR), idxWcas) = Ahead(idxR, idxWcas) - 1
  BY <1>t, <1>4, Moving
<1> QED BY <1>1, <1>3, <1>5

(* Moving the read index frees a slot that no producer holds yet. *)
LEMMA AdvanceStep ==
  ASSUME RingInv, Advance, TypeOK'
  PROVE  RingInv'
<1>f. UNCHANGED <<idxW, idxWcas, elements, producerVars>> /\ idxR' = Succ(idxR)
      /\ consumerAt' = "idle" /\ peeked' = None
  BY DEF Advance
<1>t. idxR \in Slots /\ idxW \in Slots /\ idxWcas \in Slots
  BY DEF RingInv, TypeOK
<1>1. Ordered'
  <2>1. /\ Ahead(idxR, idxW) \in Slots /\ Ahead(idxW, idxWcas) \in Slots
        /\ Ahead(idxR, idxWcas) \in Slots
    BY <1>t, RingValues
  <2> QED BY <1>f, <2>1, AdvanceFacts DEF RingInv, Ordered, Ahead, Slots
<1>2. LagExact' /\ ExclusiveSlots' /\ Carried'
  BY <1>f DEF RingInv, LagExact, ExclusiveSlots, Carried, Ahead, producerVars
<1>3. ClaimFits'
  <2>1. Succ(idxWcas) # Succ(idxR)
    BY <1>t, AdvanceFacts, Moving
  <2> QED BY <1>f, <2>1 DEF ClaimFits, Succ
<1>4. InHand'
  BY <1>f DEF InHand
<1> QED BY <1>1, <1>2, <1>3, <1>4 DEF RingInv

(* The ring starts empty, with nobody in an operation. *)
LEMMA RingInitially ==
  ASSUME Init
  PROVE  RingInv
<1>1. 0 \in Slots
  BY RingAssumption DEF Slots
<1>2. TypeOK
  BY <1>1, RingAssumption DEF Init, TypeOK
<1>3. Ordered
  BY <1>1, Moving DEF Init, Ordered
<1>4. LagExact /\ ClaimFits /\ ExclusiveSlots /\ Carried /\ InHand
  BY DEF Init, LagExact, ClaimFits, ExclusiveSlots, Carried, InHand
<1> QED BY <1>2, <1>3, <1>4 DEF RingInv

(* Every step of producers and consumer keeps the invariant. *)
LEMMA RingStep ==
  ASSUME MaxLag < Size, RingInv, [Next]_vars
  PROVE  RingInv'
<1>1. TypeOK'
  BY TypeStep DEF RingInv
<1>2. CASE UNCHANGED vars
  BY <1>1, <1>2
  DEF RingInv, Ordered, LagExact, ClaimFits, ExclusiveSlots, Carried, InHand, Ahead, Succ,
      vars, producerVars, consumerVars
<1> QED
  BY <1>1, <1>2, BeforeSwap, ClaimStep, WriteStep, PublishStep, ReadStep, AdvanceStep
  DEF Next, Producer, Consumer

-----------------------------------------------------------------------------
(* Theorems *)

(* The indices stay within the ring, whatever the schedule. *)
THEOREM TypeCorrect == Spec => []TypeOK
<1>1. Init => TypeOK
  BY RingInitially DEF RingInv
<1> QED BY <1>1, TypeStep, PTL DEF Spec

(* What holds of the ring at every step, for any size and any number of    *)
(* threads, when no thread misses a lap. *)
THEOREM RingInvariant ==
  ASSUME MaxLag < Size
  PROVE  Spec => []RingInv
<1>1. RingInv /\ [Next]_vars => RingInv'
  BY RingStep
<1> QED BY <1>1, RingInitially, PTL DEF Spec

(* No two producers hold one slot, and none holds a slot the consumer can  *)
(* see: nothing that was enqueued is overwritten. *)
THEOREM Exclusive ==
  ASSUME MaxLag < Size
  PROVE  Spec => []ExclusiveSlots
<1>1. RingInv => ExclusiveSlots
  BY DEF RingInv
<1> QED BY <1>1, RingInvariant, PTL

(* The scheduler dequeues the command it peeked. *)
THEOREM PeekedIsDequeued ==
  ASSUME MaxLag < Size
  PROVE  Spec => []DequeuesPeeked
<1>1. RingInv => DequeuesPeeked
  BY DEF RingInv, InHand, DequeuesPeeked
<1> QED BY <1>1, RingInvariant, PTL

-----------------------------------------------------------------------------
(* The ring implements a bounded FIFO queue *)

Elements == Values \cup {None}

(* A function on 1 .. n is a sequence of length n. *)
LEMMA IndexedSeq ==
  ASSUME NEW S, NEW n \in Nat, NEW c \in [1 .. n -> S]
  PROVE  c \in Seq(S) /\ Len(c) = n
<1>1. c \in Seq(S)
  OBVIOUS
<1>2. DOMAIN c = 1 .. Len(c) /\ DOMAIN c = 1 .. n /\ Len(c) \in Nat
  BY <1>1
<1> QED BY <1>1, <1>2

(* What lies between two indices is a sequence. *)
LEMMA SliceSeq ==
  ASSUME NEW r \in Slots, NEW w \in Slots, NEW e \in [Slots -> Elements],
         NEW c, c = [k \in 1 .. Ahead(r, w) |-> e[(r + k - 1) % Size]]
  PROVE  /\ c \in Seq(Elements)
         /\ Len(c) = Ahead(r, w)
         /\ \A k \in 1 .. Ahead(r, w) : c[k] = e[(r + k - 1) % Size]
<1> DEFINE n == Ahead(r, w)
<1>1. n \in Nat /\ n < Size /\ Size \in Nat
  BY AheadBounds
<1>2. ASSUME NEW k \in 1 .. n
      PROVE  e[(r + k - 1) % Size] \in Elements
  <2>1. k \in 1 .. Size
    BY <1>1
  <2>2. (r + k - 1) % Size \in Slots
    BY <2>1, Steps
  <2> QED BY <2>2
<1> HIDE DEF n
<1>3. c = [k \in 1 .. n |-> e[(r + k - 1) % Size]]
  BY DEF n
<1>4. c \in [1 .. n -> Elements]
  BY <1>2, <1>3
<1>5. c \in Seq(Elements) /\ Len(c) = n
  <2>1. n \in Nat
    BY <1>1 DEF n
  <2> QED BY <1>4, <2>1, IndexedSeq
<1>6. \A k \in 1 .. n : c[k] = e[(r + k - 1) % Size]
  BY <1>3
<1> QED BY <1>5, <1>6 DEF n

(* Contents is a sequence, before a step and after it. *)
LEMMA ContentsSeq ==
  ASSUME TypeOK
  PROVE  /\ Contents \in Seq(Elements)
         /\ Len(Contents) = Ahead(idxR, idxW)
         /\ \A k \in 1 .. Ahead(idxR, idxW) : Contents[k] = elements[(idxR + k - 1) % Size]
<1>1. idxR \in Slots /\ idxW \in Slots /\ elements \in [Slots -> Elements]
  BY DEF TypeOK, Elements
<1> QED BY <1>1, SliceSeq DEF Contents

(* The same in the next state. *)
LEMMA ContentsSeqNext ==
  ASSUME TypeOK'
  PROVE  /\ Contents' \in Seq(Elements)
         /\ Len(Contents') = Ahead(idxR', idxW')
         /\ \A k \in 1 .. Ahead(idxR', idxW') :
              Contents'[k] = elements'[(idxR' + k - 1) % Size]
<1> DEFINE r == idxR'
           w == idxW'
           e == elements'
           c == Contents'
<1>1. r \in Slots /\ w \in Slots /\ e \in [Slots -> Elements]
  BY DEF TypeOK, Elements, Slots
<1>2. c = [k \in 1 .. Ahead(r, w) |-> e[(r + k - 1) % Size]]
  BY DEF Contents, Ahead
<1> HIDE DEF r, w, e, c
<1>3. /\ c \in Seq(Elements)
      /\ Len(c) = Ahead(r, w)
      /\ \A k \in 1 .. Ahead(r, w) : c[k] = e[(r + k - 1) % Size]
  BY <1>1, <1>2, SliceSeq, SMTT(20)
<1> QED BY <1>3 DEF r, w, e, c

(* The other steps leave the contents alone: a producer writes outside     *)
(* them. *)
LEMMA ContentsKept ==
  ASSUME RingInv, [Next]_vars, TypeOK', ~Advance, \A p \in Producers : ~Publish(p)
  PROVE  Contents' = Contents /\ out' = out
<1>s. Size \in Nat /\ Size >= 2
  BY RingAssumption
<1>t. /\ idxR \in Slots /\ idxW \in Slots /\ prev \in [Producers -> Slots]
      /\ elements \in [Slots -> Values \cup {None}]
  BY DEF RingInv, TypeOK
<1>1. UNCHANGED <<idxR, idxW, out>>
  BY DEF Next, Producer, Consumer, LoadIndex, CheckFull, Claim, WriteElement, Enqueue, Peek,
         ReadElement, vars, producerVars, consumerVars
<1>2. \/ UNCHANGED elements
      \/ \E p \in Producers : WriteElement(p)
  BY DEF Next, Producer, Consumer, LoadIndex, CheckFull, Claim, Enqueue, Peek,
         ReadElement, vars, producerVars, consumerVars
<1>3. CASE UNCHANGED elements
  BY <1>1, <1>3 DEF Contents, Ahead
<1>4. ASSUME NEW p \in Producers, WriteElement(p)
      PROVE  Contents' = Contents
  <2> DEFINE n == Ahead(idxR, idxW)
  <2>1. n \in Nat /\ n < Size
    BY <1>t, AheadBounds
  <2>2. elements' = [elements EXCEPT ![prev[p]] = value[p]] /\ at[p] = "write"
    BY <1>4 DEF WriteElement
  <2>3. ASSUME NEW k \in 1 .. n
        PROVE  elements'[(idxR + k - 1) % Size] = elements[(idxR + k - 1) % Size]
    <3> DEFINE q == (idxR + k - 1) % Size
    <3>1. q \in Slots /\ Ahead(idxR, q) = k - 1
      BY <1>s, <1>t, <2>1, Steps
    <3>2. Ahead(idxR, q) < Ahead(idxR, idxW)
      BY <2>1, <3>1
    <3> HIDE DEF q
    <3>3. q # prev[p]
      BY <2>2, <3>1, <3>2, SlotHidden
    <3>4. elements'[q] = elements[q]
      BY <1>t, <2>2, <3>1, <3>3
    <3> QED BY <3>4 DEF q
  <2>4. Contents' = [k \in 1 .. n |-> elements'[(idxR + k - 1) % Size]]
    BY <1>1 DEF Contents, Ahead
  <2>5. Contents = [k \in 1 .. n |-> elements[(idxR + k - 1) % Size]]
    BY DEF Contents
  <2> HIDE DEF n
  <2> QED BY <2>3, <2>4, <2>5
<1> QED BY <1>1, <1>2, <1>3, <1>4

(* The swap of idx_w_ puts the command of its thread at the end. *)
LEMMA PublishPuts ==
  ASSUME RingInv, TypeOK', NEW p \in Producers, Publish(p)
  PROVE  Fifo!Put(value[p])
<1>s. Size \in Nat /\ Size >= 2
  BY RingAssumption
<1>t. TypeOK /\ idxR \in Slots /\ idxW \in Slots
  BY DEF RingInv, TypeOK
<1>u. UNCHANGED <<idxR, elements, out>> /\ idxW' = Succ(idxW)
  BY PublishFacts DEF Publish, consumerVars
<1> DEFINE n == Ahead(idxR, idxW)
           S == Seq(Elements)
<1>1. n \in Nat /\ n < Size - 1 /\ Ahead(idxR, Succ(idxW)) = n + 1
  BY <1>t, PublishFacts, AheadBounds
<1>2. Contents \in S /\ Len(Contents) = n
      /\ \A k \in 1 .. n : Contents[k] = elements[(idxR + k - 1) % Size]
  BY <1>t, ContentsSeq
<1>3. Contents' \in S /\ Len(Contents') = n + 1
      /\ \A k \in 1 .. n + 1 : Contents'[k] = elements[(idxR + k - 1) % Size]
  <2>1. /\ Contents' \in S /\ Len(Contents') = Ahead(idxR', idxW')
        /\ \A k \in 1 .. Ahead(idxR', idxW') : Contents'[k] = elements'[(idxR' + k - 1) % Size]
    BY ContentsSeqNext
  <2> QED BY <1>1, <1>u, <2>1
<1>4. value[p] \in Elements /\ value[p] = elements[(idxR + (n + 1) - 1) % Size]
  <2> DEFINE q == (idxR + (n + 1) - 1) % Size
  <2>1. q \in Slots /\ Ahead(idxR, q) = n
    BY <1>s, <1>t, <1>1, Steps
  <2> HIDE DEF q
  <2>2. q = idxW
    BY <1>t, <2>1, Distances
  <2> QED BY <2>2, PublishFacts DEF q, Elements
<1> HIDE DEF n
<1>5. Contents' = Append(Contents, value[p])
  <2>1. Append(Contents, value[p]) \in S /\ Len(Append(Contents, value[p])) = n + 1
        /\ \A k \in 1 .. n : Append(Contents, value[p])[k] = Contents[k]
        /\ Append(Contents, value[p])[n + 1] = value[p]
    BY <1>1, <1>2, <1>4
  <2>2. ASSUME NEW k \in 1 .. n + 1
        PROVE  Contents'[k] = Append(Contents, value[p])[k]
    <3>1. k \in 1 .. n \/ k = n + 1
      BY <1>1
    <3>2. CASE k \in 1 .. n
      BY <1>2, <1>3, <2>1, <3>2
    <3>3. CASE k = n + 1
      BY <1>3, <1>4, <2>1, <3>3
    <3> QED BY <3>1, <3>2, <3>3
  <2> QED BY <1>3, <2>1, <2>2, SeqEqual
<1> QED BY <1>1, <1>2, <1>5, <1>u DEF Fifo!Put

(* The consumer takes the command at the head. *)
LEMMA AdvanceTakes ==
  ASSUME RingInv, TypeOK', Advance
  PROVE  Fifo!Take
<1>s. Size \in Nat /\ Size >= 2
  BY RingAssumption
<1>t. TypeOK /\ idxR \in Slots /\ idxW \in Slots
  BY DEF RingInv, TypeOK
<1>u. UNCHANGED <<idxW, elements>> /\ idxR' = Succ(idxR) /\ out' = taken
  BY DEF Advance, producerVars
<1> DEFINE n == Ahead(idxR, idxW)
           S == Seq(Elements)
<1>1. n \in Nat /\ n # 0 /\ n < Size /\ Ahead(Succ(idxR), idxW) = n - 1
  BY <1>t, AdvanceFacts, AheadBounds
<1>2. Contents \in S /\ Len(Contents) = n
      /\ \A k \in 1 .. n : Contents[k] = elements[(idxR + k - 1) % Size]
  BY <1>t, ContentsSeq
<1>3. Contents' \in S /\ Len(Contents') = n - 1
      /\ \A k \in 1 .. n - 1 : Contents'[k] = elements[(Succ(idxR) + k - 1) % Size]
  <2>1. /\ Contents' \in S /\ Len(Contents') = Ahead(idxR', idxW')
        /\ \A k \in 1 .. Ahead(idxR', idxW') : Contents'[k] = elements'[(idxR' + k - 1) % Size]
    BY ContentsSeqNext
  <2> QED BY <1>1, <1>u, <2>1
<1>4. Contents # <<>> /\ Head(Contents) = taken
  <2>1. idxR + 1 - 1 = idxR /\ idxR % Size = idxR
    <3>1. idxR \in 0 .. 2 * Size - 1 /\ idxR < Size
      BY <1>s, <1>t DEF Slots
    <3> QED BY <3>1, Wrap
  <2>2. Contents[1] = taken
    BY <1>1, <1>2, <2>1, AdvanceFacts
  <2> QED BY <1>1, <1>2, <2>2
<1>5. Contents' = Tail(Contents)
  <2>1. Tail(Contents) \in S /\ Len(Tail(Contents)) = n - 1
        /\ \A k \in 1 .. Len(Tail(Contents)) : Tail(Contents)[k] = Contents[k + 1]
    BY <1>2, <1>4, HeadTailProperties
  <2>2. ASSUME NEW k \in 1 .. n - 1
        PROVE  Contents'[k] = Tail(Contents)[k]
    <3>1. k \in 1 .. Size /\ k < Size /\ k + 1 \in 1 .. n
      BY <1>s, <1>1
    <3>2. (Succ(idxR) + k - 1) % Size = (idxR + (k + 1) - 1) % Size
      BY <1>t, <3>1, Steps
    <3> QED BY <1>2, <1>3, <2>1, <3>1, <3>2
  <2> QED BY <1>3, <2>1, <2>2, SeqEqual
<1> QED BY <1>4, <1>5, <1>u DEF Fifo!Take

(* LockFreeQueueMS is a FIFO queue of Size - 1 commands: the swaps of      *)
(* idx_w_ put, the consumer's step of idx_r_ takes, no other step shows. *)
THEOREM Refinement ==
  ASSUME MaxLag < Size
  PROVE  Spec => ImplementsFifo
<1>1. Init => Fifo!Init
  <2>1. ASSUME Init
        PROVE  Contents = <<>> /\ out = None
    <3>1. Contents \in Seq(Elements) /\ Len(Contents) = Ahead(0, 0)
      BY <2>1, RingInitially, ContentsSeq DEF RingInv, Init
    <3>2. Ahead(0, 0) = 0
      BY Moving, RingAssumption DEF Slots
    <3> QED BY <2>1, <3>1, <3>2, EmptySeq DEF Init
  <2> QED BY <2>1 DEF Fifo!Init
<1>2. RingInv /\ [Next]_vars => [Fifo!Next]_<<Contents, out>>
  <2> SUFFICES ASSUME RingInv, [Next]_vars
               PROVE  [Fifo!Next]_<<Contents, out>>
    OBVIOUS
  <2>1. TypeOK'
    BY TypeStep DEF RingInv
  <2>2. ASSUME NEW p \in Producers, Publish(p)
        PROVE  \E v \in Values : Fifo!Put(v)
    BY <2>1, <2>2, PublishPuts, PublishFacts
  <2>3. Advance => Fifo!Take
    BY <2>1, AdvanceTakes
  <2> QED BY <2>1, <2>2, <2>3, ContentsKept DEF Fifo!Next
<1> QED BY <1>1, <1>2, RingInvariant, PTL DEF Spec, ImplementsFifo, Fifo!Spec
=============================================================================
