------------------------- MODULE FramePool_proofs -------------------------
(***************************************************************************)
(* Theorems about FramePool, for any publishers, controllers, storage,     *)
(* frame lengths and budgets: a conversion writes to storage nobody reads, *)
(* a lease finds its slot, no slot is lost, memory stays within the budget *)
(* and the counters of an epoch add up.                                    *)
(*                                                                         *)
(* Used is a recursive sum: what it is of a changed sequence is proved by  *)
(* induction, as the absence of a least counterexample.                    *)
(***************************************************************************)
EXTENDS FramePool, FiniteSetTheorems, SequenceTheorems, WellFoundedInduction, TLAPS

-----------------------------------------------------------------------------
(* Induction. *)

\* A set of natural numbers that is not empty has a least element.
LEMMA LeastNat ==
  ASSUME NEW T, T \subseteq Nat, T # {}
  PROVE  \E m \in T : \A k \in T : m <= k
<1> DEFINE R == OpToRel(<, Nat)
<1>1. IsWellFoundedOn(R, Nat)
  BY NatLessThanWellFounded
<1> HIDE DEF R
<1>2. \E m \in T : \A k \in T : <<k, m>> \notin R
  BY <1>1, WFMin
<1>3. \A i, j \in Nat : i < j => <<i, j>> \in R
  BY DEF R, OpToRel
<1>4. PICK m \in T : \A k \in T : <<k, m>> \notin R
  BY <1>2
<1>5. ASSUME NEW k \in T PROVE m <= k
  <2>1. m \in Nat /\ k \in Nat /\ ~(k < m)
    BY <1>3, <1>4
  <2>2. QED
    BY <2>1
<1>6. QED
  BY <1>5

\* Induction over the natural numbers, of membership in a set.
LEMMA SetInduction ==
  ASSUME NEW T, 0 \in T, \A n \in Nat : n \in T => n + 1 \in T
  PROVE  \A n \in Nat : n \in T
<1> DEFINE Out == Nat \ T
<1>1. SUFFICES ASSUME Out # {} PROVE FALSE
  OBVIOUS
<1>2. PICK m \in Out : \A k \in Out : m <= k
  BY <1>1, LeastNat
<1>3. m # 0 /\ m - 1 \in Nat /\ m - 1 \notin Out
  BY <1>2
<1>4. QED
  BY <1>2, <1>3

-----------------------------------------------------------------------------
(* What a sequence of slots is charged. *)

\* The function Used is the last value of.
Charge(s) == CHOOSE t : t = [n \in 0..Len(s) |-> IF n = 0 THEN 0 ELSE t[n - 1] + s[n].bytes]

\* Used's local function adds the slots up to any place.
LEMMA ChargeAdds ==
  ASSUME NEW s \in Seq(Slot)
  PROVE  /\ Used(s) = Charge(s)[Len(s)]
         /\ Charge(s)[0] = 0
         /\ \A n \in 1..Len(s) : Charge(s)[n] = Charge(s)[n - 1] + s[n].bytes
         /\ \A n \in 0..Len(s) : Charge(s)[n] \in Nat
<1> DEFINE Adds(t, m) == t[0] = 0 /\ \A n \in 1..m : t[n] = t[n - 1] + s[n].bytes
           Has(m) == m <= Len(s) => \E t \in [0..m -> Nat] : Adds(t, m)
           Done == {m \in Nat : Has(m)}
<1>0. Len(s) \in Nat /\ \A n \in 1..Len(s) : s[n].bytes \in Nat
  <2>1. \A n \in 1..Len(s) : s[n] \in Slot
    BY ElementOfSeq
  <2>2. QED
    BY <2>1, LenProperties DEF Slot
<1>1. Has(0)
  <2>1. [i \in 0..0 |-> 0] \in [0..0 -> Nat] /\ Adds([i \in 0..0 |-> 0], 0)
    OBVIOUS
  <2>2. QED
    BY <2>1
<1>2. ASSUME NEW m \in Nat, Has(m)
      PROVE  Has(m + 1)
  <2>1. SUFFICES ASSUME m + 1 <= Len(s)
                 PROVE  \E t \in [0..(m + 1) -> Nat] : Adds(t, m + 1)
    OBVIOUS
  <2>2. PICK t \in [0..m -> Nat] : Adds(t, m)
    <3>1. m <= Len(s)
      BY <1>0, <2>1
    <3> HIDE DEF Adds
    <3>2. QED
      BY <1>2, <3>1
  <2> DEFINE u == [i \in 0..(m + 1) |-> IF i <= m THEN t[i] ELSE t[m] + s[m + 1].bytes]
  <2>3. s[m + 1].bytes \in Nat
    BY <1>0, <2>1
  <2>4. u \in [0..(m + 1) -> Nat]
    BY <2>3
  <2>5. Adds(u, m + 1)
    <3>1. u[0] = 0
      BY <2>2
    <3>2. ASSUME NEW n \in 1..(m + 1) PROVE u[n] = u[n - 1] + s[n].bytes
      <4>1. CASE n = m + 1
        BY <4>1
      <4>2. CASE n # m + 1
        <5>1. n \in 1..m /\ n - 1 \in 0..m
          BY <4>2
        <5>2. t[n] = t[n - 1] + s[n].bytes
          BY <2>2, <5>1
        <5>3. QED
          BY <5>1, <5>2
      <4>3. QED
        BY <4>1, <4>2
    <3>3. QED
      BY <3>1, <3>2
  <2>6. QED
    BY <2>4, <2>5
<1>3. Has(Len(s))
  <2> HIDE DEF Has
  <2>1. 0 \in Done /\ \A m \in Nat : m \in Done => m + 1 \in Done
    BY <1>1, <1>2
  <2> HIDE DEF Done
  <2>2. Len(s) \in Done
    BY <1>0, <2>1, SetInduction
  <2>3. QED
    BY <2>2 DEF Done
<1>4. PICK t \in [0..Len(s) -> Nat] : Adds(t, Len(s))
  BY <1>0, <1>3
<1>5. t = [n \in 0..Len(s) |-> IF n = 0 THEN 0 ELSE t[n - 1] + s[n].bytes]
  BY <1>0, <1>4
<1> DEFINE c == Charge(s)
<1>6. c = [n \in 0..Len(s) |-> IF n = 0 THEN 0 ELSE c[n - 1] + s[n].bytes]
  BY <1>5 DEF Charge
<1>7. Used(s) = c[Len(s)]
  BY DEF Used, Charge
<1> HIDE DEF c
<1>8. c[0] = 0 /\ \A n \in 1..Len(s) : c[n] = c[n - 1] + s[n].bytes
  BY <1>0, <1>6
<1>9. \A n \in 0..Len(s) : c[n] \in Nat
  <2> DEFINE Good == {m \in Nat : m <= Len(s) => c[m] \in Nat}
  <2>1. 0 \in Good
    BY <1>8
  <2>2. \A m \in Nat : m \in Good => m + 1 \in Good
    BY <1>0, <1>8
  <2> HIDE DEF Good
  <2>3. \A m \in Nat : m \in Good
    BY <2>1, <2>2, SetInduction
  <2>4. QED
    BY <1>0, <2>3 DEF Good
<1>10. QED
  BY <1>7, <1>8, <1>9 DEF c

\* The sum up to a place depends on the slots up to it.
LEMMA ChargeSame ==
  ASSUME NEW s \in Seq(Slot), NEW t \in Seq(Slot), NEW k \in Nat,
         k <= Len(s), k <= Len(t), \A i \in 1..k : s[i].bytes = t[i].bytes
  PROVE  Charge(s)[k] = Charge(t)[k]
<1> DEFINE Same == {m \in Nat : m <= k => Charge(s)[m] = Charge(t)[m]}
<1>1. Len(s) \in Nat /\ Len(t) \in Nat
  BY LenProperties
<1>2. 0 \in Same
  BY ChargeAdds
<1>3. ASSUME NEW m \in Nat, m \in Same PROVE m + 1 \in Same
  <2>1. SUFFICES ASSUME m + 1 <= k PROVE Charge(s)[m + 1] = Charge(t)[m + 1]
    OBVIOUS
  <2>2. m + 1 \in 1..Len(s) /\ m + 1 \in 1..Len(t) /\ m + 1 \in 1..k /\ (m + 1) - 1 = m
    BY <1>1, <2>1
  <2>3. /\ Charge(s)[m + 1] = Charge(s)[m] + s[m + 1].bytes
        /\ Charge(t)[m + 1] = Charge(t)[m] + t[m + 1].bytes
    BY <2>2, ChargeAdds
  <2>4. QED
    BY <1>3, <2>1, <2>2, <2>3
<1> HIDE DEF Same
<1>4. k \in Same
  BY <1>2, <1>3, SetInduction
<1>5. QED
  BY <1>4 DEF Same

\* The sum does not fall from one place to a later one.
LEMMA ChargeGrows ==
  ASSUME NEW s \in Seq(Slot), NEW j \in 0..Len(s), NEW k \in j..Len(s)
  PROVE  Charge(s)[j] <= Charge(s)[k]
<1> DEFINE Over == {m \in Nat : j <= m /\ m <= Len(s) => Charge(s)[j] <= Charge(s)[m]}
<1>1. Len(s) \in Nat /\ \A i \in 1..Len(s) : s[i].bytes \in Nat
  <2>1. \A n \in 1..Len(s) : s[n] \in Slot
    BY ElementOfSeq
  <2>2. QED
    BY <2>1, LenProperties DEF Slot
<1>2. \A n \in 0..Len(s) : Charge(s)[n] \in Nat
  BY ChargeAdds
<1>3. 0 \in Over
  BY <1>1, <1>2
<1>4. ASSUME NEW m \in Nat, m \in Over PROVE m + 1 \in Over
  <2>1. SUFFICES ASSUME j <= m + 1, m + 1 <= Len(s)
                 PROVE  Charge(s)[j] <= Charge(s)[m + 1]
    OBVIOUS
  <2>2. CASE j = m + 1
    BY <1>2, <2>2
  <2>3. CASE j # m + 1
    <3>1. j <= m /\ m \in 0..Len(s) /\ m + 1 \in 1..Len(s) /\ (m + 1) - 1 = m
      BY <1>1, <2>1, <2>3
    <3>2. Charge(s)[m + 1] = Charge(s)[m] + s[m + 1].bytes
      BY <3>1, ChargeAdds
    <3>3. Charge(s)[j] <= Charge(s)[m]
      BY <1>4, <3>1
    <3>4. s[m + 1].bytes \in Nat
      BY <1>1, <3>1
    <3>5. QED
      BY <1>2, <3>1, <3>2, <3>3, <3>4
  <2>4. QED
    BY <2>2, <2>3
<1> HIDE DEF Over
<1>5. k \in Over
  BY <1>1, <1>3, <1>4, SetInduction
<1>6. QED
  BY <1>1, <1>5 DEF Over

\* A pool without slots is charged nothing, and none is charged less.
LEMMA UsedNat ==
  /\ Used(<<>>) = 0
  /\ \A s \in Seq(Slot) : Used(s) \in Nat
<1>1. <<>> \in Seq(Slot) /\ Len(<<>>) = 0
  OBVIOUS
<1>2. \A s \in Seq(Slot) : Len(s) \in 0..Len(s)
  BY LenProperties
<1>3. QED
  BY <1>1, <1>2, ChargeAdds

\* Only the bytes count.
LEMMA UsedSame ==
  ASSUME NEW s \in Seq(Slot), NEW t \in Seq(Slot), Len(t) = Len(s),
         \A i \in 1..Len(s) : t[i].bytes = s[i].bytes
  PROVE  Used(t) = Used(s)
<1>1. Len(s) \in Nat
  BY LenProperties
<1>2. Charge(s)[Len(s)] = Charge(t)[Len(s)]
  BY <1>1, ChargeSame
<1>3. QED
  BY <1>2, ChargeAdds

\* A slot pushed is paid in full.
LEMMA UsedAppend ==
  ASSUME NEW s \in Seq(Slot), NEW e \in Slot
  PROVE  Used(Append(s, e)) = Used(s) + e.bytes
<1> DEFINE t == Append(s, e)
<1>1. /\ t \in Seq(Slot) /\ Len(t) = Len(s) + 1 /\ Len(s) \in Nat
      /\ \A i \in 1..Len(s) : t[i] = s[i]
      /\ t[Len(s) + 1] = e
  BY AppendProperties, LenProperties
<1> HIDE DEF t
<1>2. Charge(s)[Len(s)] = Charge(t)[Len(s)]
  BY <1>1, ChargeSame
<1>3. Len(t) \in 1..Len(t) /\ Len(t) - 1 = Len(s)
  BY <1>1
<1>4. Charge(t)[Len(t)] = Charge(t)[Len(s)] + e.bytes
  BY <1>1, <1>3, ChargeAdds
<1>5. Used(t) = Used(s) + e.bytes
  BY <1>1, <1>2, <1>4, ChargeAdds
<1>6. QED
  BY <1>5 DEF t

\* A slot replaced is paid instead of the old one.
LEMMA UsedReplaced ==
  ASSUME NEW s \in Seq(Slot), NEW i \in 1..Len(s), NEW e \in Slot
  PROVE  Used([s EXCEPT ![i] = e]) = Used(s) - s[i].bytes + e.bytes
<1> DEFINE t == [s EXCEPT ![i] = e]
<1>1. /\ t \in Seq(Slot) /\ Len(t) = Len(s) /\ Len(s) \in Nat /\ i \in Nat
      /\ \A j \in 1..Len(s) : t[j] = IF j = i THEN e ELSE s[j]
  BY ExceptSeq, LenProperties
<1> HIDE DEF t
<1>2. \A j \in 1..Len(s) : s[j].bytes \in Nat
  <2>1. \A n \in 1..Len(s) : s[n] \in Slot
    BY ElementOfSeq
  <2>2. QED
    BY <2>1 DEF Slot
<1>3. e.bytes \in Nat
  BY DEF Slot
<1>4. \A n \in 0..Len(s) : Charge(s)[n] \in Nat /\ Charge(t)[n] \in Nat
  BY <1>1, ChargeAdds
<1> DEFINE Off(m) == Charge(t)[m] = Charge(s)[m] - s[i].bytes + e.bytes
           Moved == {m \in Nat : i <= m /\ m <= Len(s) => Off(m)}
<1>5. Off(i)
  <2>1. i - 1 \in Nat /\ i - 1 <= Len(s) /\ \A j \in 1..(i - 1) : j \in 1..Len(s) /\ j # i
    BY <1>1
  <2>2. Charge(s)[i - 1] = Charge(t)[i - 1]
    BY <1>1, <2>1, ChargeSame
  <2>3. Charge(s)[i] = Charge(s)[i - 1] + s[i].bytes /\ Charge(t)[i] = Charge(t)[i - 1] + e.bytes
    BY <1>1, ChargeAdds
  <2>4. Charge(s)[i - 1] \in Nat
    BY <1>4, <2>1
  <2>5. QED
    BY <1>2, <1>3, <2>2, <2>3, <2>4
<1>6. ASSUME NEW m \in Nat, i <= m => Off(m), i <= m + 1, m + 1 <= Len(s)
      PROVE  Off(m + 1)
  <2>1. CASE i = m + 1
    BY <1>5, <2>1
  <2>2. CASE i # m + 1
    <3>1. i <= m /\ m + 1 \in 1..Len(s) /\ (m + 1) - 1 = m /\ m \in 0..Len(s)
      BY <1>1, <1>6, <2>2
    <3>2. /\ Charge(s)[m + 1] = Charge(s)[m] + s[m + 1].bytes
          /\ Charge(t)[m + 1] = Charge(t)[m] + t[m + 1].bytes
      BY <1>1, <3>1, ChargeAdds
    <3>3. t[m + 1] = s[m + 1]
      BY <1>1, <2>2, <3>1
    <3>4. Off(m)
      BY <1>6, <3>1
    <3>5. Charge(s)[m] \in Nat /\ Charge(t)[m] \in Nat
      BY <1>4, <3>1
    <3>6. s[i].bytes \in Nat /\ s[m + 1].bytes \in Nat
      BY <1>1, <1>2, <3>1
    <3>7. Charge(t)[m + 1] = Charge(t)[m] + s[m + 1].bytes
      BY <3>2, <3>3
    <3>8. QED
      BY <1>3, <3>2, <3>4, <3>5, <3>6, <3>7
  <2>3. QED
    BY <2>1, <2>2
<1> HIDE DEF Off
<1>7. 0 \in Moved /\ \A m \in Nat : m \in Moved => m + 1 \in Moved
  BY <1>1, <1>6
<1> HIDE DEF Moved
<1>8. Len(s) \in Moved
  BY <1>1, <1>7, SetInduction
<1>9. Off(Len(s))
  BY <1>1, <1>8 DEF Moved
<1>10. Used(t) = Used(s) - s[i].bytes + e.bytes
  BY <1>1, <1>9, ChargeAdds DEF Off
<1>11. QED
  BY <1>10 DEF t

\* Part of the slots are charged no more than all of them.
LEMMA UsedListed ==
  ASSUME NEW s \in Seq(Slot), NEW n \in Nat, NEW f \in [1..n -> 1..Len(s)],
         \A i, j \in 1..n : i < j => f[i] < f[j]
  PROVE  /\ [i \in 1..n |-> s[f[i]]] \in Seq(Slot)
         /\ Len([i \in 1..n |-> s[f[i]]]) = n
         /\ Used([i \in 1..n |-> s[f[i]]]) <= Used(s)
<1> DEFINE t == [i \in 1..n |-> s[f[i]]]
<1>1. \A i \in 1..n : s[f[i]] \in Slot
  BY ElementOfSeq
<1>2. t \in Seq(Slot) /\ Len(t) = n /\ \A i \in 1..n : t[i] = s[f[i]]
  BY <1>1
<1> HIDE DEF t
<1>3. Len(s) \in Nat /\ \A i \in 1..n : f[i] \in 1..Len(s) /\ f[i] \in Nat
  BY LenProperties
<1>4. \A k \in 0..Len(s) : Charge(s)[k] \in Nat
  BY ChargeAdds
<1>5. \A k \in 0..n : Charge(t)[k] \in Nat
  BY <1>2, ChargeAdds
<1> DEFINE Below(m) == \A k \in 0..Len(s) : (m > 0 => f[m] <= k) => Charge(t)[m] <= Charge(s)[k]
           Fits == {m \in Nat : m <= n => Below(m)}
<1>6. Below(0)
  <2>1. Charge(t)[0] = 0
    BY <1>2, ChargeAdds
  <2>2. QED
    BY <1>4, <2>1
<1>7. ASSUME NEW m \in Nat, m + 1 <= n, Below(m)
      PROVE  Below(m + 1)
  <2>1. SUFFICES ASSUME NEW k \in 0..Len(s), f[m + 1] <= k
                 PROVE  Charge(t)[m + 1] <= Charge(s)[k]
    BY <1>7
  <2>2. m + 1 \in 1..n /\ (m + 1) - 1 = m /\ m \in 0..n
    BY <1>7
  <2> DEFINE p == f[m + 1]
  <2>3. p \in 1..Len(s) /\ p - 1 \in 0..Len(s) /\ p \in 0..Len(s) /\ k \in p..Len(s)
    BY <1>3, <2>1, <2>2
  <2>4. m > 0 => f[m] <= p - 1
    <3>1. SUFFICES ASSUME m > 0 PROVE f[m] <= p - 1
      OBVIOUS
    <3>2. m \in 1..n /\ m < m + 1
      BY <2>2, <3>1
    <3>3. f[m] < f[m + 1] /\ f[m] \in Nat /\ f[m + 1] \in Nat
      BY <1>3, <2>2, <3>2
    <3>4. QED
      BY <3>3
  <2>5. Charge(t)[m] <= Charge(s)[p - 1]
    BY <1>7, <2>3, <2>4
  <2>6. t[m + 1].bytes = s[p].bytes /\ s[p].bytes \in Nat
    BY <1>1, <1>2, <2>2 DEF Slot
  <2>7. Charge(t)[m + 1] = Charge(t)[m] + t[m + 1].bytes
    BY <1>2, <2>2, ChargeAdds
  <2>8. Charge(s)[p] = Charge(s)[p - 1] + s[p].bytes
    BY <2>3, ChargeAdds
  <2>9. Charge(s)[p] <= Charge(s)[k]
    BY <2>3, ChargeGrows
  <2>10. /\ Charge(t)[m] \in Nat /\ Charge(t)[m + 1] \in Nat
         /\ Charge(s)[p - 1] \in Nat /\ Charge(s)[p] \in Nat /\ Charge(s)[k] \in Nat
    BY <1>4, <1>5, <2>2, <2>3
  <2> HIDE DEF p
  <2>11. QED
    BY <2>5, <2>6, <2>7, <2>8, <2>9, <2>10
<1> HIDE DEF Below
<1>8. 0 \in Fits /\ \A m \in Nat : m \in Fits => m + 1 \in Fits
  BY <1>6, <1>7
<1> HIDE DEF Fits
<1>9. n \in Fits
  BY <1>8, SetInduction
<1>10. Below(n)
  BY <1>9 DEF Fits
<1>11. Charge(t)[n] <= Charge(s)[Len(s)]
  BY <1>3, <1>10 DEF Below
<1>12. Used(t) <= Used(s)
  BY <1>2, <1>11, ChargeAdds
<1>13. QED
  BY <1>2, <1>12 DEF t

-----------------------------------------------------------------------------
(* The inductive invariant. *)

\* The code between reserve and the drop of the lease.
HoldsLease == {"convert", "charge", "settle", "release"}

\* A publisher owns storage exactly between reserve and the drop of its lease.
LeaseStages == \A p \in Publishers : pub[p].data # NoBuf <=> pub[p].pc \in HoldsLease

\* No slot is empty: a reservation that would leave one is refused before.
SlotsPaid == \A i \in DOMAIN slots : slots[i].bytes > 0

\* Storage is in one slot or in one lease, and what is written to nobody reads.
OneHome ==
  /\ \A i, j \in DOMAIN slots : slots[i].data # NoBuf /\ slots[i].data = slots[j].data => i = j
  /\ \A p \in Leasing : \A i \in DOMAIN slots : slots[i].data # pub[p].data
  /\ \A p, q \in Leasing : pub[p].data = pub[q].data => p = q
  /\ \A p \in Publishers : pub[p].pc = "convert" => pub[p].data \notin LiveBufs

Storage ==
  /\ LeaseStages /\ SlotsPaid /\ OneHome
  /\ LeaseIndexStable /\ SlotsRecoverable /\ WithinBudget

\* A start under way is the only one, its epoch is newer than any a publisher
\* has seen, and it has reset the counters.
Epochs ==
  /\ session < nextSession
  /\ \A p \in Publishers : pub[p].session <= session
  /\ \A c \in Controllers : ctl[c].pc = "replace" =>
       /\ session < ctl[c].session /\ ctl[c].session < nextSession
       /\ metrics = NoMetrics
       /\ \A d \in Controllers : ctl[d].pc = "replace" => d = c

\* Publishers whose frame the current epoch has received and not yet counted.
Pending == {p \in Publishers : pub[p].pc \in {"convert", "settle"} /\ pub[p].session = session}

\* While no start is under way every frame received is published, dropped,
\* pending or failed.
Counted == PoolFree => metrics.published + metrics.drops + Cardinality(Pending) <= metrics.received

PoolInv == TypeOK /\ Storage /\ Epochs /\ Counted

-----------------------------------------------------------------------------
(* Storage: lemmas. *)

PubSet == [pc : PubPc, session : Nat, index : Nat, data : Buf \cup {NoBuf}]

CtlSet == [pc : {"idle", "replace", "configure"}, session : Nat]

MetricsSet == [received : Nat, published : Nat, drops : Nat, errors : Nat]

\* What the types say of the slots and the budget.
LEMMA SlotFacts ==
  ASSUME TypeOK
  PROVE  /\ slots \in Seq(Slot) /\ Len(slots) \in Nat /\ DOMAIN slots = 1..Len(slots)
         /\ \A i \in DOMAIN slots :
              slots[i] \in Slot /\ slots[i].bytes \in Nat /\ slots[i].data \in Buf \cup {NoBuf}
         /\ budget.buffers \in Nat /\ budget.bytes \in Nat
         /\ Used(slots) \in Nat
<1>1. slots \in Seq(Slot) /\ budget \in Budgets
  BY DEF TypeOK
<1>2. Len(slots) \in Nat /\ DOMAIN slots = 1..Len(slots)
  BY <1>1, LenProperties
<1>3. \A i \in 1..Len(slots) : slots[i] \in Slot
  BY <1>1, ElementOfSeq
<1>4. \A e \in Slot : e.bytes \in Nat /\ e.data \in Buf \cup {NoBuf}
  BY DEF Slot
<1>5. budget.buffers \in Nat /\ budget.bytes \in Nat
  BY <1>1, BudgetsAssumption
<1>6. QED
  BY <1>1, <1>2, <1>3, <1>4, <1>5, UsedNat

\* A publisher that only moves on keeps its lease and the epoch it saw.
LEMMA PubMoves ==
  ASSUME TypeOK, NEW p \in Publishers, NEW pc \in PubPc,
         pub' = [pub EXCEPT ![p].pc = pc]
  PROVE  /\ pub' \in [Publishers -> PubSet]
         /\ pub'[p].pc = pc
         /\ \A q \in Publishers : q # p => pub'[q] = pub[q]
         /\ \A q \in Publishers : /\ pub'[q].data = pub[q].data /\ pub'[q].index = pub[q].index
                                  /\ pub'[q].session = pub[q].session
<1>1. pub \in [Publishers -> PubSet]
  BY DEF TypeOK, PubSet
<1> DEFINE r == [pub[p] EXCEPT !.pc = pc]
<1>2. /\ r \in PubSet /\ r.pc = pc /\ r.data = pub[p].data /\ r.index = pub[p].index
      /\ r.session = pub[p].session
  BY <1>1 DEF PubSet
<1>3. pub' = [pub EXCEPT ![p] = r]
  OBVIOUS
<1> HIDE DEF r
<1>4. pub' \in [Publishers -> PubSet] /\ pub'[p] = r /\ \A q \in Publishers : q # p => pub'[q] = pub[q]
  BY <1>1, <1>2, <1>3
<1>5. QED
  BY <1>2, <1>4

\* A publisher's record is replaced.
LEMMA PubReplaced ==
  ASSUME TypeOK, NEW p \in Publishers, NEW r \in PubSet, pub' = [pub EXCEPT ![p] = r]
  PROVE  /\ pub' \in [Publishers -> PubSet] /\ pub'[p] = r
         /\ \A q \in Publishers : q # p => pub'[q] = pub[q]
BY DEF TypeOK, PubSet

\* IdlePub holds no lease.
LEMMA IdleRecords ==
  /\ IdlePub \in PubSet /\ IdlePub.data = NoBuf /\ IdlePub.pc = "idle" /\ IdlePub.session = 0
  /\ IdleCtl \in CtlSet /\ IdleCtl.pc = "idle"
  /\ NoMetrics \in MetricsSet /\ NoMetrics.received = 0
  /\ NoMetrics.published = 0 /\ NoMetrics.drops = 0
BY DEF IdlePub, PubSet, PubPc, IdleCtl, CtlSet, NoMetrics, MetricsSet

\* A step that moves no storage, hands out none and takes none back.
LEMMA StorageStays ==
  ASSUME TypeOK, Storage,
         UNCHANGED <<slots, budget>>, pub' \in [Publishers -> PubSet],
         \A p \in Publishers : pub'[p].data = pub[p].data,
         \A p \in Leasing : pub'[p].index = pub[p].index,
         \A p \in Publishers : pub'[p].pc = "convert" => pub[p].pc = "convert",
         LeaseStages', LiveBufs' \subseteq LiveBufs
  PROVE  Storage'
<1> USE DEF Storage
<1>1. Leasing' = Leasing /\ LeasedBufs' = LeasedBufs /\ PooledBufs' = PooledBufs
  BY DEF Leasing, LeasedBufs, PooledBufs
<1>2. OneHome'
  BY <1>1 DEF OneHome, Leasing
<1>3. LeaseIndexStable'
  BY <1>1 DEF LeaseIndexStable
<1>4. SlotsRecoverable'
  BY <1>1 DEF SlotsRecoverable
<1>5. WithinBudget'
  <2>1. Used(slots)' = Used(slots) /\ Len(slots)' = Len(slots)
    OBVIOUS
  <2>2. QED
    BY <1>1, <2>1 DEF WithinBudget
<1>6. SlotsPaid'
  BY DEF SlotsPaid
<1>7. QED
  BY <1>2, <1>3, <1>4, <1>5, <1>6

\* Frames offered while no storage is free, or none within the budget, leave
\* the pool as it is: the branches of reserve that empty or pop a slot would
\* need a slot that is not paid for.
LEMMA ReuseCases ==
  ASSUME TypeOK, Storage, NEW p \in Publishers, NEW len \in Lengths, NEW rgb \in BOOLEAN,
         NEW i \in FreeSlots, ReserveReuse(p, len, rgb, i)
  PROVE  \/ UNCHANGED <<slots, pub>> /\ metrics' = Dropped
         \/ /\ Allocated(i, len, rgb) \in Nat \ {0}
            /\ Allocated(i, len, rgb) <= budget.bytes - (Used(slots) - slots[i].bytes)
            /\ slots' = [slots EXCEPT ![i] = [data |-> NoBuf, rgb |-> rgb,
                                              bytes |-> Allocated(i, len, rgb)]]
            /\ metrics' = Received
            /\ Lease(p, i, slots[i].data)
<1>1. i \in DOMAIN slots /\ slots[i].bytes \in Nat /\ slots[i].bytes > 0
  BY SlotFacts DEF Storage, SlotsPaid, FreeSlots
<1>2. len \in Nat /\ len > 0
  BY LengthsAssumption
<1>3. Used(slots) \in Nat /\ budget.bytes \in Nat /\ Used(slots) <= budget.bytes
  BY SlotFacts DEF Storage, WithinBudget
<1>4. Allocated(i, len, rgb) \in {len, slots[i].bytes} /\ Available(i) >= slots[i].bytes
  BY <1>1, <1>2, <1>3 DEF Allocated, Available
<1>5. CASE len > Available(i)
  BY <1>1, <1>5 DEF ReserveReuse
<1>6. CASE ~(len > Available(i))
  <2>1. Available(i) \in Int
    BY <1>1, <1>3 DEF Available
  <2>2. ~(Allocated(i, len, rgb) > Available(i)) /\ Allocated(i, len, rgb) \in Nat \ {0}
    BY <1>1, <1>2, <1>4, <1>6, <2>1
  <2>3. /\ slots' = [slots EXCEPT ![i] = [data |-> NoBuf, rgb |-> rgb,
                                          bytes |-> Allocated(i, len, rgb)]]
        /\ metrics' = Received
        /\ Lease(p, i, slots[i].data)
    BY <1>6, <2>2 DEF ReserveReuse
  <2>4. Allocated(i, len, rgb) <= Available(i)
    BY <2>1, <2>2
  <2>5. QED
    BY <2>2, <2>3, <2>4 DEF Available
<1>7. QED
  BY <1>5, <1>6

-----------------------------------------------------------------------------
(* Storage: the steps that move it. *)

\* A lease on the storage of a free slot, which no frame refers to.
LEMMA LeaseReused ==
  ASSUME TypeOK, Storage, NEW p \in Publishers, pub[p].pc = "idle",
         NEW i \in FreeSlots, NEW bytes \in Nat \ {0}, NEW rgb \in BOOLEAN,
         bytes <= budget.bytes - (Used(slots) - slots[i].bytes),
         slots' = [slots EXCEPT ![i] = [data |-> NoBuf, rgb |-> rgb, bytes |-> bytes]],
         Lease(p, i, slots[i].data), UNCHANGED <<latest, shared, budget>>
  PROVE  Storage' /\ slots' \in Seq(Slot) /\ pub' \in [Publishers -> PubSet] /\ pub'[p].session = session
<1> USE DEF Storage
<1> DEFINE e == [data |-> NoBuf, rgb |-> rgb, bytes |-> bytes]
           b == slots[i].data
           r == [pc |-> "convert", session |-> session, index |-> i, data |-> b]
<1>1. /\ slots \in Seq(Slot) /\ Len(slots) \in Nat /\ DOMAIN slots = 1..Len(slots)
      /\ Used(slots) \in Nat /\ budget.bytes \in Nat
      /\ \A j \in DOMAIN slots : slots[j].data \in Buf \cup {NoBuf} /\ slots[j].bytes \in Nat
  BY SlotFacts
<1>2. i \in 1..Len(slots) /\ b \in PooledBufs /\ b \notin LiveBufs /\ b # NoBuf /\ b \in Buf
  BY <1>1 DEF FreeSlots, PooledBufs
<1>3. e \in Slot /\ e.data = NoBuf /\ e.bytes = bytes
  BY DEF Slot
<1>4. r \in PubSet /\ r.pc = "convert" /\ r.index = i /\ r.data = b /\ r.session = session
  BY <1>1, <1>2 DEF PubSet, PubPc, TypeOK
<1>5. slots' = [slots EXCEPT ![i] = e] /\ pub' = [pub EXCEPT ![p] = r]
  BY DEF Lease
<1> HIDE DEF e, r, b
<1>6. /\ slots' \in Seq(Slot) /\ Len(slots') = Len(slots) /\ DOMAIN slots' = DOMAIN slots
      /\ slots'[i] = e /\ \A j \in DOMAIN slots : j # i => slots'[j] = slots[j]
  BY <1>1, <1>2, <1>3, <1>5, ExceptSeq
<1>7. /\ pub' \in [Publishers -> PubSet] /\ pub'[p] = r
      /\ \A q \in Publishers : q # p => pub'[q] = pub[q]
  BY <1>4, <1>5, PubReplaced
<1>8. p \notin Leasing /\ Leasing' = Leasing \cup {p}
  BY <1>2, <1>4, <1>7 DEF Leasing, LeaseStages, HoldsLease
<1>9. LiveBufs' = LiveBufs
  BY DEF LiveBufs
<1>10. \A q \in Leasing : pub[q].data # b
  BY <1>2 DEF OneHome, b
<1>11. LeaseStages'
  BY <1>2, <1>4, <1>7 DEF LeaseStages, HoldsLease
<1>12. SlotsPaid'
  BY <1>3, <1>6 DEF SlotsPaid
<1>13. OneHome'
  <2>1. \A j, k \in DOMAIN slots' : slots'[j].data # NoBuf /\ slots'[j].data = slots'[k].data => j = k
    BY <1>3, <1>6 DEF OneHome
  <2>2. \A q \in Leasing' : \A j \in DOMAIN slots' : slots'[j].data # pub'[q].data
    <3>1. ASSUME NEW j \in DOMAIN slots, j # i PROVE slots[j].data # b
      BY <1>1, <1>2, <3>1 DEF OneHome, b
    <3>2. \A q \in Leasing : pub'[q].data = pub[q].data /\ pub[q].data # NoBuf
      BY <1>7, <1>8 DEF Leasing
    <3>3. QED
      BY <1>2, <1>3, <1>4, <1>6, <1>7, <1>8, <3>1, <3>2 DEF OneHome
  <2>3. \A q, s \in Leasing' : pub'[q].data = pub'[s].data => q = s
    BY <1>4, <1>7, <1>8, <1>10 DEF OneHome, Leasing
  <2>4. \A q \in Publishers : pub'[q].pc = "convert" => pub'[q].data \notin LiveBufs'
    BY <1>2, <1>4, <1>7, <1>9 DEF OneHome
  <2>5. QED
    BY <2>1, <2>2, <2>3, <2>4 DEF OneHome
<1>14. LeaseIndexStable'
  <2>1. \A q \in Leasing : pub[q].index # i
    BY <1>2 DEF LeaseIndexStable, b
  <2>2. \A q \in Leasing : pub'[q] = pub[q]
    BY <1>7, <1>8 DEF Leasing
  <2> SUFFICES ASSUME NEW q \in Leasing'
               PROVE  /\ pub'[q].index \in DOMAIN slots'
                      /\ slots'[pub'[q].index].data = NoBuf
                      /\ slots'[pub'[q].index].bytes > 0
                      /\ \A s \in Leasing' \ {q} : pub'[s].index # pub'[q].index
    BY DEF LeaseIndexStable
  <2>3. CASE q = p
    <3>1. pub'[p].index = i /\ slots'[i].data = NoBuf /\ slots'[i].bytes > 0
      BY <1>2, <1>3, <1>4, <1>6, <1>7
    <3>2. i \in DOMAIN slots'
      BY <1>2, <1>6
    <3>3. \A s \in Leasing' \ {p} : s \in Leasing
      BY <1>8
    <3>4. \A s \in Leasing' \ {p} : pub'[s].index # i
      BY <2>1, <2>2, <3>3
    <3>5. QED
      BY <2>3, <3>1, <3>2, <3>4
  <2>4. CASE q # p
    <3>1. q \in Leasing
      BY <1>8, <2>4
    <3>2. pub'[q].index \in DOMAIN slots /\ pub'[q].index # i /\ slots[pub'[q].index].data = NoBuf
      BY <2>1, <2>2, <3>1 DEF LeaseIndexStable
    <3>3. \A s \in Leasing \ {q} : pub'[s].index # pub'[q].index
      BY <2>2, <3>1 DEF LeaseIndexStable
    <3>4. slots[pub'[q].index].bytes > 0
      BY <3>2 DEF SlotsPaid
    <3>5. QED
      BY <1>4, <1>6, <1>7, <1>8, <3>2, <3>3, <3>4
  <2>5. QED
    BY <2>3, <2>4
<1>15. SlotsRecoverable'
  BY <1>3, <1>4, <1>6, <1>7, <1>8 DEF SlotsRecoverable, Leasing
<1>16. WithinBudget'
  <2>1. Used(slots') <= budget.bytes
    <3>1. Used(slots') = Used(slots) - slots[i].bytes + bytes
      <4>1. Used([slots EXCEPT ![i] = e]) = Used(slots) - slots[i].bytes + e.bytes
        BY <1>1, <1>2, <1>3, UsedReplaced
      <4>2. QED
        BY <1>3, <1>5, <4>1
    <3>2. slots[i].bytes \in Nat
      BY <1>1, <1>2
    <3>3. QED
      BY <1>1, <3>1, <3>2
  <2>2. LiveBufs' \subseteq PooledBufs' \cup LeasedBufs'
    <3>1. LeasedBufs \subseteq LeasedBufs'
      BY <1>7, <1>8 DEF LeasedBufs, Leasing
    <3>2. PooledBufs \subseteq PooledBufs' \cup {b}
      BY <1>6 DEF PooledBufs, b
    <3>3. QED
      BY <1>2, <1>9, <3>1, <3>2 DEF WithinBudget
  <2>3. QED
    BY <1>6, <2>1, <2>2 DEF WithinBudget
<1>17. QED
  BY <1>4, <1>6, <1>7, <1>11, <1>12, <1>13, <1>14, <1>15, <1>16

\* A lease on new storage, for which a slot is pushed.
LEMMA LeaseGrown ==
  ASSUME TypeOK, Storage, NEW p \in Publishers, pub[p].pc = "idle",
         NEW bytes \in Nat \ {0}, NEW rgb \in BOOLEAN,
         Len(slots) < budget.buffers, bytes <= budget.bytes - Used(slots),
         slots' = Append(slots, [data |-> NoBuf, bytes |-> bytes, rgb |-> rgb]),
         NEW b \in Buf \ (LiveBufs \cup LeasedBufs \cup PooledBufs),
         Lease(p, Len(slots) + 1, b), UNCHANGED <<latest, shared, budget>>
  PROVE  Storage' /\ slots' \in Seq(Slot) /\ pub' \in [Publishers -> PubSet] /\ pub'[p].session = session
<1> USE DEF Storage
<1> DEFINE e == [data |-> NoBuf, bytes |-> bytes, rgb |-> rgb]
           i == Len(slots) + 1
           r == [pc |-> "convert", session |-> session, index |-> i, data |-> b]
<1>1. /\ slots \in Seq(Slot) /\ Len(slots) \in Nat /\ DOMAIN slots = 1..Len(slots)
      /\ Used(slots) \in Nat /\ budget.bytes \in Nat /\ budget.buffers \in Nat
      /\ \A j \in DOMAIN slots : slots[j].data \in Buf \cup {NoBuf} /\ slots[j].bytes \in Nat
  BY SlotFacts
<1>2. b # NoBuf /\ b \notin LiveBufs /\ b \notin LeasedBufs /\ b \notin PooledBufs
  BY NoBufAssumption
<1>3. e \in Slot /\ e.data = NoBuf /\ e.bytes = bytes
  BY DEF Slot
<1>4. r \in PubSet /\ r.pc = "convert" /\ r.index = i /\ r.data = b /\ r.session = session
  BY <1>1, <1>2 DEF PubSet, PubPc, TypeOK
<1>5. slots' = Append(slots, e) /\ pub' = [pub EXCEPT ![p] = r]
  BY DEF Lease
<1>6. /\ slots' \in Seq(Slot) /\ Len(slots') = i /\ DOMAIN slots' = DOMAIN slots \cup {i}
      /\ i \notin DOMAIN slots
      /\ slots'[i] = e /\ \A j \in DOMAIN slots : slots'[j] = slots[j]
  <2> HIDE DEF e
  <2>1. /\ slots' \in Seq(Slot) /\ Len(slots') = i
        /\ slots'[i] = e /\ \A j \in 1..Len(slots) : slots'[j] = slots[j]
    BY <1>1, <1>3, <1>5, AppendProperties
  <2>2. DOMAIN slots' = 1..i
    BY <2>1, LenProperties
  <2>3. QED
    BY <1>1, <2>1, <2>2
<1>7. Used(slots') = Used(slots) + bytes
  BY <1>1, <1>3, <1>5, UsedAppend
<1> HIDE DEF e, r, i
<1>8. /\ pub' \in [Publishers -> PubSet] /\ pub'[p] = r
      /\ \A q \in Publishers : q # p => pub'[q] = pub[q]
  BY <1>4, <1>5, PubReplaced
<1>9. p \notin Leasing /\ Leasing' = Leasing \cup {p}
  BY <1>2, <1>4, <1>8 DEF Leasing, LeaseStages, HoldsLease
<1>10. LiveBufs' = LiveBufs
  BY DEF LiveBufs
<1>11. \A q \in Leasing : pub[q].data # b
  BY <1>2 DEF LeasedBufs
<1>12. \A j \in DOMAIN slots : slots[j].data # b
  BY <1>2 DEF PooledBufs
<1>13. LeaseStages'
  BY <1>2, <1>4, <1>8 DEF LeaseStages, HoldsLease
<1>14. SlotsPaid'
  BY <1>3, <1>6 DEF SlotsPaid
<1>15. OneHome'
  <2>1. \A j, k \in DOMAIN slots' : slots'[j].data # NoBuf /\ slots'[j].data = slots'[k].data => j = k
    BY <1>3, <1>6 DEF OneHome
  <2>2. \A q \in Leasing' : \A j \in DOMAIN slots' : slots'[j].data # pub'[q].data
    <3>1. \A q \in Leasing : pub'[q].data = pub[q].data /\ pub[q].data # NoBuf
      BY <1>8, <1>9 DEF Leasing
    <3>2. QED
      BY <1>2, <1>3, <1>4, <1>6, <1>8, <1>9, <1>12, <3>1 DEF OneHome
  <2>3. \A q, s \in Leasing' : pub'[q].data = pub'[s].data => q = s
    BY <1>4, <1>8, <1>9, <1>11 DEF OneHome, Leasing
  <2>4. \A q \in Publishers : pub'[q].pc = "convert" => pub'[q].data \notin LiveBufs'
    BY <1>2, <1>4, <1>8, <1>10 DEF OneHome
  <2>5. QED
    BY <2>1, <2>2, <2>3, <2>4 DEF OneHome
<1>16. LeaseIndexStable'
  <2>1. \A q \in Leasing : pub'[q] = pub[q] /\ pub[q].index # i
    BY <1>6, <1>8, <1>9 DEF Leasing, LeaseIndexStable
  <2>2. pub'[p].index = i /\ i \in DOMAIN slots' /\ slots'[i].data = NoBuf /\ slots'[i].bytes > 0
    BY <1>3, <1>4, <1>6, <1>8
  <2> SUFFICES ASSUME NEW q \in Leasing'
               PROVE  /\ pub'[q].index \in DOMAIN slots'
                      /\ slots'[pub'[q].index].data = NoBuf
                      /\ slots'[pub'[q].index].bytes > 0
                      /\ \A s \in Leasing' \ {q} : pub'[s].index # pub'[q].index
    BY DEF LeaseIndexStable
  <2>3. CASE q = p
    <3>1. \A s \in Leasing' \ {p} : s \in Leasing
      BY <1>9
    <3>2. QED
      BY <2>1, <2>2, <2>3, <3>1
  <2>4. CASE q # p
    <3>1. q \in Leasing
      BY <1>9, <2>4
    <3>2. /\ pub'[q].index \in DOMAIN slots /\ pub'[q].index # i
          /\ slots[pub'[q].index].data = NoBuf /\ slots[pub'[q].index].bytes > 0
      BY <2>1, <3>1 DEF LeaseIndexStable
    <3>3. \A s \in Leasing \ {q} : pub'[s].index # pub'[q].index
      BY <2>1, <3>1 DEF LeaseIndexStable
    <3>4. QED
      BY <1>6, <1>9, <2>2, <3>2, <3>3
  <2>5. QED
    BY <2>3, <2>4
<1>17. SlotsRecoverable'
  <2>1. p \in Leasing' /\ pub'[p].index = i
    BY <1>4, <1>8, <1>9
  <2>2. \A q \in Leasing : q \in Leasing' /\ pub'[q] = pub[q]
    BY <1>8, <1>9 DEF Leasing
  <2>3. ASSUME NEW j \in DOMAIN slots, slots[j].data = NoBuf
        PROVE  \E q \in Leasing' : pub'[q].index = j
    BY <2>2, <2>3 DEF SlotsRecoverable
  <2>4. QED
    BY <1>6, <2>1, <2>3 DEF SlotsRecoverable
<1>18. WithinBudget'
  <2>1. Len(slots') <= budget.buffers /\ Used(slots') <= budget.bytes
    BY <1>1, <1>6, <1>7 DEF i
  <2>2. LeasedBufs \subseteq LeasedBufs'
    BY <1>8, <1>9 DEF LeasedBufs, Leasing
  <2>3. PooledBufs \subseteq PooledBufs'
    BY <1>6 DEF PooledBufs
  <2>4. QED
    BY <1>10, <2>1, <2>2, <2>3 DEF WithinBudget
<1>19. QED
  BY <1>4, <1>6, <1>8, <1>13, <1>14, <1>15, <1>16, <1>17, <1>18

\* Drop for Lease: the storage goes back to the slot it came from.
LEMMA LeaseReturned ==
  ASSUME TypeOK, Storage, NEW p \in Publishers, Release(p)
  PROVE  Storage' /\ slots' \in Seq(Slot) /\ pub' \in [Publishers -> PubSet] /\ pub'[p].session = 0
<1> USE DEF Storage
<1> DEFINE i == pub[p].index
           b == pub[p].data
           e == [slots[i] EXCEPT !.data = b]
<1>1. /\ slots \in Seq(Slot) /\ Len(slots) \in Nat /\ DOMAIN slots = 1..Len(slots)
      /\ \A j \in DOMAIN slots : slots[j] \in Slot
  BY SlotFacts
<1>2. p \in Leasing /\ b \in Buf /\ b # NoBuf
  BY DEF Release, LeaseStages, HoldsLease, Leasing, TypeOK
<1>3. i \in DOMAIN slots /\ slots[i].data = NoBuf /\ slots[i].bytes > 0
      /\ \A q \in Leasing \ {p} : pub[q].index # i
  BY <1>2 DEF LeaseIndexStable
<1>4. e \in Slot /\ e.data = b /\ e.bytes = slots[i].bytes
  BY <1>1, <1>2, <1>3 DEF Slot
<1>5. slots' = [slots EXCEPT ![i] = e] /\ pub' = [pub EXCEPT ![p] = IdlePub]
      /\ UNCHANGED <<latest, shared, budget>>
  BY DEF Release
<1> HIDE DEF e, i, b
<1>6. /\ slots' \in Seq(Slot) /\ Len(slots') = Len(slots) /\ DOMAIN slots' = DOMAIN slots
      /\ slots'[i] = e /\ \A j \in DOMAIN slots : j # i => slots'[j] = slots[j]
  BY <1>1, <1>3, <1>4, <1>5, ExceptSeq
<1>7. /\ pub' \in [Publishers -> PubSet] /\ pub'[p] = IdlePub
      /\ \A q \in Publishers : q # p => pub'[q] = pub[q]
  BY <1>5, IdleRecords, PubReplaced
<1>8. Leasing' = Leasing \ {p}
  BY <1>7, IdleRecords DEF Leasing
<1>9. LiveBufs' = LiveBufs
  BY <1>5 DEF LiveBufs
<1>10. \A q \in Leasing \ {p} : pub'[q] = pub[q] /\ pub[q].data # b
  BY <1>2, <1>7 DEF OneHome, Leasing, b
<1>11. \A j \in DOMAIN slots : slots[j].data # b
  BY <1>2 DEF OneHome, b
<1>12. LeaseStages'
  BY <1>7, IdleRecords DEF LeaseStages, HoldsLease
<1>13. SlotsPaid'
  BY <1>3, <1>4, <1>6 DEF SlotsPaid
<1>14. OneHome'
  <2>1. \A j, k \in DOMAIN slots' : slots'[j].data # NoBuf /\ slots'[j].data = slots'[k].data => j = k
    BY <1>4, <1>6, <1>11 DEF OneHome
  <2>2. \A q \in Leasing' : \A j \in DOMAIN slots' : slots'[j].data # pub'[q].data
    BY <1>4, <1>6, <1>8, <1>10 DEF OneHome
  <2>3. \A q, s \in Leasing' : pub'[q].data = pub'[s].data => q = s
    BY <1>8, <1>10 DEF OneHome
  <2>4. \A q \in Publishers : pub'[q].pc = "convert" => pub'[q].data \notin LiveBufs'
    BY <1>7, <1>9, IdleRecords DEF OneHome
  <2>5. QED
    BY <2>1, <2>2, <2>3, <2>4 DEF OneHome
<1>15. LeaseIndexStable'
  <2> SUFFICES ASSUME NEW q \in Leasing \ {p}
               PROVE  /\ pub[q].index \in DOMAIN slots'
                      /\ slots'[pub[q].index].data = NoBuf
                      /\ slots'[pub[q].index].bytes > 0
                      /\ \A s \in Leasing \ {p, q} : pub[s].index # pub[q].index
    BY <1>8, <1>10 DEF LeaseIndexStable
  <2>1. /\ pub[q].index \in DOMAIN slots /\ slots[pub[q].index].data = NoBuf
        /\ slots[pub[q].index].bytes > 0 /\ pub[q].index # i
    BY <1>3 DEF LeaseIndexStable
  <2>2. QED
    BY <1>6, <2>1 DEF LeaseIndexStable
<1>16. SlotsRecoverable'
  <2> SUFFICES ASSUME NEW j \in DOMAIN slots, slots'[j].data = NoBuf
               PROVE  \E q \in Leasing \ {p} : pub[q].index = j
    BY <1>6, <1>8, <1>10 DEF SlotsRecoverable
  <2>1. j # i
    BY <1>2, <1>4, <1>6
  <2>2. PICK q \in Leasing : pub[q].index = j
    BY <1>6, <2>1 DEF SlotsRecoverable
  <2>3. QED
    BY <2>1, <2>2 DEF i
<1>17. WithinBudget'
  <2>1. \A j \in 1..Len(slots) : slots'[j].bytes = slots[j].bytes
    BY <1>1, <1>4, <1>6
  <2>2. Used(slots') = Used(slots)
    BY <1>1, <1>6, <2>1, UsedSame
  <2>3. LeasedBufs \subseteq LeasedBufs' \cup {b}
    BY <1>8, <1>10 DEF LeasedBufs, b
  <2>4. PooledBufs \cup {b} \subseteq PooledBufs'
    BY <1>2, <1>3, <1>4, <1>6 DEF PooledBufs
  <2>5. QED
    BY <1>5, <1>6, <1>9, <2>2, <2>3, <2>4 DEF WithinBudget
<1>18. QED
  BY <1>6, <1>7, <1>12, <1>13, <1>14, <1>15, <1>16, <1>17, IdleRecords

\* finish_publish: the storage of one lease becomes readable.
LEMMA LeasePublished ==
  ASSUME TypeOK, Storage, NEW p \in Publishers, Publish(p)
  PROVE  Storage'
<1> USE DEF Storage
<1>1. /\ pub' \in [Publishers -> PubSet] /\ pub'[p].pc = "settle"
      /\ \A q \in Publishers : q # p => pub'[q] = pub[q]
      /\ \A q \in Publishers : pub'[q].data = pub[q].data /\ pub'[q].index = pub[q].index
  BY PubMoves DEF Publish, PubPc
<1>2. UNCHANGED <<slots, budget>> /\ LiveBufs' \subseteq LiveBufs \cup {pub[p].data}
      /\ pub[p].pc = "convert"
  BY DEF Publish, LiveBufs, pool
<1>3. Leasing' = Leasing /\ LeasedBufs' = LeasedBufs /\ PooledBufs' = PooledBufs
  BY <1>1, <1>2 DEF Leasing, LeasedBufs, PooledBufs
<1>4. p \in Leasing
  BY <1>2 DEF LeaseStages, HoldsLease, Leasing
<1>5. LeaseStages'
  <2>1. \A q \in Publishers : q # p => (pub'[q].data # NoBuf <=> pub'[q].pc \in HoldsLease)
    BY <1>1 DEF LeaseStages
  <2>2. pub'[p].data # NoBuf /\ pub'[p].pc \in HoldsLease
    BY <1>1, <1>4 DEF Leasing, HoldsLease
  <2>3. QED
    BY <2>1, <2>2 DEF LeaseStages
<1>6. SlotsPaid' /\ LeaseIndexStable' /\ SlotsRecoverable'
  BY <1>1, <1>2, <1>3 DEF SlotsPaid, LeaseIndexStable, SlotsRecoverable, Leasing
<1>7. OneHome'
  <2>1. \A q \in Publishers : pub'[q].pc = "convert" => pub'[q].data \notin LiveBufs'
    <3> SUFFICES ASSUME NEW q \in Publishers, pub'[q].pc = "convert"
                 PROVE  pub[q].data \notin LiveBufs'
      BY <1>1
    <3>1. q # p /\ pub[q].pc = "convert"
      BY <1>1
    <3>2. q \in Leasing /\ pub[q].data # pub[p].data
      BY <1>4, <3>1 DEF LeaseStages, HoldsLease, Leasing, OneHome
    <3>3. QED
      BY <1>2, <3>1, <3>2 DEF OneHome
  <2>2. QED
    BY <1>1, <1>2, <1>3, <2>1 DEF OneHome, Leasing
<1>8. WithinBudget'
  <2>1. pub[p].data \in LeasedBufs
    BY <1>4 DEF LeasedBufs
  <2>2. Used(slots)' = Used(slots) /\ Len(slots)' = Len(slots)
    BY <1>2
  <2>3. QED
    BY <1>2, <1>3, <2>1, <2>2 DEF WithinBudget
<1>9. QED
  BY <1>5, <1>6, <1>7, <1>8

\* configure gives back what nobody shares: only while nobody owns a lease.
LEMMA Compacted ==
  ASSUME TypeOK, Storage, NEW c \in Controllers, NEW b \in Budgets, ConfigureApply(c, b)
  PROVE  Storage' /\ slots' \in Seq(Slot) /\ budget' \in Budgets
<1> USE DEF Storage
<1>1. /\ slots \in Seq(Slot) /\ Len(slots) \in Nat /\ DOMAIN slots = 1..Len(slots)
      /\ Used(slots) \in Nat /\ budget.bytes \in Nat /\ budget.buffers \in Nat /\ budget \in Budgets
      /\ b.bytes \in Nat /\ b.buffers \in Nat
  BY SlotFacts, BudgetsAssumption DEF TypeOK
<1>2. UNCHANGED <<latest, shared, pub>> /\ LiveBufs' = LiveBufs /\ Leasing' = Leasing /\ LeasedBufs' = LeasedBufs
  BY DEF ConfigureApply, LiveBufs, Leasing, LeasedBufs
<1>3. CASE LeaseOutstanding
  <2>1. UNCHANGED <<slots, budget>>
    BY <1>3 DEF ConfigureApply
  <2>2. pub' \in [Publishers -> PubSet] /\ LeaseStages'
    BY <1>2 DEF TypeOK, PubSet, LeaseStages
  <2>3. Storage'
    BY <1>2, <2>1, <2>2, StorageStays
  <2>4. QED
    BY <1>1, <2>1, <2>3
<1>4. CASE ~LeaseOutstanding
  <2>1. PICK n \in 0..Len(slots) : \E f \in [1..n -> DOMAIN slots] :
          /\ Lists(f, {i \in DOMAIN slots : slots[i].data \in LiveBufs \cup {NoBuf}})
          /\ slots' = [i \in 1..n |-> slots[f[i]]]
          /\ budget' = IF n <= b.buffers /\ Used(slots') <= b.bytes THEN b ELSE budget
    BY <1>4 DEF ConfigureApply
  <2>2. PICK f \in [1..n -> DOMAIN slots] :
          /\ Lists(f, {i \in DOMAIN slots : slots[i].data \in LiveBufs \cup {NoBuf}})
          /\ slots' = [i \in 1..n |-> slots[f[i]]]
          /\ budget' = IF n <= b.buffers /\ Used(slots') <= b.bytes THEN b ELSE budget
    BY <2>1
  <2>3. n \in Nat /\ n <= Len(slots) /\ DOMAIN f = 1..n
    BY <1>1
  <2>4. \A i, j \in 1..n : i < j => f[i] < f[j]
    BY <2>2, <2>3 DEF Lists
  <2>5. \A j \in DOMAIN slots : slots[j].data \in LiveBufs => \E i \in 1..n : f[i] = j
    <3> SUFFICES ASSUME NEW j \in DOMAIN slots, slots[j].data \in LiveBufs
                 PROVE  \E i \in 1..n : f[i] = j
      OBVIOUS
    <3>1. j \in {f[i] : i \in DOMAIN f}
      BY <2>2 DEF Lists
    <3>2. QED
      BY <2>3, <3>1
  <2>6. slots' \in Seq(Slot) /\ Len(slots') = n /\ Used(slots') <= Used(slots)
    BY <1>1, <2>2, <2>3, <2>4, UsedListed
  <2>7. DOMAIN slots' = 1..n /\ \A i \in 1..n : f[i] \in DOMAIN slots /\ slots'[i] = slots[f[i]]
    BY <2>2
  <2>8. \A i \in DOMAIN slots : slots[i].data # NoBuf
    BY <1>4 DEF LeaseOutstanding, SlotsPaid
  <2>9. Leasing = {}
    BY <2>8 DEF LeaseIndexStable
  <2>10. Used(slots') \in Nat
    BY <2>6, UsedNat
  <2>11. SlotsPaid' /\ SlotsRecoverable'
    BY <2>7, <2>8 DEF SlotsPaid, SlotsRecoverable
  <2>12. LeaseIndexStable' /\ LeaseStages'
    BY <1>2, <2>9 DEF LeaseIndexStable, LeaseStages
  <2>13. OneHome'
    <3>1. \A i, j \in 1..n : f[i] = f[j] => i = j
      <4> SUFFICES ASSUME NEW i \in 1..n, NEW j \in 1..n, f[i] = f[j], i # j PROVE FALSE
        OBVIOUS
      <4>1. f[i] \in Nat /\ f[j] \in Nat /\ (i < j \/ j < i)
        BY <1>1, <2>3
      <4>2. QED
        BY <2>4, <4>1
    <3>2. \A i, j \in DOMAIN slots' : slots'[i].data # NoBuf /\ slots'[i].data = slots'[j].data => i = j
      BY <2>7, <3>1 DEF OneHome
    <3>3. QED
      BY <1>2, <2>9, <3>2 DEF OneHome
  <2>14. WithinBudget'
    <3>1. LiveBufs \subseteq PooledBufs'
      <4> SUFFICES ASSUME NEW x \in LiveBufs PROVE x \in PooledBufs'
        OBVIOUS
      <4>1. x \in PooledBufs /\ x # NoBuf
        BY <2>9 DEF WithinBudget, LeasedBufs, LiveBufs
      <4>2. PICK j \in DOMAIN slots : slots[j].data = x
        BY <4>1 DEF PooledBufs
      <4>3. PICK i \in 1..n : f[i] = j
        BY <2>5, <4>2
      <4>4. QED
        BY <2>7, <4>1, <4>2, <4>3 DEF PooledBufs
    <3>2. Len(slots') <= budget'.buffers /\ Used(slots') <= budget'.bytes
      BY <1>1, <2>2, <2>3, <2>6, <2>10 DEF WithinBudget
    <3>3. QED
      BY <1>2, <3>1, <3>2 DEF WithinBudget
  <2>15. QED
    BY <1>1, <2>2, <2>6, <2>11, <2>12, <2>13, <2>14
<1>5. QED
  BY <1>3, <1>4

-----------------------------------------------------------------------------
(* Counters and epochs: lemmas. *)

\* Pending publishers are finitely many.
LEMMA PendingFinite ==
  ASSUME NEW S, S \subseteq Publishers
  PROVE  IsFiniteSet(S) /\ Cardinality(S) \in Nat
BY PublishersAssumption, FS_Subset, FS_CardinalityType

\* No publisher leaves or enters the epoch's publications but by losing its frame.
LEMMA CountStays ==
  ASSUME Counted, PoolFree' => PoolFree, TypeOK,
         UNCHANGED metrics, Pending' \subseteq Pending
  PROVE  Counted'
<1>1. Pending \subseteq Publishers
  BY DEF Pending
<1>2. Cardinality(Pending') <= Cardinality(Pending)
  BY <1>1, PendingFinite, FS_Subset
<1>3. Cardinality(Pending') \in Nat /\ Cardinality(Pending) \in Nat
  BY <1>1, PendingFinite
<1>4. metrics.published \in Nat /\ metrics.drops \in Nat /\ metrics.received \in Nat
  BY DEF TypeOK
<1>5. PoolFree' => metrics.published + metrics.drops + Cardinality(Pending') <= metrics.received
  BY <1>2, <1>3, <1>4 DEF Counted
<1>6. QED
  BY <1>5 DEF Counted

\* The epochs do not move, and the counters only while no start is under way.
LEMMA EpochsStay ==
  ASSUME Epochs, UNCHANGED <<session, nextSession, ctl>>, UNCHANGED metrics \/ PoolFree,
         \A p \in Publishers : pub'[p].session <= session
  PROVE  Epochs'
BY DEF Epochs, PoolFree

\* What a control step changes.
LEMMA StartBeginKeeps ==
  ASSUME PoolInv, NEW c \in Controllers, StartBegin(c)
  PROVE  PoolInv'
<1> USE DEF PoolInv
<1>0. /\ UNCHANGED <<session, active, latest, slots, budget, pub>>
      /\ metrics' = NoMetrics /\ nextSession' = nextSession + 1 /\ shared' \subseteq shared
      /\ ctl' = [ctl EXCEPT ![c].pc = "replace", ![c].session = nextSession]
      /\ PoolFree
  BY DEF StartBegin, ClearQueues, epoch
<1>1. nextSession \in Nat \ {0} /\ session \in Nat /\ ctl \in [Controllers -> CtlSet]
  BY DEF TypeOK, CtlSet
<1> DEFINE r == [ctl[c] EXCEPT !.pc = "replace", !.session = nextSession]
<1>2. r \in CtlSet /\ r.pc = "replace" /\ r.session = nextSession
  BY <1>1 DEF CtlSet
<1>3. ctl' = [ctl EXCEPT ![c] = r]
  BY <1>0
<1> HIDE DEF r
<1>4. ctl' \in [Controllers -> CtlSet] /\ ctl'[c] = r /\ \A d \in Controllers : d # c => ctl'[d] = ctl[d]
  BY <1>1, <1>2, <1>3
<1>5. TypeOK'
  BY <1>0, <1>1, <1>4, IdleRecords DEF TypeOK, CtlSet, MetricsSet
<1>6. Storage'
  <2>1. LiveBufs' \subseteq LiveBufs /\ pub' \in [Publishers -> PubSet] /\ LeaseStages'
    BY <1>0 DEF LiveBufs, TypeOK, PubSet, Storage, LeaseStages
  <2>2. QED
    BY <1>0, <2>1, StorageStays
<1>7. Epochs'
  <2>1. \A d \in Controllers : d # c => ctl'[d].pc # "replace"
    BY <1>0, <1>4 DEF PoolFree
  <2>2. QED
    BY <1>0, <1>1, <1>2, <1>4, <2>1 DEF Epochs
<1>8. Counted'
  <2>1. ~PoolFree'
    BY <1>2, <1>4 DEF PoolFree
  <2>2. QED
    BY <2>1 DEF Counted
<1>9. QED
  BY <1>5, <1>6, <1>7, <1>8

\* The new epoch has received nothing and nobody publishes in it.
LEMMA StartReplaceKeeps ==
  ASSUME PoolInv, NEW c \in Controllers, StartReplace(c)
  PROVE  PoolInv'
<1> USE DEF PoolInv
<1>0. /\ UNCHANGED <<shared, nextSession, slots, budget, metrics, pub>>
      /\ session' = ctl[c].session /\ active' = TRUE /\ latest' = NoBuf
      /\ ctl' = [ctl EXCEPT ![c] = IdleCtl] /\ ctl[c].pc = "replace"
  BY DEF StartReplace, pool
<1>1. /\ nextSession \in Nat \ {0} /\ session \in Nat
      /\ ctl \in [Controllers -> CtlSet] /\ ctl[c].session \in Nat
      /\ \A p \in Publishers : pub[p].session \in Nat
  BY DEF TypeOK, CtlSet
<1>2. /\ session < ctl[c].session /\ ctl[c].session < nextSession /\ metrics = NoMetrics
      /\ \A d \in Controllers : ctl[d].pc = "replace" => d = c
      /\ \A p \in Publishers : pub[p].session <= session
  BY <1>0 DEF Epochs
<1>3. ctl' \in [Controllers -> CtlSet] /\ ctl'[c] = IdleCtl /\ \A d \in Controllers : d # c => ctl'[d] = ctl[d]
  BY <1>0, <1>1, IdleRecords
<1>4. TypeOK'
  BY <1>0, <1>1, <1>3 DEF TypeOK, CtlSet
<1>5. Storage'
  <2>1. LiveBufs' \subseteq LiveBufs /\ pub' \in [Publishers -> PubSet] /\ LeaseStages'
    BY <1>0 DEF LiveBufs, TypeOK, PubSet, Storage, LeaseStages
  <2>2. QED
    BY <1>0, <2>1, StorageStays
<1>6. Epochs'
  <2>1. \A d \in Controllers : ctl'[d].pc # "replace"
    BY <1>2, <1>3, IdleRecords
  <2>2. \A p \in Publishers : pub'[p].session <= session'
    BY <1>0, <1>1, <1>2
  <2>3. QED
    BY <1>0, <1>2, <2>1, <2>2 DEF Epochs
<1>7. Counted'
  <2>1. Pending' = {}
    BY <1>0, <1>1, <1>2 DEF Pending
  <2>2. Cardinality({}) = 0
    BY FS_EmptySet
  <2>3. metrics'.published = 0 /\ metrics'.drops = 0 /\ metrics'.received = 0
    BY <1>0, <1>2, IdleRecords
  <2>4. QED
    BY <2>1, <2>2, <2>3 DEF Counted
<1>8. QED
  BY <1>4, <1>5, <1>6, <1>7

\* stop, and the first half of configure.
LEMMA StopKeeps ==
  ASSUME PoolInv, Stop \/ \E c \in Controllers : ConfigureCheck(c)
  PROVE  PoolInv'
<1> USE DEF PoolInv
<1>0. /\ UNCHANGED <<session, nextSession, slots, budget, metrics, pub>>
      /\ shared' \subseteq shared /\ latest' \in {latest, NoBuf} /\ active' \in BOOLEAN
  BY DEF Stop, ConfigureCheck, ClearQueues, epoch, pool, TypeOK
<1>1. /\ ctl' \in [Controllers -> CtlSet]
      /\ \A d \in Controllers : ctl'[d].pc = "replace" <=> ctl[d].pc = "replace"
      /\ \A d \in Controllers : ctl'[d].session = ctl[d].session
  <2>1. ctl \in [Controllers -> CtlSet]
    BY DEF TypeOK, CtlSet
  <2>2. CASE Stop
    BY <2>1, <2>2 DEF Stop
  <2>3. ASSUME NEW c \in Controllers, ConfigureCheck(c)
        PROVE  /\ ctl' \in [Controllers -> CtlSet]
               /\ \A d \in Controllers : ctl'[d].pc = "replace" <=> ctl[d].pc = "replace"
               /\ \A d \in Controllers : ctl'[d].session = ctl[d].session
    <3> DEFINE r == [ctl[c] EXCEPT !.pc = "configure"]
    <3>1. r \in CtlSet /\ r.pc = "configure" /\ r.session = ctl[c].session
      BY <2>1 DEF CtlSet
    <3>2. ctl' = [ctl EXCEPT ![c] = r] /\ ctl[c].pc = "idle"
      BY <2>3 DEF ConfigureCheck
    <3> HIDE DEF r
    <3>3. QED
      BY <2>1, <3>1, <3>2
  <2>4. QED
    BY <2>2, <2>3
<1>2. TypeOK'
  BY <1>0, <1>1 DEF TypeOK, CtlSet
<1>3. Storage'
  <2>1. LiveBufs' \subseteq LiveBufs /\ pub' \in [Publishers -> PubSet] /\ LeaseStages'
    BY <1>0 DEF LiveBufs, TypeOK, PubSet, Storage, LeaseStages
  <2>2. QED
    BY <1>0, <2>1, StorageStays
<1>4. Epochs'
  BY <1>0, <1>1 DEF Epochs
<1>5. Counted'
  BY <1>0, <1>1, CountStays DEF PoolFree, Pending
<1>6. QED
  BY <1>2, <1>3, <1>4, <1>5

\* The second half of configure.
LEMMA ConfigureKeeps ==
  ASSUME PoolInv, NEW c \in Controllers, NEW b \in Budgets, ConfigureApply(c, b)
  PROVE  PoolInv'
<1> USE DEF PoolInv
<1>0. /\ UNCHANGED <<session, active, latest, shared, nextSession, metrics, pub>> /\ PoolFree
      /\ ctl' = [ctl EXCEPT ![c] = IdleCtl]
  BY DEF ConfigureApply, epoch
<1>1. ctl \in [Controllers -> CtlSet]
  BY DEF TypeOK, CtlSet
<1>2. ctl' \in [Controllers -> CtlSet] /\ ctl'[c] = IdleCtl /\ \A d \in Controllers : d # c => ctl'[d] = ctl[d]
  BY <1>0, <1>1, IdleRecords
<1>3. Storage' /\ slots' \in Seq(Slot) /\ budget' \in Budgets
  BY Compacted
<1>4. TypeOK'
  BY <1>0, <1>2, <1>3 DEF TypeOK, CtlSet
<1>5. Epochs'
  <2>1. \A d \in Controllers : ctl'[d].pc # "replace"
    BY <1>0, <1>2, IdleRecords DEF PoolFree
  <2>2. QED
    BY <1>0, <2>1 DEF Epochs
<1>6. Counted'
  BY <1>0, CountStays DEF Pending
<1>7. QED
  BY <1>3, <1>4, <1>5, <1>6

-----------------------------------------------------------------------------
(* The steps of the publishers. *)

\* What the counters become.
LEMMA MetricsFacts ==
  ASSUME TypeOK
  PROVE  /\ metrics.received \in Nat /\ metrics.published \in Nat /\ metrics.drops \in Nat
         /\ Received \in MetricsSet /\ Received.received = metrics.received + 1
         /\ Received.published = metrics.published /\ Received.drops = metrics.drops
         /\ Dropped \in MetricsSet /\ Dropped.received = metrics.received + 1
         /\ Dropped.published = metrics.published /\ Dropped.drops = metrics.drops + 1
         /\ [metrics EXCEPT !.errors = @ + 1] \in MetricsSet
         /\ [Received EXCEPT !.errors = @ + 1] \in MetricsSet
         /\ [metrics EXCEPT !.published = @ + 1] \in MetricsSet
<1>1. metrics \in MetricsSet
  BY DEF TypeOK, MetricsSet
<1>2. \A m \in MetricsSet :
        /\ m.received \in Nat /\ m.published \in Nat /\ m.drops \in Nat /\ m.errors \in Nat
        /\ [m EXCEPT !.errors = @ + 1] \in MetricsSet
        /\ [m EXCEPT !.published = @ + 1] \in MetricsSet
  BY DEF MetricsSet
<1>3. /\ Received \in MetricsSet /\ Received.received = metrics.received + 1
      /\ Received.published = metrics.published /\ Received.drops = metrics.drops
  BY <1>1 DEF MetricsSet, Received
<1>4. /\ Dropped \in MetricsSet /\ Dropped.received = metrics.received + 1
      /\ Dropped.published = metrics.published /\ Dropped.drops = metrics.drops + 1
  <2>1. Dropped = [metrics EXCEPT !.received = metrics.received + 1, !.drops = metrics.drops + 1]
    BY DEF Dropped
  <2>2. metrics.received + 1 \in Nat /\ metrics.drops + 1 \in Nat
    BY <1>1 DEF MetricsSet
  <2>3. QED
    BY <1>1, <2>1, <2>2 DEF MetricsSet
<1>5. QED
  BY <1>1, <1>2, <1>3, <1>4

\* A publisher that neither gets storage nor gives it back.
LEMMA QuietKeeps ==
  ASSUME PoolInv, NEW p \in Publishers, NEW r \in PubSet, pub' = [pub EXCEPT ![p] = r],
         r.data = pub[p].data, r.data # NoBuf => r.index = pub[p].index,
         r.pc \in HoldsLease <=> pub[p].pc \in HoldsLease,
         r.pc = "convert" => pub[p].pc = "convert", r.session <= session,
         UNCHANGED <<session, active, latest, shared, nextSession, slots, budget, ctl>>,
         metrics' \in MetricsSet, UNCHANGED metrics \/ PoolFree
  PROVE  TypeOK' /\ Storage' /\ Epochs'
<1> USE DEF PoolInv
<1>1. /\ pub' \in [Publishers -> PubSet] /\ pub'[p] = r
      /\ \A q \in Publishers : q # p => pub'[q] = pub[q]
  BY PubReplaced
<1>2. TypeOK'
  BY <1>1 DEF TypeOK, PubSet, MetricsSet
<1>3. LeaseStages'
  BY <1>1 DEF Storage, LeaseStages
<1>4. Storage'
  <2>1. /\ \A q \in Publishers : pub'[q].data = pub[q].data
        /\ \A q \in Leasing : pub'[q].index = pub[q].index
        /\ \A q \in Publishers : pub'[q].pc = "convert" => pub[q].pc = "convert"
    BY <1>1 DEF Leasing
  <2>2. LiveBufs' \subseteq LiveBufs
    BY DEF LiveBufs
  <2>3. QED
    BY <1>1, <1>3, <2>1, <2>2, StorageStays
<1>5. Epochs'
  <2>1. \A q \in Publishers : pub'[q].session <= session
    BY <1>1 DEF Epochs
  <2>2. QED
    BY <2>1, EpochsStay
<1>6. QED
  BY <1>2, <1>4, <1>5

\* The publications that end without a frame, and their errors.
LEMMA FailKeeps ==
  ASSUME PoolInv, NEW p \in Publishers,
         ConvertFail(p) \/ ChargeError(p) \/ Abandon(p) \/ PublishRejected(p)
  PROVE  PoolInv'
<1> DEFINE pc == pub'[p].pc
           r == [pub[p] EXCEPT !.pc = pc]
<1>0. TypeOK /\ Counted /\ Epochs
  BY DEF PoolInv
<1>1. /\ UNCHANGED <<session, active, latest, shared, nextSession, slots, budget, ctl>>
      /\ pub[p].pc \in {"convert", "charge"}
      /\ UNCHANGED metrics \/ (PoolFree /\ metrics' = [metrics EXCEPT !.errors = @ + 1])
  BY DEF ConvertFail, ChargeError, Abandon, PublishRejected, epoch, pool
<1>2. \E x \in {"charge", "release"} : pub' = [pub EXCEPT ![p].pc = x]
  BY DEF ConvertFail, ChargeError, Abandon, PublishRejected
<1>3. PICK x \in {"charge", "release"} : pub' = [pub EXCEPT ![p].pc = x]
  BY <1>2
<1>4. pc = x /\ x \in PubPc /\ \A q \in Publishers : q # p => pub'[q] = pub[q]
  BY <1>0, <1>3, PubMoves DEF PubPc
<1>5. /\ r \in PubSet /\ r.pc = x /\ r.data = pub[p].data /\ r.index = pub[p].index
      /\ r.session = pub[p].session /\ pub' = [pub EXCEPT ![p] = r]
  <2>1. pub \in [Publishers -> PubSet]
    BY <1>0 DEF TypeOK, PubSet
  <2>2. r = [pub[p] EXCEPT !.pc = x]
    BY <1>4
  <2>3. pub' = [pub EXCEPT ![p] = r]
    BY <1>3, <2>2
  <2> HIDE DEF pc, r
  <2>4. QED
    BY <1>4, <2>1, <2>2, <2>3 DEF PubSet
<1> HIDE DEF r, pc
<1>6. r.session <= session
  BY <1>0, <1>5 DEF Epochs
<1>7. metrics' \in MetricsSet
  BY <1>0, <1>1, MetricsFacts DEF TypeOK, MetricsSet
<1>8. TypeOK' /\ Storage' /\ Epochs'
  <2>1. (r.pc \in HoldsLease <=> pub[p].pc \in HoldsLease) /\ r.pc # "convert"
    BY <1>1, <1>5 DEF HoldsLease
  <2>2. QED
    BY <1>1, <1>5, <1>6, <1>7, <2>1, QuietKeeps
<1>9. Counted'
  <2>1. Pending' \subseteq Pending
    BY <1>1, <1>4 DEF Pending, pc
  <2>2. /\ metrics'.published = metrics.published /\ metrics'.drops = metrics.drops
        /\ metrics'.received = metrics.received
    BY <1>0, <1>1 DEF TypeOK
  <2>3. Pending \subseteq Publishers /\ Pending' \subseteq Publishers
    BY <2>1 DEF Pending
  <2>4. Cardinality(Pending') <= Cardinality(Pending)
    BY <2>1, <2>3, PendingFinite, FS_Subset
  <2>5. Cardinality(Pending') \in Nat /\ Cardinality(Pending) \in Nat
    BY <2>3, PendingFinite
  <2>6. PoolFree' <=> PoolFree
    BY <1>1 DEF PoolFree
  <2>7. QED
    BY <1>0, <2>2, <2>4, <2>5, <2>6, MetricsFacts DEF Counted
<1>10. QED
  BY <1>8, <1>9 DEF PoolInv

\* finish_publish under the watch lock: the publication stays to be counted.
LEMMA PublishKeeps ==
  ASSUME PoolInv, NEW p \in Publishers, Publish(p)
  PROVE  PoolInv'
<1> USE DEF PoolInv
<1>1. /\ UNCHANGED <<session, active, nextSession, slots, budget, metrics, ctl>>
      /\ latest' = pub[p].data /\ shared' \subseteq shared \cup {pub[p].data}
      /\ pub[p].pc = "convert"
  BY DEF Publish, epoch, pool
<1>2. /\ pub' \in [Publishers -> PubSet] /\ pub'[p].pc = "settle"
      /\ \A q \in Publishers : q # p => pub'[q] = pub[q]
      /\ \A q \in Publishers : pub'[q].session = pub[q].session
  BY PubMoves DEF Publish, PubPc
<1>3. pub[p].data \in Buf
  BY <1>1 DEF TypeOK, Storage, LeaseStages, HoldsLease
<1>4. TypeOK'
  BY <1>1, <1>2, <1>3 DEF TypeOK, PubSet
<1>5. Storage'
  BY LeasePublished
<1>6. Epochs'
  <2>1. \A q \in Publishers : pub'[q].session <= session
    BY <1>2 DEF Epochs
  <2>2. QED
    BY <1>1, <2>1, EpochsStay
<1>7. Counted'
  <2>1. Pending' \subseteq Pending
    BY <1>1, <1>2 DEF Pending
  <2>2. PoolFree' => PoolFree
    BY <1>1 DEF PoolFree
  <2>3. QED
    BY <1>1, <2>1, <2>2, CountStays
<1>8. QED
  BY <1>4, <1>5, <1>6, <1>7

\* finish_publish, the counters: a frame is counted for the epoch that
\* received it, and no longer pending there.
LEMMA SettleKeeps ==
  ASSUME PoolInv, NEW p \in Publishers, Settle(p)
  PROVE  PoolInv'
<1> DEFINE r == [pub[p] EXCEPT !.pc = "release"]
<1>0. TypeOK /\ Counted /\ Epochs
  BY DEF PoolInv
<1>1. /\ UNCHANGED <<session, active, latest, shared, nextSession, slots, budget, ctl>>
      /\ pub[p].pc = "settle" /\ PoolFree
      /\ metrics' = IF session = pub[p].session
                    THEN [metrics EXCEPT !.published = @ + 1] ELSE metrics
      /\ pub' = [pub EXCEPT ![p].pc = "release"]
  BY DEF Settle, epoch
<1>2. pub'[p].pc = "release" /\ \A q \in Publishers : q # p => pub'[q] = pub[q]
  BY <1>0, <1>1, PubMoves DEF PubPc
<1>3. /\ r \in PubSet /\ r.pc = "release" /\ r.data = pub[p].data /\ r.index = pub[p].index
      /\ r.session = pub[p].session /\ pub' = [pub EXCEPT ![p] = r]
  BY <1>0, <1>1 DEF TypeOK, PubSet, PubPc
<1> HIDE DEF r
<1>4. metrics' \in MetricsSet
  BY <1>0, <1>1, MetricsFacts DEF TypeOK, MetricsSet
<1>5. TypeOK' /\ Storage' /\ Epochs'
  <2>1. r.session <= session
    BY <1>0, <1>3 DEF Epochs
  <2>2. (r.pc \in HoldsLease <=> pub[p].pc \in HoldsLease) /\ r.pc # "convert"
    BY <1>1, <1>3 DEF HoldsLease
  <2>3. QED
    BY <1>1, <1>3, <1>4, <2>1, <2>2, QuietKeeps
<1>6. Counted'
  <2>1. Pending' = Pending \ {p}
    BY <1>1, <1>2 DEF Pending
  <2>2. IsFiniteSet(Pending) /\ Cardinality(Pending) \in Nat /\ Cardinality(Pending') \in Nat
    BY <2>1, PendingFinite DEF Pending
  <2>3. CASE session = pub[p].session
    <3>1. Cardinality(Pending') = Cardinality(Pending) - 1
      BY <1>1, <2>1, <2>2, <2>3, FS_RemoveElement DEF Pending
    <3>2. /\ metrics'.published = metrics.published + 1 /\ metrics'.drops = metrics.drops
          /\ metrics'.received = metrics.received
      BY <1>0, <1>1, <2>3 DEF TypeOK
    <3>3. QED
      BY <1>0, <1>1, <2>2, <3>1, <3>2, MetricsFacts DEF Counted
  <2>4. CASE session # pub[p].session
    <3>1. UNCHANGED metrics
      BY <1>1, <2>4
    <3>2. QED
      BY <1>0, <1>1, <2>1, <3>1, CountStays
  <2>5. QED
    BY <2>3, <2>4
<1>7. QED
  BY <1>5, <1>6 DEF PoolInv

\* A backend rejects a frame before it asks for storage: both halves.
LEMMA InputKeeps ==
  ASSUME PoolInv, NEW p \in Publishers,
         (\E pc \in {"badInput", "dropInput"} : InputTest(p, pc)) \/ InputCount(p)
  PROVE  PoolInv'
<1>0. TypeOK /\ Counted /\ Epochs /\ LeaseStages /\ pub[p] \in PubSet /\ session \in Nat
  BY DEF PoolInv, Storage, TypeOK, PubSet
<1>1. ASSUME NEW pc \in {"badInput", "dropInput"}, InputTest(p, pc) PROVE PoolInv'
  <2> DEFINE r == [pub[p] EXCEPT !.pc = pc, !.session = session]
  <2>1. /\ UNCHANGED <<session, active, latest, shared, nextSession, slots, budget, metrics, ctl>>
        /\ pub[p].pc = "idle" /\ pub' = [pub EXCEPT ![p].pc = pc, ![p].session = session]
    BY <1>1 DEF InputTest, epoch, pool
  <2>2. /\ r \in PubSet /\ r.pc = pc /\ r.data = pub[p].data /\ r.index = pub[p].index
        /\ r.session = session
    BY <1>0 DEF PubSet, PubPc
  <2>3. pub' = [pub EXCEPT ![p] = r]
    BY <2>1
  <2> HIDE DEF r
  <2>4. pub'[p] = r /\ \A q \in Publishers : q # p => pub'[q] = pub[q]
    BY <1>0, <2>2, <2>3, PubReplaced
  <2>5. metrics' \in MetricsSet
    BY <1>0, <2>1 DEF TypeOK, MetricsSet
  <2>6. (r.pc \in HoldsLease <=> pub[p].pc \in HoldsLease) /\ r.pc # "convert" /\ r.session <= session
    BY <1>0, <2>1, <2>2 DEF HoldsLease
  <2>7. TypeOK' /\ Storage' /\ Epochs'
    BY <2>1, <2>2, <2>3, <2>5, <2>6, QuietKeeps
  <2>8. Counted'
    <3>1. Pending' \subseteq Pending
      BY <2>1, <2>2, <2>4 DEF Pending
    <3>2. PoolFree' => PoolFree
      BY <2>1 DEF PoolFree
    <3>3. QED
      BY <1>0, <2>1, <3>1, <3>2, CountStays
  <2>9. QED
    BY <2>7, <2>8 DEF PoolInv
<1>2. ASSUME InputCount(p) PROVE PoolInv'
  <2>1. /\ UNCHANGED <<session, active, latest, shared, nextSession, slots, budget, ctl>>
        /\ pub[p].pc \in {"badInput", "dropInput"} /\ PoolFree
        /\ metrics' \in {[Received EXCEPT !.errors = @ + 1], Dropped}
        /\ pub' = [pub EXCEPT ![p] = IdlePub]
    BY <1>2 DEF InputCount, epoch
  <2>2. pub'[p] = IdlePub /\ \A q \in Publishers : q # p => pub'[q] = pub[q]
    BY <1>0, <2>1, IdleRecords, PubReplaced
  <2>3. metrics' \in MetricsSet
    BY <1>0, <2>1, MetricsFacts
  <2>4. /\ IdlePub.data = pub[p].data
        /\ IdlePub.pc \notin HoldsLease /\ pub[p].pc \notin HoldsLease
        /\ IdlePub.pc # "convert" /\ IdlePub.session <= session
    BY <1>0, <2>1, IdleRecords DEF LeaseStages, HoldsLease
  <2>5. TypeOK' /\ Storage' /\ Epochs'
    BY <2>1, <2>3, <2>4, IdleRecords, QuietKeeps
  <2>6. Counted'
    <3>1. Pending' = Pending
      BY <2>1, <2>2, IdleRecords DEF Pending
    <3>2. /\ metrics'.published = metrics.published /\ metrics'.drops \in {metrics.drops, metrics.drops + 1}
          /\ metrics'.received = metrics.received + 1
      BY <1>0, <2>1, MetricsFacts DEF MetricsSet
    <3>3. Cardinality(Pending) \in Nat
      BY PendingFinite DEF Pending
    <3>4. QED
      BY <1>0, <2>1, <3>1, <3>2, <3>3, MetricsFacts DEF Counted
  <2>7. QED
    BY <2>5, <2>6 DEF PoolInv
<1>3. QED
  BY <1>1, <1>2

\* What a reservation does: the frame is dropped, or it gets storage.
LEMMA ReserveCases ==
  ASSUME PoolInv, NEW p \in Publishers, NEW len \in Lengths, NEW rgb \in BOOLEAN,
         Reserve(p, len, rgb)
  PROVE  \/ UNCHANGED <<slots, pub>> /\ metrics' = Dropped
         \/ /\ metrics' = Received /\ Storage' /\ slots' \in Seq(Slot)
            /\ pub' \in [Publishers -> PubSet] /\ pub'[p].session = session
            /\ \E i \in Nat, b \in Buf : Lease(p, i, b)
<1> USE DEF PoolInv
<1>1. pub[p].pc = "idle" /\ UNCHANGED <<latest, shared, budget>>
  BY DEF Reserve
<1>2. ASSUME NEW i \in FreeSlots, ReserveReuse(p, len, rgb, i)
      PROVE  \/ UNCHANGED <<slots, pub>> /\ metrics' = Dropped
             \/ /\ metrics' = Received /\ Storage' /\ slots' \in Seq(Slot)
                /\ pub' \in [Publishers -> PubSet] /\ pub'[p].session = session
                /\ \E k \in Nat, b \in Buf : Lease(p, k, b)
  <2>1. SUFFICES ASSUME /\ Allocated(i, len, rgb) \in Nat \ {0}
                        /\ Allocated(i, len, rgb) <= budget.bytes - (Used(slots) - slots[i].bytes)
                        /\ slots' = [slots EXCEPT ![i] = [data |-> NoBuf, rgb |-> rgb,
                                                          bytes |-> Allocated(i, len, rgb)]]
                        /\ metrics' = Received
                        /\ Lease(p, i, slots[i].data)
                 PROVE  /\ Storage' /\ slots' \in Seq(Slot)
                        /\ pub' \in [Publishers -> PubSet] /\ pub'[p].session = session
                        /\ \E k \in Nat, b \in Buf : Lease(p, k, b)
    <3>1. i \in Nat /\ slots[i].data \in Buf
      BY SlotFacts DEF FreeSlots, PooledBufs
    <3>2. QED
      BY <1>2, <3>1, ReuseCases
  <2>2. i \in Nat /\ slots[i].data \in Buf
    BY SlotFacts DEF FreeSlots, PooledBufs
  <2>3. /\ Storage' /\ slots' \in Seq(Slot)
        /\ pub' \in [Publishers -> PubSet] /\ pub'[p].session = session
    BY <1>1, <2>1, LeaseReused
  <2>4. QED
    BY <2>1, <2>2, <2>3
<1>3. ASSUME ReserveGrow(p, len, rgb)
      PROVE  \/ UNCHANGED <<slots, pub>> /\ metrics' = Dropped
             \/ /\ metrics' = Received /\ Storage' /\ slots' \in Seq(Slot)
                /\ pub' \in [Publishers -> PubSet] /\ pub'[p].session = session
                /\ \E k \in Nat, b \in Buf : Lease(p, k, b)
  <2>1. CASE len > budget.bytes - Used(slots)
    BY <1>3, <2>1 DEF ReserveGrow
  <2>2. CASE ~(len > budget.bytes - Used(slots))
    <3>1. /\ slots' = Append(slots, [data |-> NoBuf, bytes |-> len, rgb |-> rgb])
          /\ metrics' = Received /\ Len(slots) < budget.buffers
      BY <1>3, <2>2 DEF ReserveGrow
    <3>2. PICK b \in Buf \ (LiveBufs \cup LeasedBufs \cup PooledBufs) : Lease(p, Len(slots) + 1, b)
      BY <1>3, <2>2 DEF ReserveGrow
    <3>3. len \in Nat \ {0} /\ len <= budget.bytes - Used(slots) /\ Len(slots) + 1 \in Nat
      BY <2>2, SlotFacts, LengthsAssumption
    <3>4. /\ Storage' /\ slots' \in Seq(Slot)
          /\ pub' \in [Publishers -> PubSet] /\ pub'[p].session = session
      BY <1>1, <3>1, <3>2, <3>3, LeaseGrown
    <3>5. QED
      BY <3>1, <3>2, <3>3, <3>4
  <2>3. QED
    BY <2>1, <2>2
<1>4. CASE ReserveFull
  BY <1>4 DEF ReserveFull
<1>5. QED
  BY <1>2, <1>3, <1>4 DEF Reserve

\* reserve: what the epoch receives is dropped or becomes pending.
LEMMA ReserveKeeps ==
  ASSUME PoolInv, NEW p \in Publishers, NEW len \in Lengths, NEW rgb \in BOOLEAN,
         Reserve(p, len, rgb)
  PROVE  PoolInv'
<1>0. TypeOK /\ Counted /\ Epochs /\ Storage
  BY DEF PoolInv
<1>1. /\ UNCHANGED <<session, active, latest, shared, nextSession, budget, ctl>>
      /\ pub[p].pc = "idle" /\ PoolFree
  BY DEF Reserve, epoch
<1>2. PoolFree' <=> PoolFree
  BY <1>1 DEF PoolFree
<1>3. Cardinality(Pending) \in Nat /\ IsFiniteSet(Pending)
  BY PendingFinite DEF Pending
<1>4. CASE UNCHANGED <<slots, pub>> /\ metrics' = Dropped
  <2>1. TypeOK'
    BY <1>0, <1>1, <1>4, MetricsFacts DEF TypeOK, MetricsSet
  <2>2. Storage'
    <3>1. LiveBufs' \subseteq LiveBufs /\ pub' \in [Publishers -> PubSet] /\ LeaseStages'
      BY <1>0, <1>1, <1>4 DEF LiveBufs, TypeOK, PubSet, Storage, LeaseStages
    <3>2. QED
      BY <1>0, <1>1, <1>4, <3>1, StorageStays
  <2>3. Epochs'
    BY <1>0, <1>1, <1>4, EpochsStay DEF Epochs
  <2>4. Pending' = Pending
    BY <1>1, <1>4 DEF Pending
  <2>5. Counted'
    BY <1>0, <1>1, <1>2, <1>3, <1>4, <2>4, MetricsFacts DEF Counted
  <2>6. QED
    BY <2>1, <2>2, <2>3, <2>5 DEF PoolInv
<1>5. CASE /\ metrics' = Received /\ Storage' /\ slots' \in Seq(Slot)
           /\ pub' \in [Publishers -> PubSet] /\ pub'[p].session = session
           /\ \E i \in Nat, b \in Buf : Lease(p, i, b)
  <2>1. TypeOK'
    BY <1>0, <1>1, <1>5, MetricsFacts DEF TypeOK, MetricsSet, PubSet
  <2>2. \A q \in Publishers : q # p => pub'[q] = pub[q]
    BY <1>0, <1>5 DEF Lease, TypeOK
  <2>3. Epochs'
    <3>1. \A q \in Publishers : pub'[q].session <= session
      BY <1>0, <1>5, <2>2 DEF Epochs, TypeOK
    <3>2. QED
      BY <1>0, <1>1, <3>1, EpochsStay
  <2>4. p \notin Pending /\ Pending' \subseteq Pending \cup {p}
    BY <1>1, <1>5, <2>2 DEF Pending
  <2>5. Counted'
    <3>1. Cardinality(Pending \cup {p}) = Cardinality(Pending) + 1 /\ IsFiniteSet(Pending \cup {p})
      BY <1>3, <2>4, FS_AddElement
    <3>2. Cardinality(Pending') <= Cardinality(Pending) + 1
      BY <2>4, <3>1, FS_Subset
    <3>3. Cardinality(Pending') \in Nat
      BY <2>4, <3>1, FS_Subset, FS_CardinalityType
    <3>4. QED
      BY <1>0, <1>1, <1>2, <1>3, <1>5, <3>2, <3>3, MetricsFacts DEF Counted
  <2>6. QED
    BY <1>5, <2>1, <2>3, <2>5 DEF PoolInv
<1>6. QED
  BY <1>4, <1>5, ReserveCases

\* Drop for Lease.
LEMMA ReleaseKeeps ==
  ASSUME PoolInv, NEW p \in Publishers, Release(p)
  PROVE  PoolInv'
<1> USE DEF PoolInv
<1>1. /\ UNCHANGED <<session, active, latest, shared, nextSession, budget, metrics, ctl>>
      /\ pub[p].pc = "release" /\ PoolFree /\ pub' = [pub EXCEPT ![p] = IdlePub]
  BY DEF Release, epoch
<1>2. Storage' /\ slots' \in Seq(Slot)
  BY LeaseReturned
<1>3. /\ pub' \in [Publishers -> PubSet] /\ pub'[p] = IdlePub
      /\ \A q \in Publishers : q # p => pub'[q] = pub[q]
  BY <1>1, IdleRecords, PubReplaced
<1>4. TypeOK'
  BY <1>1, <1>2, <1>3 DEF TypeOK, PubSet
<1>5. Epochs'
  <2>1. \A q \in Publishers : pub'[q].session <= session
    <3>1. session \in Nat
      BY DEF TypeOK
    <3>2. QED
      BY <1>3, <3>1, IdleRecords DEF Epochs
  <2>2. QED
    BY <1>1, <2>1, EpochsStay
<1>6. Counted'
  <2>1. Pending' \subseteq Pending
    BY <1>1, <1>3, IdleRecords DEF Pending
  <2>2. QED
    BY <1>1, <2>1, CountStays
<1>7. QED
  BY <1>2, <1>4, <1>5, <1>6

\* References that subscribers and applications take and drop.
LEMMA ReferenceKeeps ==
  ASSUME PoolInv, Retain \/ (\E b \in shared : DropFrame(b)) \/ UNCHANGED vars
  PROVE  PoolInv'
<1> USE DEF PoolInv
<1>1. /\ UNCHANGED <<session, active, latest, nextSession, slots, budget, metrics, pub, ctl>>
      /\ shared' \subseteq shared \cup ({latest} \ {NoBuf})
  BY DEF Retain, DropFrame, vars, epoch, pool
<1>2. TypeOK'
  BY <1>1 DEF TypeOK
<1>3. Storage'
  <2>1. LiveBufs' \subseteq LiveBufs /\ pub' \in [Publishers -> PubSet] /\ LeaseStages'
    BY <1>1 DEF LiveBufs, TypeOK, PubSet, Storage, LeaseStages
  <2>2. QED
    BY <1>1, <2>1, StorageStays
<1>4. Epochs'
  BY <1>1 DEF Epochs
<1>5. Counted'
  BY <1>1 DEF Counted, Pending, PoolFree
<1>6. QED
  BY <1>2, <1>3, <1>4, <1>5

-----------------------------------------------------------------------------
(* The theorems.                                                            *)

\* The invariant holds at first ...
LEMMA PoolInvInit == Init => PoolInv
<1> SUFFICES ASSUME Init PROVE PoolInv
  OBVIOUS
<1>1. /\ session = 0 /\ active = FALSE /\ latest = NoBuf /\ shared = {} /\ nextSession = 1
      /\ slots = <<>> /\ budget \in Budgets /\ metrics = NoMetrics
      /\ pub = [p \in Publishers |-> IdlePub] /\ ctl = [c \in Controllers |-> IdleCtl]
  BY DEF Init
<1>2. DOMAIN slots = {} /\ Len(slots) = 0 /\ slots \in Seq(Slot) /\ Used(slots) = 0
  BY <1>1, UsedNat
<1>3. Leasing = {} /\ LiveBufs = {}
  BY <1>1, IdleRecords DEF Leasing, LiveBufs
<1>4. TypeOK
  <2>1. pub \in [Publishers -> PubSet] /\ ctl \in [Controllers -> CtlSet] /\ metrics \in MetricsSet
    BY <1>1, IdleRecords
  <2>2. QED
    <3>1. session \in Nat /\ nextSession \in Nat \ {0}
      BY <1>1
    <3>2. active \in BOOLEAN
      BY <1>1, Zenon
    <3>3. latest \in Buf \cup {NoBuf} /\ shared \subseteq Buf
      BY <1>1
    <3>4. QED
      BY <1>1, <1>2, <2>1, <3>1, <3>2, <3>3 DEF TypeOK, PubSet, CtlSet, MetricsSet
<1>5. Storage
  <2>1. LeaseStages /\ OneHome
    BY <1>1, <1>2, <1>3, IdleRecords DEF LeaseStages, OneHome, HoldsLease
  <2>2. SlotsPaid /\ LeaseIndexStable /\ SlotsRecoverable
    BY <1>2, <1>3 DEF SlotsPaid, LeaseIndexStable, SlotsRecoverable
  <2>3. WithinBudget
    BY <1>1, <1>2, <1>3, BudgetsAssumption DEF WithinBudget
  <2>4. QED
    BY <2>1, <2>2, <2>3 DEF Storage
<1>6. Epochs
  BY <1>1, IdleRecords DEF Epochs
<1>7. Counted
  <2>1. Pending = {}
    BY <1>1, IdleRecords DEF Pending
  <2>2. QED
    BY <1>1, <2>1, IdleRecords, FS_EmptySet DEF Counted
<1>8. QED
  BY <1>4, <1>5, <1>6, <1>7 DEF PoolInv

\* ... and every step keeps it.
LEMMA PoolInvStep == PoolInv /\ [Next]_vars => PoolInv'
<1> SUFFICES ASSUME PoolInv, [Next]_vars PROVE PoolInv'
  OBVIOUS
<1>1. ASSUME NEW c \in Controllers, ControlStep(c) PROVE PoolInv'
  BY <1>1, StartBeginKeeps, StartReplaceKeeps, StopKeeps, ConfigureKeeps DEF ControlStep
<1>2. ASSUME NEW p \in Publishers, PublisherStep(p) PROVE PoolInv'
  BY <1>2, ReserveKeeps, FailKeeps, PublishKeeps, SettleKeeps, ReleaseKeeps, InputKeeps
     DEF PublisherStep
<1>3. QED
  BY <1>1, <1>2, StopKeeps, ReferenceKeeps DEF Next

\* The invariant holds in every behaviour of the hub's storage: frame.rs
\* keeps pool, epochs and counters in step through every interleaving of its
\* publishers with start, stop and configure.
THEOREM PoolInvariant == Spec => []PoolInv
BY PoolInvInit, PoolInvStep, PTL DEF Spec

\* Every variable keeps the type its declaration in frame.rs gives it.
THEOREM PoolTypes == Spec => []TypeOK
<1>1. PoolInv => TypeOK
  BY DEF PoolInv
<1>2. QED
  BY <1>1, PoolInvariant, PTL

\* A conversion writes, without any lock, to storage that no reader, slot or
\* other lease refers to: Arc::get_mut in bytes_mut never fails and a frame
\* never changes under its readers.
THEOREM ConversionsExclusive == Spec => []ExclusiveWrite
<1>1. PoolInv => ExclusiveWrite
  <2> SUFFICES ASSUME PoolInv, NEW p \in Publishers, pub[p].pc = "convert"
               PROVE  /\ pub[p].data \notin LiveBufs \cup PooledBufs
                      /\ \A q \in Leasing \ {p} : pub[q].data # pub[p].data
    BY DEF ExclusiveWrite
  <2>1. p \in Leasing
    BY DEF PoolInv, Storage, LeaseStages, HoldsLease, Leasing
  <2>2. QED
    BY <2>1 DEF PoolInv, Storage, OneHome, PooledBufs
<1>2. QED
  BY <1>1, PoolInvariant, PTL

\* The index a lease keeps while its frame is converted without the pool
\* mutex is still its slot when Drop for Lease uses it: neither configure's
\* compaction nor reserve's pop moves a leased slot.
THEOREM LeaseIndicesStable == Spec => []LeaseIndexStable
<1>1. PoolInv => LeaseIndexStable
  BY DEF PoolInv, Storage
<1>2. QED
  BY <1>1, PoolInvariant, PTL

\* A slot without storage is always owed to a lease that will give it back:
\* no path of reserve, publish, stop or configure loses one.
THEOREM SlotsNeverLost == Spec => []SlotsRecoverable
<1>1. PoolInv => SlotsRecoverable
  BY DEF PoolInv, Storage
<1>2. QED
  BY <1>1, PoolInvariant, PTL

\* The pool and every frame still held from it fit the memory budget in
\* force, through reuse, growth and changes of budget.
THEOREM MemoryBounded == Spec => []WithinBudget
<1>1. PoolInv => WithinBudget
  BY DEF PoolInv, Storage
<1>2. QED
  BY <1>1, PoolInvariant, PTL

\* The counters snapshot() reports of an epoch never show more frames
\* published and dropped than received, whatever publications of earlier
\* epochs finish in it.
THEOREM CountersConsistent == Spec => []MetricsConsistent
<1>1. PoolInv => MetricsConsistent
  <2> SUFFICES ASSUME PoolInv PROVE MetricsConsistent
    OBVIOUS
  <2>1. CASE PoolFree
    <3>1. Cardinality(Pending) \in Nat
      BY PendingFinite DEF Pending
    <3>2. QED
      BY <2>1, <3>1, MetricsFacts DEF PoolInv, Counted, MetricsConsistent
  <2>2. CASE ~PoolFree
    BY <2>2, IdleRecords DEF PoolFree, PoolInv, Epochs, MetricsConsistent
  <2>3. QED
    BY <2>1, <2>2
<1>2. QED
  BY <1>1, PoolInvariant, PTL

=============================================================================
