----------------------------- MODULE GsiProofs -----------------------------
(***************************************************************************)
(* Proofs, for every ring size, range of the indices, budget, number of    *)
(* QPs and set of send buffers, about the GSI QP: its ring never gives a   *)
(* slot to two work requests, the HCA has the slots it should have, there  *)
(* is room for a MAD layer that keeps its limit, and the QP implements the *)
(* FIFO of GsiFifo. The software completions never wait without somebody   *)
(* who will poll them: the hand-shake of mlx5_ib_generate_wc,              *)
(* mlx5_ib_arm_cq and ib_cq_poll_work loses no wake-up. What is said of    *)
(* the ring holds as long as WrapsWell: for ever if the size of the ring   *)
(* divides the range of the indices, else until outstanding_pi wraps.      *)
(*                                                                         *)
(* First the ring: where the work requests are, as one window of slots     *)
(* that starts with the software completions of the CQ and goes on with    *)
(* the requests between outstanding_ci and outstanding_pi, and how         *)
(* posting, completing and polling move it. Then the conclusions.          *)
(***************************************************************************)
EXTENDS Gsi, SequenceTheorems, TLAPS

(* The distance of two indices of type u32. *)
Dist(p, c) == (p - c) % W

(* The k-th slot of a window that begins l slots before index c. *)
Place(c, l, k) == (c - l + k - 1) % MaxSendWr

(* Work requests in the ring, from outstanding_ci on. *)
Backlog == Dist(pi, ci)

(* Work requests accepted and not reported. *)
Size == Len(wc_list) + Backlog

(* The slot of the k-th of them, oldest first. *)
Slot(k) == Place(ci, Len(wc_list), k)

(* The slots of the ring. *)
RingSlots == {Slot(k) : k \in (Len(wc_list) + 1)..Size}

(* The slots of the software completions are taken by wc_list, those after *)
(* them by the ring: together one window, no larger than the ring, so that *)
(* no slot is used twice. mlx5_ib_add_outstanding_wr keeps it that way by  *)
(* its test of in_use, because slots are given back oldest first.          *)
Window ==
    /\ Size <= MaxSendWr
    /\ \A k \in 1..Len(wc_list) : wc_list[k] = Slot(k)
    /\ in_use = {Slot(k) : k \in 1..Len(wc_list)}
    /\ completed \subseteq RingSlots
    /\ \A k \in 1..Size : wc[Slot(k)].id \in WrIds

(* The HCA has the slots of the ring that are not complete, once each. *)
Sent ==
    /\ \A q \in QPs : IsInjective(hw[q])
    /\ \A p, q \in QPs : p # q => Range(hw[p]) \cap Range(hw[q]) = {}
    /\ \A s : (\E q \in QPs : s \in Range(hw[q])) <=> s \in RingSlots \ completed

(* The slot of an index is its remainder modulo max_send_wr, so the wrap   *)
(* of a u32 goes from the last slot to the first only if max_send_wr       *)
(* divides 2^32. Nothing in mad.c or gsi.c rounds send_queue_size: for     *)
(* other sizes the ring is in order until outstanding_pi wraps.            *)
WrapsWell == W % MaxSendWr = 0 \/ ci <= pi

(* The inductive invariant of the ring, as long as WrapsWell holds. *)
RingInv == TypeOK /\ polled < Budget /\ Window /\ Sent

(* Remainders, as the indices of the ring use them. *)

(* The remainder is in range. *)
LEMMA ModType ==
    ASSUME NEW a \in Int, NEW m \in Nat \ {0}
    PROVE  a % m \in 0..(m - 1)
OBVIOUS

(* So is the quotient. *)
LEMMA DivType ==
    ASSUME NEW a \in Int, NEW m \in Nat \ {0}
    PROVE  a \div m \in Int
OBVIOUS

(* Division with remainder. *)
LEMMA ModDiv ==
    ASSUME NEW a \in Int, NEW m \in Nat \ {0},
           NEW r \in Int, a % m = r, NEW q \in Int, q = a \div m
    PROVE  a = q * m + r
OBVIOUS

(* A multiple of m is no closer to 0 than m. *)
LEMMA MulGe ==
    ASSUME NEW q \in Int, NEW m \in Nat \ {0}, q >= 1
    PROVE  q * m >= m
OBVIOUS

(* Quotient and remainder are unique. *)
LEMMA ModUnique ==
    ASSUME NEW m \in Nat \ {0}, NEW q \in Int, NEW r \in 0..(m - 1),
           NEW p \in Int, NEW s \in 0..(m - 1), q * m + r = p * m + s
    PROVE  q = p /\ r = s
<1>1. (q - p) * m = s - r
  OBVIOUS
<1>2. ~(q - p >= 1)
  BY <1>1, MulGe
<1>3. (p - q) * m = r - s
  OBVIOUS
<1>4. ~(p - q >= 1)
  BY <1>3, MulGe
<1> QED
  BY <1>2, <1>4

(* So the remainder can be read off. *)
LEMMA ModIs ==
    ASSUME NEW m \in Nat \ {0}, NEW a \in Int, NEW q \in Int, NEW r \in 0..(m - 1),
           a = q * m + r
    PROVE  a % m = r
<1>1. PICK s \in 0..(m - 1) : s = a % m
  BY ModType
<1>2. PICK p \in Int : p = a \div m
  BY DivType
<1>3. a = p * m + s
  BY <1>1, <1>2, ModDiv
<1> QED
  BY <1>1, <1>3, ModUnique, Zenon

(* A multiple of the modulus can be added. *)
LEMMA ModShift ==
    ASSUME NEW m \in Nat \ {0}, NEW a \in Int, NEW b \in Int, NEW q \in Int, a = q * m + b
    PROVE  a % m = b % m
<1>1. PICK r \in 0..(m - 1) : r = b % m
  BY ModType
<1>2. PICK p \in Int : p = b \div m
  BY DivType
<1>3. b = p * m + r
  BY <1>1, <1>2, ModDiv
<1>4. a = (q + p) * m + r /\ q + p \in Int
  BY <1>3
<1>5. a % m = r
  BY <1>4, ModIs, Zenon
<1> QED
  BY <1>1, <1>5

(* The u32 indices of the ring are used modulo its size, which divides     *)
(* their range.                                                            *)
LEMMA ModMod ==
    ASSUME NEW m \in Nat \ {0}, NEW w \in Nat \ {0}, w % m = 0, NEW a \in Int, NEW b \in Int
    PROVE  ((a % w) + b) % m = (a + b) % m
<1>1. PICK r \in 0..(w - 1) : r = a % w
  BY ModType
<1>2. PICK p \in Int : p = w \div m
  BY DivType
<1>3. w = p * m + 0
  BY <1>2, ModDiv
<1>4. PICK q \in Int : q = a \div w
  BY DivType
<1>5. a = q * w + r
  BY <1>1, <1>4, ModDiv
<1>6. PICK z \in Int : z = q * p
  OBVIOUS
<1>7. a = z * m + r
  BY <1>3, <1>5, <1>6
<1>8. PICK x \in Int, y \in Int : x = a + b /\ y = r + b
  OBVIOUS
<1>9. x = z * m + y
  BY <1>7, <1>8
<1>10. x % m = y % m
  BY <1>9, ModShift, Zenon
<1> QED
  BY <1>1, <1>8, <1>10

(* The same when the index itself is reduced first. *)
LEMMA ModModSame ==
    ASSUME NEW m \in Nat \ {0}, NEW w \in Nat \ {0}, w % m = 0, NEW a \in Int
    PROVE  (a % w) % m = a % m
<1>0. PICK b \in 0..(w - 1) : b = a % w
  BY ModType
<1>1. PICK p \in Int, q \in Int : p = w \div m /\ q = a \div w
  BY DivType
<1>2. w = p * m + 0 /\ a = q * w + b
  BY <1>0, <1>1, ModDiv
<1>3. PICK z \in Int : z = q * p
  OBVIOUS
<1>4. a = z * m + b
  BY <1>2, <1>3
<1>5. b \in Int
  BY <1>0
<1>6. a % m = b % m
  BY <1>4, <1>5, ModShift, Zenon
<1> QED
  BY <1>0, <1>6, Zenon

(* The same for the index that is subtracted. *)
LEMMA ModSub ==
    ASSUME NEW w \in Nat \ {0}, NEW a \in Int, NEW b \in Int
    PROVE  (b - (a % w)) % w = (b - a) % w
<1>1. PICK r \in 0..(w - 1) : r = a % w
  BY ModType
<1>2. PICK q \in Int : q = a \div w
  BY DivType
<1>3. a = q * w + r
  BY <1>1, <1>2, ModDiv
<1>4. PICK x \in Int, y \in Int : x = b - r /\ y = b - a
  OBVIOUS
<1>5. x = q * w + y
  BY <1>3, <1>4
<1>6. x % w = y % w
  BY <1>5, ModShift, Zenon
<1> QED
  BY <1>1, <1>4, <1>6

(* Fewer than m steps do not lead back to the same slot. *)
LEMMA ModApart ==
    ASSUME NEW m \in Nat \ {0}, NEW a \in Int, NEW b \in Int, a < b, b - a < m
    PROVE  a % m # b % m
<1> SUFFICES ASSUME a % m = b % m PROVE FALSE
  OBVIOUS
<1>1. PICK r \in 0..(m - 1) : r = a % m
  BY ModType
<1>2. PICK p \in Int, q \in Int : p = a \div m /\ q = b \div m
  BY DivType, Zenon
<1>3. a = p * m + r /\ b = q * m + r
  BY <1>1, <1>2, ModDiv
<1>4. (q - p) * m = b - a /\ (p - q) * m = a - b
  BY <1>3
<1>5. ~(q - p >= 1) /\ ~(p - q >= 1)
  BY <1>4, MulGe
<1>6. q = p
  BY <1>5
<1> QED
  BY <1>3, <1>6

(* A small number is its own remainder. *)
LEMMA ModSmall ==
    ASSUME NEW m \in Nat \ {0}, NEW a \in 0..(m - 1)
    PROVE  a % m = a
OBVIOUS

----------------------------------------------------------------------------

(* The arithmetic of the window. *)

(* What GsiAssumption says of the range of the indices. *)
LEMMA Sizes == MaxSendWr \in Nat \ {0} /\ W \in Nat \ {0}
BY GsiAssumption

(* ModMod for the ring. *)
LEMMA RingMod ==
    ASSUME W % MaxSendWr = 0, NEW a \in Int, NEW b \in Int
    PROVE  ((a % W) + b) % MaxSendWr = (a + b) % MaxSendWr
<1>1. PICK m \in Nat \ {0} : m = MaxSendWr
  BY Sizes
<1>2. PICK w \in Nat \ {0} : w = W
  BY Sizes
<1>3. w % m = 0
  BY <1>1, <1>2
<1>4. ((a % w) + b) % m = (a + b) % m
  BY <1>3, ModMod, Zenon
<1> QED
  BY <1>1, <1>2, <1>4, Zenon

(* What the types say of the indices. *)
LEMMA Indices ==
    ASSUME TypeOK
    PROVE  /\ pi \in 0..(W - 1) /\ ci \in 0..(W - 1) /\ Len(wc_list) \in Nat
           /\ MaxSendWr \in Nat \ {0} /\ W \in Nat \ {0} /\ MaxSendWr < W
           /\ Backlog \in 0..(W - 1) /\ Size \in Nat
<1>1. pi \in 0..(W - 1) /\ ci \in 0..(W - 1) /\ wc_list \in Seq(Slots)
  BY DEF TypeOK
<1>2. Len(wc_list) \in Nat
  BY <1>1, LenProperties
<1>3. Backlog \in 0..(W - 1)
  BY <1>1, GsiAssumption, ModType DEF Backlog, Dist
<1> QED
  BY <1>1, <1>2, <1>3, GsiAssumption DEF Size

(* The same, as far as linear arithmetic needs it. *)
LEMMA IndexInts ==
    ASSUME TypeOK
    PROVE  /\ pi \in Int /\ ci \in Int /\ Len(wc_list) \in Int
           /\ MaxSendWr \in Int /\ W \in Int /\ Backlog \in Int /\ Size \in Int
BY Indices

(* Slot yields slots. *)
LEMMA SlotType ==
    ASSUME TypeOK, NEW k \in Int
    PROVE  Slot(k) \in Slots
<1>1. ci - Len(wc_list) + k - 1 \in Int
  BY Indices
<1> QED
  BY <1>1, Indices, ModType, Zenon DEF Slot, Place, Slots

(* Different places in a window that is not larger than the ring have      *)
(* different slots.                                                        *)
LEMMA SlotApart ==
    ASSUME TypeOK, NEW j \in Int, NEW k \in Int, j < k, k - j < MaxSendWr
    PROVE  Slot(j) # Slot(k)
<1>1. PICK a \in Int, b \in Int :
        a = ci - Len(wc_list) + j - 1 /\ b = ci - Len(wc_list) + k - 1
  BY Indices
<1>2. a < b /\ b - a < MaxSendWr
  BY <1>1, IndexInts
<1>3. Slot(j) = a % MaxSendWr /\ Slot(k) = b % MaxSendWr
  BY <1>1, Zenon DEF Slot, Place
<1>4. a % MaxSendWr # b % MaxSendWr
  BY <1>2, Sizes, ModApart, Zenon
<1> QED
  BY <1>3, <1>4, Zenon

(* So a slot of the window has one place. *)
LEMMA SlotInjective ==
    ASSUME TypeOK, NEW j \in 1..MaxSendWr, NEW k \in 1..MaxSendWr, Slot(j) = Slot(k)
    PROVE  j = k
<1>1. MaxSendWr \in Nat
  BY Indices
<1>2. ~(j < k) /\ ~(k < j)
  BY <1>1, SlotApart
<1> QED
  BY <1>1, <1>2

(* One turn of the ring further is the same slot. *)
LEMMA SlotAround ==
    ASSUME TypeOK
    PROVE  Slot(MaxSendWr + 1) = Slot(1)
<1>1. PICK a \in Int, b \in Int :
        a = ci - Len(wc_list) + (MaxSendWr + 1) - 1 /\ b = ci - Len(wc_list) + 1 - 1
  BY Indices
<1>2. a = 1 * MaxSendWr + b /\ 1 \in Int
  BY <1>1, IndexInts
<1>3. a % MaxSendWr = b % MaxSendWr
  BY <1>2, Sizes, ModShift, Zenon
<1> QED
  BY <1>1, <1>3, Zenon DEF Slot, Place

(* outstanding_pi in terms of outstanding_ci. *)
LEMMA PiIs ==
    ASSUME TypeOK
    PROVE  pi = (ci + Backlog) % W
<1>1. PICK d \in Int : d = pi - ci
  BY Indices
<1>2. PICK r \in 0..(W - 1) : r = d % W
  BY Indices, ModType
<1>3. Backlog = r
  BY <1>1, <1>2, Zenon DEF Backlog, Dist
<1>4. PICK q \in Int : q = d \div W
  BY Indices, DivType
<1>5. d = q * W + r
  BY <1>2, <1>4, Sizes, ModDiv
<1>6. PICK x \in Int : x = ci + r
  BY Indices
<1>7. pi = q * W + x
  BY <1>1, <1>5, <1>6, IndexInts
<1>8. pi % W = x % W
  BY <1>7, IndexInts, Sizes, ModShift, Zenon
<1>9. pi % W = pi
  BY Indices, ModSmall, Zenon
<1> QED
  BY <1>3, <1>6, <1>8, <1>9, Zenon

(* Before the wrap the distance of the indices is their difference. *)
LEMMA Unwrapped ==
    ASSUME TypeOK, ci <= pi
    PROVE  Backlog = pi - ci
<1>1. pi - ci \in 0..(W - 1)
  BY Indices
<1> QED
  BY <1>1, Sizes, ModSmall, Zenon DEF Backlog, Dist

(* The slot of an index from ci to pi is not changed by the wrap. *)
LEMMA SlotOfIndex ==
    ASSUME TypeOK, WrapsWell, NEW k \in 0..Backlog, NEW x \in Int, x = ci + k
    PROVE  (x % W) % MaxSendWr = x % MaxSendWr
<1>1. CASE W % MaxSendWr = 0
  BY <1>1, Sizes, ModModSame, Zenon
<1>2. CASE ci <= pi
  <2>1. x \in 0..(W - 1)
    BY <1>2, Indices, Unwrapped
  <2>2. x % W = x
    BY <2>1, Sizes, ModSmall, Zenon
  <2> QED
    BY <2>2, Zenon
<1> QED
  BY <1>1, <1>2 DEF WrapsWell

(* The slot that the next work request takes. *)
LEMMA PiSlot ==
    ASSUME TypeOK, WrapsWell
    PROVE  pi % MaxSendWr = Slot(Size + 1)
<1>1. PICK x \in Int : x = ci + Backlog
  BY Indices
<1>2. pi = x % W
  BY <1>1, PiIs, Zenon
<1>3. (x % W) % MaxSendWr = x % MaxSendWr
  <2>1. Backlog \in 0..Backlog
    BY Indices
  <2> QED
    BY <1>1, <2>1, SlotOfIndex
<1>4. x = ci - Len(wc_list) + (Size + 1) - 1
  BY <1>1, Indices DEF Size
<1> QED
  BY <1>2, <1>3, <1>4, Zenon DEF Slot, Place

(* The slot of the oldest work request in the ring. *)
LEMMA CiSlot ==
    ASSUME TypeOK
    PROVE  ci % MaxSendWr = Slot(Len(wc_list) + 1)
<1>1. ci = ci - Len(wc_list) + (Len(wc_list) + 1) - 1
  BY Indices
<1> QED
  BY <1>1, Zenon DEF Slot, Place

(* The ring is empty when the indices are equal. *)
LEMMA EmptyRing ==
    ASSUME TypeOK
    PROVE  ci # pi <=> Backlog # 0
<1>1. ASSUME ci = pi PROVE Backlog = 0
  <2>1. pi - ci = 0 /\ 0 \in 0..(W - 1)
    BY <1>1, Indices
  <2>2. 0 % W = 0
    BY <2>1, Sizes, ModSmall
  <2> QED
    BY <2>1, <2>2, Zenon DEF Backlog, Dist
<1>2. ASSUME Backlog = 0 PROVE ci = pi
  <2>1. ci + Backlog = ci
    BY <1>2, Indices
  <2>2. pi = ci % W
    BY <2>1, PiIs, Zenon
  <2> QED
    BY <2>2, Indices, ModSmall
<1> QED
  BY <1>1, <1>2

(* The work requests of the ring, and their slots. *)
LEMMA OutstandingIs ==
    ASSUME TypeOK, WrapsWell
    PROVE  /\ Outstanding \in Seq(Int) /\ Len(Outstanding) = Backlog
           /\ DOMAIN Outstanding = 1..Backlog
           /\ \A k \in 1..Backlog : Outstanding[k] % MaxSendWr = Slot(Len(wc_list) + k)
<1>1. Outstanding = [k \in 1..Backlog |-> (ci + k - 1) % W]
  BY DEF Outstanding, Backlog, Dist
<1>2. Backlog \in Nat
  BY Indices
<1>3. ASSUME NEW k \in 1..Backlog PROVE (ci + k - 1) % W \in Int
  <2>1. ci + k - 1 \in Int
    BY IndexInts
  <2> QED
    BY <2>1, Sizes, ModType
<1>4. Outstanding \in [1..Backlog -> Int]
  BY <1>1, <1>3
<1>5. Outstanding \in Seq(Int) /\ Len(Outstanding) = Backlog /\ DOMAIN Outstanding = 1..Backlog
  BY <1>2, <1>4
<1>6. ASSUME NEW k \in 1..Backlog
      PROVE  Outstanding[k] % MaxSendWr = Slot(Len(wc_list) + k)
  <2>1. PICK x \in Int : x = ci + k - 1
    BY Indices
  <2>2. PICK y \in Int : y = x % W
    BY <2>1, Indices, ModType
  <2>4. (x % W) % MaxSendWr = x % MaxSendWr
    <3>1. k - 1 \in 0..Backlog /\ x = ci + (k - 1)
      BY <2>1, Indices
    <3> QED
      BY <3>1, SlotOfIndex
  <2>5. Outstanding[k] = y
    BY <1>1, <2>1, <2>2
  <2>6. x = ci - Len(wc_list) + (Len(wc_list) + k) - 1
    BY <2>1, Indices
  <2> QED
    BY <2>2, <2>4, <2>5, <2>6, Zenon DEF Slot, Place
<1> QED
  BY <1>5, <1>6

(* They are those of the indices between ci and pi. *)
LEMMA RingSlotsIs ==
    ASSUME TypeOK, WrapsWell
    PROVE  {Outstanding[k] % MaxSendWr : k \in DOMAIN Outstanding} = RingSlots
<1>1. ASSUME NEW k \in DOMAIN Outstanding PROVE Outstanding[k] % MaxSendWr \in RingSlots
  <2>1. k \in 1..Backlog /\ Outstanding[k] % MaxSendWr = Slot(Len(wc_list) + k)
    BY OutstandingIs
  <2>2. Len(wc_list) + k \in (Len(wc_list) + 1)..Size
    BY <2>1, Indices DEF Size
  <2> QED
    BY <2>1, <2>2 DEF RingSlots
<1>2. ASSUME NEW k \in (Len(wc_list) + 1)..Size
      PROVE  \E j \in DOMAIN Outstanding : Outstanding[j] % MaxSendWr = Slot(k)
  <2>1. PICK j \in Int : j = k - Len(wc_list)
    BY Indices
  <2>2. j \in 1..Backlog /\ k = Len(wc_list) + j
    BY <2>1, Indices DEF Size
  <2> QED
    BY <2>2, OutstandingIs
<1> QED
  BY <1>1, <1>2 DEF RingSlots

(* One index further: outstanding_pi++ and outstanding_ci++ of a u32. *)
LEMMA DistUp ==
    ASSUME NEW p \in Int, NEW c \in Int, NEW x, x = (p + 1) % W, Dist(p, c) + 1 < W
    PROVE  Dist(x, c) = Dist(p, c) + 1
<1>0. W \in Nat \ {0}
  BY Sizes
<1>1. PICK a \in Int : a = (p + 1)
  OBVIOUS
<1>2. x \in 0..(W - 1) /\ a % W = x
  BY <1>0, <1>1, ModType, Zenon
<1>i. x \in Int
  BY <1>0, <1>2
<1>3. PICK q \in Int : q = a \div W
  BY <1>0, DivType
<1>4. a = q * W + x
  BY <1>0, <1>2, <1>3, ModDiv
<1>5. PICK d \in Int : d = p - c
  OBVIOUS
<1>6. PICK n \in 0..(W - 1) : n = d % W
  BY <1>0, ModType, Zenon
<1>8. PICK z \in Int : z = d \div W
  BY <1>0, DivType
<1>9. d = z * W + n
  BY <1>0, <1>6, <1>8, ModDiv
<1>10. Dist(p, c) = n
  BY <1>5, <1>6, Zenon DEF Dist
<1>11. PICK m \in 0..(W - 1) : m = n + 1
  BY <1>0, <1>10
<1>12. PICK e \in Int : e = x - c
  BY <1>i
<1>13. PICK y \in Int : y = z - q
  OBVIOUS
<1>14. e = y * W + m
  <2>1. PICK s \in Int, t \in Int : s = q * W /\ t = z * W
    BY <1>0
  <2>2. y * W = t - s
    BY <1>0, <1>13, <2>1
  <2>3. a = s + x /\ d = t + n
    BY <1>4, <1>9, <2>1, Zenon
  <2>4. e = (t - s) + m
    BY <1>0, <1>1, <1>i, <1>5, <1>11, <1>12, <2>3
  <2> QED
    BY <2>2, <2>4, Zenon
<1>15. e % W = m
  BY <1>0, <1>14, ModIs, Zenon
<1> QED
  BY <1>10, <1>11, <1>12, <1>15, Zenon DEF Dist

(* outstanding_ci++ when the ring is not empty. *)
LEMMA DistDown ==
    ASSUME NEW p \in Int, NEW c \in Int, NEW x, x = (c + 1) % W, Dist(p, c) # 0
    PROVE  Dist(p, x) = Dist(p, c) - 1
<1>0. W \in Nat \ {0}
  BY Sizes
<1>1. PICK a \in Int : a = (c + 1)
  OBVIOUS
<1>2. x \in 0..(W - 1) /\ a % W = x
  BY <1>0, <1>1, ModType
<1>i. x \in Int
  BY <1>0, <1>2
<1>3. PICK q \in Int : q = a \div W
  BY <1>0, DivType
<1>4. a = q * W + x
  BY <1>0, <1>2, <1>3, ModDiv
<1>5. PICK d \in Int : d = p - c
  OBVIOUS
<1>6. PICK n \in 0..(W - 1) : n = d % W
  BY <1>0, ModType, Zenon
<1>8. PICK z \in Int : z = d \div W
  BY <1>0, DivType
<1>9. d = z * W + n
  BY <1>0, <1>6, <1>8, ModDiv
<1>10. Dist(p, c) = n
  BY <1>5, <1>6, Zenon DEF Dist
<1>11. PICK m \in 0..(W - 1) : m = n - 1
  BY <1>0, <1>10
<1>12. PICK e \in Int : e = p - x
  BY <1>i
<1>13. PICK y \in Int : y = z + q
  OBVIOUS
<1>14. e = y * W + m
  <2>1. PICK s \in Int, t \in Int : s = q * W /\ t = z * W
    BY <1>0
  <2>2. y * W = t + s
    BY <1>0, <1>13, <2>1
  <2>3. a = s + x /\ d = t + n
    BY <1>4, <1>9, <2>1, Zenon
  <2>4. e = (t + s) + m
    BY <1>0, <1>1, <1>i, <1>5, <1>11, <1>12, <2>3
  <2> QED
    BY <2>2, <2>4, Zenon
<1>15. e % W = m
  BY <1>0, <1>14, ModIs, Zenon
<1> QED
  BY <1>10, <1>11, <1>12, <1>15, Zenon DEF Dist

(* A work request that moves from the ring to wc_list keeps its place. *)
LEMMA PlaceKept ==
    ASSUME NEW c \in Int, NEW l \in Int, NEW k \in Int, NEW x, x = (c + 1) % W,
           W % MaxSendWr = 0 \/ c + 1 \in 0..(W - 1)
    PROVE  Place(x, l + 1, k) = Place(c, l, k)
<1>1. PICK a \in Int : a = c + 1
  OBVIOUS
<1>2. PICK b \in Int : b = k - 1 - (l + 1)
  OBVIOUS
<1>3. x \in Int
  BY <1>1, Sizes, ModType
<1>4. ((a % W) + b) % MaxSendWr = (a + b) % MaxSendWr
  <2>1. CASE W % MaxSendWr = 0
    BY <2>1, RingMod, Zenon
  <2>2. CASE a \in 0..(W - 1)
    <3>1. a % W = a
      BY <2>2, Sizes, ModSmall, Zenon
    <3> QED
      BY <3>1, Zenon
  <2> QED
    BY <1>1, <2>1, <2>2
<1>5. x - (l + 1) + k - 1 = x + b /\ c - l + k - 1 = a + b
  BY <1>1, <1>2, <1>3
<1> QED
  BY <1>1, <1>4, <1>5, Zenon DEF Place

(* The place after the window is free exactly when there is room. *)
LEMMA RoomMeans ==
    ASSUME RingInv, WrapsWell, HasRoom
    PROVE  Size < MaxSendWr
<1>0. TypeOK /\ Window
  BY DEF RingInv
<1>1. Backlog # MaxSendWr
  BY <1>0, PiIs, Zenon DEF HasRoom
<1> SUFFICES ASSUME Size = MaxSendWr PROVE FALSE
  BY <1>0, Indices DEF Window
<1>2. 1 \in 1..Len(wc_list)
  BY <1>0, <1>1, Indices DEF Size
<1>3. Slot(1) \in in_use
  BY <1>0, <1>2 DEF Window
<1>4. pi % MaxSendWr = Slot(1)
  BY <1>0, PiSlot, SlotAround, Zenon
<1> QED
  BY <1>3, <1>4, Zenon DEF HasRoom

(* The converse: mlx5_ib_add_outstanding_wr succeeds when fewer than       *)
(* max_send_wr work requests are in the window.                            *)
LEMMA RoomWhen ==
    ASSUME RingInv, WrapsWell, Size < MaxSendWr
    PROVE  HasRoom
<1>0. TypeOK /\ Window
  BY DEF RingInv
<1>1. pi # (ci + MaxSendWr) % W
  <2>0. Backlog < MaxSendWr /\ 0 <= Backlog /\ MaxSendWr < W
    BY <1>0, Indices DEF Size
  <2>1. PICK a \in Int, b \in Int : a = ci + Backlog /\ b = ci + MaxSendWr
    BY <1>0, IndexInts
  <2>2. a < b /\ b - a < W
    BY <1>0, <2>0, <2>1, IndexInts
  <2>3. a % W # b % W
    BY <2>2, Sizes, ModApart, Zenon
  <2> QED
    BY <1>0, <2>1, <2>3, PiIs, Zenon
<1>2. ASSUME NEW k \in 1..Len(wc_list) PROVE Slot(k) # Slot(Size + 1)
  <2>1. k \in Int /\ Size + 1 \in Int /\ k < Size + 1 /\ (Size + 1) - k < MaxSendWr
    BY <1>0, Indices DEF Size
  <2> QED
    BY <1>0, <2>1, SlotApart
<1>3. pi % MaxSendWr \notin in_use
  BY <1>0, <1>2, PiSlot DEF Window
<1> QED
  BY <1>1, <1>3 DEF HasRoom

----------------------------------------------------------------------------
(* Lists without duplicates. *)

(* A slot that is not in a list without duplicates is appended to it: the  *)
(* send queue of a UD QP, wc_list.                                         *)
LEMMA AppendList ==
    ASSUME NEW S, NEW s \in Seq(S), IsInjective(s), NEW e \in S, e \notin Range(s)
    PROVE  /\ Append(s, e) \in Seq(S)
           /\ IsInjective(Append(s, e))
           /\ Range(Append(s, e)) = Range(s) \cup {e}
<1> DEFINE t == Append(s, e)
<1>1. /\ t \in Seq(S) /\ Len(t) = Len(s) + 1 /\ Len(s) \in Nat
      /\ DOMAIN t = 1..(Len(s) + 1) /\ DOMAIN s = 1..Len(s)
      /\ t[Len(s) + 1] = e /\ \A i \in 1..Len(s) : t[i] = s[i]
  BY AppendProperties, LenProperties
<1> HIDE DEF t
<1>2. \A i \in DOMAIN t : i = Len(s) + 1 \/ i \in 1..Len(s)
  BY <1>1
<1>3. \A i \in 1..Len(s) : s[i] # e
  BY <1>1 DEF Range
<1>4. IsInjective(t)
  BY <1>1, <1>2, <1>3 DEF IsInjective
<1>5. Range(t) = Range(s) \cup {e}
  BY <1>1, <1>2 DEF Range
<1> QED
  BY <1>1, <1>4, <1>5 DEF t

(* The first element is taken off a list without duplicates. *)
LEMMA TailList ==
    ASSUME NEW S, NEW s \in Seq(S), IsInjective(s), s # <<>>
    PROVE  /\ Head(s) \in S /\ Head(s) \in Range(s)
           /\ Tail(s) \in Seq(S)
           /\ IsInjective(Tail(s))
           /\ Range(Tail(s)) = Range(s) \ {Head(s)}
<1> DEFINE t == Tail(s)
<1>1. /\ t \in Seq(S) /\ Len(t) = Len(s) - 1 /\ Len(s) \in Nat \ {0}
      /\ DOMAIN t = 1..(Len(s) - 1) /\ DOMAIN s = 1..Len(s)
      /\ \A i \in 1..(Len(s) - 1) : t[i] = s[i + 1]
      /\ Head(s) = s[1] /\ Head(s) \in S
  BY HeadTailProperties, LenProperties, EmptySeq
<1> HIDE DEF t
<1>2. \A i \in DOMAIN t : i \in 1..(Len(s) - 1) /\ i + 1 \in DOMAIN s /\ i + 1 # 1
  BY <1>1
<1>3. IsInjective(t)
  <2> SUFFICES ASSUME NEW i \in DOMAIN t, NEW j \in DOMAIN t, t[i] = t[j] PROVE i = j
    BY DEF IsInjective
  <2>1. s[i + 1] = s[j + 1]
    BY <1>1
  <2>2. i + 1 = j + 1
    BY <2>1, <1>2 DEF IsInjective
  <2> QED
    BY <2>2, <1>1
<1>4. \A i \in DOMAIN t : t[i] \in Range(s) \ {Head(s)}
  <2> SUFFICES ASSUME NEW i \in DOMAIN t PROVE t[i] \in Range(s) \ {Head(s)}
    OBVIOUS
  <2>1. t[i] = s[i + 1] /\ i + 1 \in DOMAIN s /\ i + 1 # 1 /\ 1 \in DOMAIN s
    BY <1>1, <1>2
  <2> QED
    BY <2>1, <1>1 DEF Range, IsInjective
<1>5. \A i \in DOMAIN s : s[i] # Head(s) => s[i] \in Range(t)
  <2> SUFFICES ASSUME NEW i \in DOMAIN s, s[i] # Head(s) PROVE s[i] \in Range(t)
    OBVIOUS
  <2>1. i # 1
    BY <1>1
  <2>2. i - 1 \in DOMAIN t /\ t[i - 1] = s[(i - 1) + 1] /\ (i - 1) + 1 = i
    BY <1>1, <2>1
  <2> QED
    BY <2>2 DEF Range
<1> QED
  BY <1>1, <1>3, <1>4, <1>5 DEF Range, t

----------------------------------------------------------------------------
(* Types. *)

(* Setting up send QPs keeps the index of the loop in range. *)
LEMMA TypeSetup ==
    ASSUME TypeOK, NEW a \in Callers, Setup(a)
    PROVE  TypeOK'
<1>0. /\ sidx \in [Callers -> 1..NumQps] /\ sqp \in [Callers -> QPs \cup {Null}]
      /\ tx_qps \in [1..NumQps -> QPs \cup {Null}] /\ made \subseteq QPs
      /\ spc \in [Callers -> {"idle", "setup", "created", "done"}]
      /\ NumQps \in Nat \ {0}
  BY GsiAssumption DEF TypeOK
<1>1. UNCHANGED <<ring, hw, cq, poll>>
  BY DEF Setup, setup_begin, setup_qp, setup_qp_end
<1>2. ASSUME NextIndex(a)
      PROVE  /\ sidx' \in [Callers -> 1..NumQps]
             /\ spc' \in [Callers -> {"idle", "setup", "created", "done"}]
  BY <1>0, <1>2 DEF NextIndex
<1>3. CASE setup_begin(a)
  BY <1>0, <1>1, <1>3 DEF setup_begin, TypeOK, ring, cq, poll
<1>4. CASE setup_qp(a)
  <2>1. /\ tx_qps' = tx_qps /\ made' \subseteq QPs
        /\ sqp' \in [Callers -> QPs \cup {Null}]
        /\ sidx' \in [Callers -> 1..NumQps]
        /\ spc' \in [Callers -> {"idle", "setup", "created", "done"}]
    <3>1. CASE NextIndex(a) /\ UNCHANGED <<made, sqp>>
      BY <1>0, <1>2, <1>4, <3>1 DEF setup_qp
    <3>2. ASSUME NEW q \in QPs, made' = made \cup {q}, sqp' = [sqp EXCEPT ![a] = q],
                 spc' = [spc EXCEPT ![a] = "created"], sidx' = sidx, tx_qps' = tx_qps
          PROVE  /\ made' \subseteq QPs /\ sqp' \in [Callers -> QPs \cup {Null}]
                 /\ sidx' \in [Callers -> 1..NumQps]
                 /\ spc' \in [Callers -> {"idle", "setup", "created", "done"}]
      BY <1>0, <3>2
    <3> QED
      BY <1>4, <3>1, <3>2 DEF setup_qp
  <2> QED
    BY <1>1, <2>1 DEF TypeOK, ring, cq, poll
<1>5. CASE setup_qp_end(a)
  <2>1. /\ tx_qps' \in [1..NumQps -> QPs \cup {Null}] /\ made' = made
        /\ sqp' \in [Callers -> QPs \cup {Null}]
        /\ sidx' \in [Callers -> 1..NumQps]
        /\ spc' \in [Callers -> {"idle", "setup", "created", "done"}]
    BY <1>0, <1>2, <1>5, Zenon DEF setup_qp_end
  <2> QED
    BY <1>1, <2>1 DEF TypeOK, ring, cq, poll
<1> QED
  BY <1>3, <1>4, <1>5 DEF Setup

(* A post has three outcomes. *)
LEMMA PostMeans ==
    ASSUME TypeOK, NEW i \in 1..(NumQps + 1), NEW id \in WrIds, Post(i, id)
    PROVE  /\ HasRoom /\ UNCHANGED <<ci, setup, cq, poll>>
           /\ wc' = [wc EXCEPT ![pi % MaxSendWr] = [id |-> id, st |-> "SUCCESS"]]
           /\ \/ /\ pi' = (pi + 1) % W /\ hw' = hw /\ gen' = TRUE
                 /\ completed' = completed \cup {pi % MaxSendWr}
              \/ /\ pi' = (pi + 1) % W /\ UNCHANGED <<completed, gen>>
                 /\ \E q \in QPs : hw' = [hw EXCEPT ![q] = Append(@, pi % MaxSendWr)]
              \/ UNCHANGED <<pi, hw, completed, gen>>
<1>1. HasRoom /\ UNCHANGED <<ci, setup, cq, poll>>
  BY DEF Post, mlx5_ib_gsi_post_send
<1>2. CASE get_tx_qp(i) = Null
  <2>1. silent_drop(id)
    BY <1>2 DEF Post, mlx5_ib_gsi_post_send
  <2> QED
    BY <1>1, <2>1 DEF silent_drop
<1>3. CASE get_tx_qp(i) # Null
  <2>1. post_on(get_tx_qp(i), id)
    BY <1>3 DEF Post, mlx5_ib_gsi_post_send
  <2>2. get_tx_qp(i) \in QPs
    BY <1>3, Zenon DEF get_tx_qp, TypeOK
  <2> QED
    BY <1>1, <2>1, <2>2 DEF post_on
<1> QED
  BY <1>2, <1>3, Zenon

(* mlx5_ib_gsi_post_send keeps the types: the index wraps, the slot is in  *)
(* the ring.                                                               *)
LEMMA TypePost ==
    ASSUME TypeOK, NEW i \in 1..(NumQps + 1), NEW id \in WrIds, Post(i, id)
    PROVE  TypeOK'
<1>1. PICK s \in Slots : s = pi % MaxSendWr
  <2>1. pi % MaxSendWr \in 0..(MaxSendWr - 1)
    BY IndexInts, Sizes, ModType, Zenon
  <2> QED
    BY <2>1 DEF Slots
<1>2. PICK p \in 0..(W - 1) : p = (pi + 1) % W
  <2>1. pi + 1 \in Int
    BY IndexInts
  <2> QED
    BY <2>1, Sizes, ModType, Zenon
<1>3. /\ UNCHANGED <<ci, setup, cq, poll>>
      /\ wc' = [wc EXCEPT ![s] = [id |-> id, st |-> "SUCCESS"]]
      /\ \/ /\ pi' = p /\ hw' = hw /\ gen' = TRUE
            /\ completed' = completed \cup {s}
         \/ /\ pi' = p /\ UNCHANGED <<completed, gen>>
            /\ \E q \in QPs : hw' = [hw EXCEPT ![q] = Append(@, s)]
         \/ UNCHANGED <<pi, hw, completed, gen>>
  BY <1>1, <1>2, PostMeans, Zenon
<1>4. wc' \in [Slots -> [id : WrIds \cup {Null}, st : Statuses]]
  BY <1>3 DEF TypeOK, Statuses
<1>5. pi' \in 0..(W - 1)
  BY <1>3 DEF TypeOK
<1>6. completed' \subseteq Slots /\ gen' \in BOOLEAN
  BY <1>3, Zenon DEF TypeOK
<1>7. hw' \in [QPs -> Seq(Slots)]
  <2>1. ASSUME NEW q \in QPs PROVE [hw EXCEPT ![q] = Append(@, s)] \in [QPs -> Seq(Slots)]
    BY <2>1 DEF TypeOK
  <2>2. hw \in [QPs -> Seq(Slots)]
    BY DEF TypeOK
  <2>3. hw' = hw \/ \E q \in QPs : hw' = [hw EXCEPT ![q] = Append(@, s)]
    BY <1>3, Zenon
  <2> QED
    BY <2>1, <2>2, <2>3, Zenon
<1> QED
  BY <1>3, <1>4, <1>5, <1>6, <1>7, Zenon DEF TypeOK, setup, cq, poll

(* handle_single_completion keeps the types. *)
LEMMA TypeHca ==
    ASSUME TypeOK, NEW q \in QPs, NEW st \in Statuses, handle_single_completion(q, st)
    PROVE  TypeOK'
<1> DEFINE s == Head(hw[q])
<1>1. hw[q] \in Seq(Slots) /\ hw[q] # <<>>
  BY DEF TypeOK, handle_single_completion
<1>2. s \in Slots /\ Tail(hw[q]) \in Seq(Slots)
  BY <1>1, HeadTailProperties
<1>3. hw' \in [QPs -> Seq(Slots)]
  BY <1>2 DEF TypeOK, handle_single_completion
<1>4. completed' \subseteq Slots /\ gen' \in BOOLEAN
  BY <1>2 DEF TypeOK, handle_single_completion
<1>5. wc' \in [Slots -> [id : WrIds \cup {Null}, st : Statuses]]
  BY <1>2, Zenon DEF TypeOK, handle_single_completion
<1> QED
  BY <1>3, <1>4, <1>5 DEF TypeOK, handle_single_completion, setup, cq, poll

(* One turn of generate_completions moves the oldest work request. *)
LEMMA GenerateMeans ==
    ASSUME TypeOK, generate_completions
    PROVE  /\ UNCHANGED <<pi, wc, setup, hw, poll>>
           /\ \/ /\ ci # pi /\ Slot(Len(wc_list) + 1) \in completed
                 /\ wc_list' = Append(wc_list, Slot(Len(wc_list) + 1))
                 /\ in_use' = in_use \cup {Slot(Len(wc_list) + 1)}
                 /\ completed' = completed \ {Slot(Len(wc_list) + 1)}
                 /\ ci' = (ci + 1) % W /\ gen' = gen
                 /\ notify' \in BOOLEAN /\ nwork' \in BOOLEAN
              \/ gen' = FALSE /\ UNCHANGED <<ci, completed, cq>>
<1>1. ci % MaxSendWr = Slot(Len(wc_list) + 1)
  BY CiSlot
<1>2. UNCHANGED <<pi, wc, setup, hw, poll>>
  BY DEF generate_completions
<1>3. CASE ci # pi /\ ci % MaxSendWr \in completed
  BY <1>1, <1>2, <1>3, Zenon DEF generate_completions, mlx5_ib_generate_wc, TypeOK
<1>4. CASE ~(ci # pi /\ ci % MaxSendWr \in completed)
  BY <1>2, <1>4, Zenon DEF generate_completions
<1> QED
  BY <1>3, <1>4, Zenon

(* generate_completions keeps the types. *)
LEMMA TypeGenerate ==
    ASSUME TypeOK, generate_completions
    PROVE  TypeOK'
<1>1. UNCHANGED <<pi, wc, setup, hw, poll>>
  BY GenerateMeans
<1>2. CASE gen' = FALSE /\ UNCHANGED <<ci, completed, cq>>
  BY <1>1, <1>2, Zenon DEF TypeOK, setup, cq, poll
<1>3. ASSUME NEW s \in Slots, wc_list' = Append(wc_list, s), in_use' = in_use \cup {s},
             completed' = completed \ {s}, ci' = (ci + 1) % W, gen' = gen,
             notify' \in BOOLEAN, nwork' \in BOOLEAN
      PROVE  TypeOK'
  <2>1. ci' \in 0..(W - 1)
    <3>1. ci + 1 \in Int
      BY IndexInts
    <3>2. (ci + 1) % W \in 0..(W - 1)
      BY <3>1, Sizes, ModType, Zenon
    <3> QED
      BY <1>3, <3>2, Zenon
  <2>2. wc_list' \in Seq(Slots)
    BY <1>3 DEF TypeOK
  <2> QED
    BY <1>1, <1>3, <2>1, <2>2 DEF TypeOK, setup, poll
<1>4. Len(wc_list) + 1 \in Int
  BY Indices
<1>5. Slot(Len(wc_list) + 1) \in Slots
  BY <1>4, SlotType
<1> QED
  BY <1>2, <1>3, <1>5, GenerateMeans, Zenon

(* A poll of __ib_process_cq takes the first n completions off wc_list. *)
Reported(n) ==
    /\ out' = [k \in 1..n |-> wc[wc_list[k]]]
    /\ in_use' = in_use \ {wc_list[k] : k \in 1..n}
    /\ wc_list' = SubSeq(wc_list, n + 1, Len(wc_list))

(* What ib_process_cq does, and that it stays within its budget. *)
LEMMA ProcessMeans ==
    ASSUME TypeOK, polled < Budget, ib_process_cq
    PROVE  /\ \E n \in 0..Len(wc_list) : Reported(n)
           /\ UNCHANGED <<ring, setup, hw, notify, nwork>>
           /\ polled' \in 0..Budget /\ polled' < Budget
           /\ ppc' \in {"idle", "poll", "arm"} /\ work' \in BOOLEAN
<1> DEFINE n == SmallerOf(SmallerOf(Batch, Budget - polled), Len(wc_list))
<1>0. /\ Batch \in Nat \ {0} /\ Budget \in Nat \ {0} /\ polled \in 0..Budget
      /\ Len(wc_list) \in Nat
  BY GsiAssumption, Indices DEF TypeOK
<1>1. n \in 0..Len(wc_list)
  BY <1>0 DEF SmallerOf
<1>2. Reported(n)
  BY DEF ib_process_cq, mlx5_ib_poll_cq, Reported
<1>3. UNCHANGED <<ring, setup, hw, notify, nwork>>
  BY DEF ib_process_cq, mlx5_ib_poll_cq
<1>4. /\ \/ polled + n < Budget /\ polled' = polled + n /\ UNCHANGED <<ppc, work>>
         \/ polled' = 0 /\ ppc' = "arm" /\ work' = work
         \/ polled' = 0 /\ ppc' = "idle" /\ work' = TRUE
  BY Zenon DEF ib_process_cq
<1> HIDE DEF n
<1>5. polled' \in 0..Budget /\ polled' < Budget
  BY <1>0, <1>1, <1>4
<1>6. ppc' \in {"idle", "poll", "arm"} /\ work' \in BOOLEAN
  BY <1>4, Zenon DEF TypeOK
<1> QED
  BY <1>1, <1>2, <1>3, <1>5, <1>6

(* Where the window is after that: n places further. *)
LEMMA ReportedPlaces ==
    ASSUME TypeOK, NEW n \in 0..Len(wc_list), Reported(n), UNCHANGED <<pi, ci>>
    PROVE  /\ wc_list' \in Seq(Slots) /\ Len(wc_list') = Len(wc_list) - n
           /\ \A k \in 1..(Len(wc_list) - n) : wc_list'[k] = wc_list[k + n]
           /\ Backlog' = Backlog /\ Size' = Size - n
           /\ \A k \in Int : Slot(k)' = Slot(k + n)
<1>0. wc_list \in Seq(Slots) /\ Len(wc_list) \in Nat /\ n \in Nat
  BY Indices DEF TypeOK
<1>1. \A k \in (n + 1)..Len(wc_list) : wc_list[k] \in Slots
  BY <1>0, ElementOfSeq
<1>2. /\ wc_list' \in Seq(Slots)
      /\ Len(wc_list') = IF n + 1 <= Len(wc_list) THEN Len(wc_list) - (n + 1) + 1 ELSE 0
      /\ \A k \in 1..(Len(wc_list) - (n + 1) + 1) : wc_list'[k] = wc_list[(n + 1) + k - 1]
  BY <1>0, <1>1, SubSeqProperties DEF Reported
<1>3. Len(wc_list') = Len(wc_list) - n
  BY <1>0, <1>2
<1>4. ASSUME NEW k \in 1..(Len(wc_list) - n) PROVE wc_list'[k] = wc_list[k + n]
  <2>1. k \in 1..(Len(wc_list) - (n + 1) + 1) /\ (n + 1) + k - 1 = k + n
    BY <1>0
  <2> QED
    BY <1>2, <2>1, Zenon
<1>5. Backlog' = Backlog
  BY DEF Backlog, Dist
<1>6. Size' = Size - n
  BY <1>3, <1>5, IndexInts DEF Size
<1>7. ASSUME NEW k \in Int PROVE Slot(k)' = Slot(k + n)
  <2>0. ci \in Int /\ Len(wc_list) \in Int /\ n \in Int
    BY <1>0, IndexInts
  <2>1. ci - Len(wc_list') + k - 1 = ci - Len(wc_list) + (k + n) - 1
    BY <1>3, <2>0
  <2>2. Slot(k)' = (ci - Len(wc_list') + k - 1) % MaxSendWr
    BY DEF Slot, Place
  <2> QED
    BY <2>1, <2>2, Zenon DEF Slot, Place
<1> QED
  BY <1>2, <1>3, <1>4, <1>5, <1>6, <1>7, Zenon

(* The ring itself is not moved by a poll. *)
LEMMA ReportedRing ==
    ASSUME TypeOK, Window, NEW n \in 0..Len(wc_list), Reported(n), UNCHANGED <<pi, ci>>
    PROVE  RingSlots' = RingSlots
<1>0. /\ Len(wc_list') = Len(wc_list) - n /\ Size' = Size - n
      /\ Len(wc_list) \in Int /\ Size \in Int /\ n \in Int
  BY ReportedPlaces, IndexInts
<1>s. \A k \in Int : Slot(k)' = Slot(k + n)
  BY ReportedPlaces
<1>1. ASSUME NEW k \in (Len(wc_list') + 1)..Size' PROVE Slot(k)' \in RingSlots
  <2>1. k \in Int /\ k + n \in (Len(wc_list) + 1)..Size
    BY <1>0
  <2> QED
    BY <1>s, <2>1 DEF RingSlots
<1>2. ASSUME NEW k \in (Len(wc_list) + 1)..Size
      PROVE  \E j \in (Len(wc_list') + 1)..Size' : Slot(j)' = Slot(k)
  <2>1. PICK j \in Int : j = k - n
    BY <1>0
  <2>2. j \in (Len(wc_list') + 1)..Size' /\ j + n = k
    BY <1>0, <2>1
  <2> QED
    BY <1>s, <2>1, <2>2
<1> QED
  BY <1>1, <1>2 DEF RingSlots

(* The completions that are reported leave the window at its start. *)
LEMMA WindowReport ==
    ASSUME TypeOK, Window, NEW n \in 0..Len(wc_list), Reported(n),
           UNCHANGED <<pi, ci, completed, wc>>
    PROVE  Window'
<1>0. /\ Len(wc_list') = Len(wc_list) - n /\ Size' = Size - n
      /\ Len(wc_list) \in Int /\ Size \in Int /\ n \in 0..Len(wc_list)
      /\ MaxSendWr \in Int
  BY ReportedPlaces, IndexInts
<1>s. /\ \A k \in 1..(Len(wc_list) - n) : wc_list'[k] = wc_list[k + n]
      /\ \A k \in Int : Slot(k)' = Slot(k + n)
  BY ReportedPlaces, Zenon
<1>1. Size' <= MaxSendWr
  BY <1>0 DEF Window
<1>2. ASSUME NEW k \in 1..Len(wc_list') PROVE wc_list'[k] = Slot(k)'
  <2>1. k \in Int /\ k \in 1..(Len(wc_list) - n) /\ k + n \in 1..Len(wc_list)
    BY <1>0
  <2> QED
    BY <1>s, <2>1, Zenon DEF Window
<1>3. in_use' = {Slot(k)' : k \in 1..Len(wc_list')}
  <2>1. ASSUME NEW s \in in_use' PROVE \E k \in 1..Len(wc_list') : s = Slot(k)'
    <3>1. s \in in_use /\ \A k \in 1..n : s # wc_list[k]
      BY <2>1 DEF Reported
    <3>2. PICK j \in 1..Len(wc_list) : s = Slot(j)
      BY <3>1 DEF Window
    <3>3. ~(j \in 1..n)
      BY <3>1, <3>2 DEF Window
    <3>4. PICK k \in Int : k = j - n
      BY <1>0, <3>2
    <3>5. k \in 1..Len(wc_list') /\ k + n = j
      BY <1>0, <3>2, <3>3, <3>4
    <3> QED
      BY <1>s, <3>2, <3>4, <3>5, Zenon
  <2>2. ASSUME NEW k \in 1..Len(wc_list') PROVE Slot(k)' \in in_use'
    <3>0. k \in Int /\ k + n \in 1..Len(wc_list)
      BY <1>0
    <3>1. PICK j \in 1..Len(wc_list) : j = k + n /\ Slot(k)' = Slot(j)
      BY <1>s, <3>0
    <3>2. Slot(j) \in in_use
      BY <3>1 DEF Window
    <3>3. ASSUME NEW i \in 1..n PROVE wc_list[i] # Slot(j)
      <4>1. i \in 1..Len(wc_list) /\ i \in Int /\ j \in Int /\ i < j /\ j - i < MaxSendWr
        <5>1. Size <= MaxSendWr /\ Len(wc_list) <= Size
          BY Indices DEF Window, Size
        <5> QED
          BY <1>0, <2>2, <3>1, <5>1
      <4>2. Slot(i) # Slot(j)
        BY <4>1, SlotApart
      <4> QED
        BY <4>1, <4>2 DEF Window
    <3> QED
      BY <3>1, <3>2, <3>3 DEF Reported
  <2> QED
    BY <2>1, <2>2
<1>4. completed' \subseteq RingSlots'
  BY ReportedRing DEF Window
<1>5. ASSUME NEW k \in 1..Size' PROVE wc'[Slot(k)'].id \in WrIds
  <2>1. k \in Int /\ k + n \in 1..Size
    BY <1>0
  <2> QED
    BY <1>s, <2>1, Zenon DEF Window
<1> QED
  BY <1>1, <1>2, <1>3, <1>4, <1>5 DEF Window

(* The window grows by the slot at outstanding_pi, which nobody uses. *)
LEMMA AcceptedPlaces ==
    ASSUME TypeOK, WrapsWell, Window, Size < MaxSendWr, pi' = (pi + 1) % W, UNCHANGED <<ci, wc_list>>
    PROVE  /\ Backlog' = Backlog + 1 /\ Size' = Size + 1 /\ Len(wc_list') = Len(wc_list)
           /\ \A k \in Int : Slot(k)' = Slot(k)
           /\ Slot(Size + 1) = pi % MaxSendWr /\ Slot(Size + 1) \in Slots
           /\ \A k \in 1..Size : Slot(k) # Slot(Size + 1)
           /\ RingSlots' = RingSlots \cup {Slot(Size + 1)}
           /\ Slot(Size + 1) \notin RingSlots
<1>0. /\ Backlog \in 0..(W - 1) /\ Size \in Nat /\ Len(wc_list) \in Nat /\ Size = Len(wc_list) + Backlog
      /\ MaxSendWr \in Nat /\ MaxSendWr < W /\ W \in Nat
  BY Indices DEF Size
<1>1. Backlog' = Backlog + 1
  <2>1. Backlog + 1 < W
    BY <1>0
  <2>2. Dist(pi', ci) = Dist(pi, ci) + 1
    BY <2>1, IndexInts, DistUp DEF Backlog
  <2> QED
    BY <2>2, Zenon DEF Backlog
<1>2. Size' = Size + 1
  BY <1>0, <1>1 DEF Size
<1>3. \A k \in Int : Slot(k)' = Slot(k)
  BY DEF Slot, Place
<1>4. Size + 1 \in Int
  BY <1>0
<1>5. Slot(Size + 1) = pi % MaxSendWr /\ Slot(Size + 1) \in Slots
  BY <1>4, PiSlot, SlotType
<1>6. ASSUME NEW k \in 1..Size PROVE Slot(k) # Slot(Size + 1)
  <2>1. k \in Int /\ k < Size + 1 /\ (Size + 1) - k < MaxSendWr
    BY <1>0
  <2> QED
    BY <1>4, <2>1, SlotApart
<1>7. (Len(wc_list') + 1)..Size' = ((Len(wc_list) + 1)..Size) \cup {Size + 1}
  BY <1>0, <1>2
<1>8. \A k \in (Len(wc_list) + 1)..Size : k \in Int /\ k \in 1..Size
  BY <1>0
<1>9. RingSlots' = RingSlots \cup {Slot(Size + 1)}
  <2>1. RingSlots' = {Slot(k)' : k \in (Len(wc_list') + 1)..Size'}
    BY DEF RingSlots
  <2>2. \A k \in (Len(wc_list') + 1)..Size' : Slot(k)' = Slot(k)
    BY <1>3, <1>4, <1>7, <1>8
  <2> QED
    BY <1>7, <2>1, <2>2 DEF RingSlots
<1>10. Slot(Size + 1) \notin RingSlots
  BY <1>6, <1>8 DEF RingSlots
<1> QED
  BY <1>1, <1>2, <1>3, <1>5, <1>6, <1>9, <1>10

(* A work request in the slot at outstanding_pi disturbs no other one. *)
LEMMA WindowAccept ==
    ASSUME TypeOK, WrapsWell, Window, Size < MaxSendWr, pi' = (pi + 1) % W, UNCHANGED <<ci, wc_list, in_use>>,
           NEW id \in WrIds,
           wc' = [wc EXCEPT ![Slot(Size + 1)] = [id |-> id, st |-> "SUCCESS"]],
           completed' \subseteq completed \cup {Slot(Size + 1)}
    PROVE  Window'
<1>0. /\ Size' = Size + 1 /\ Size \in Nat /\ Len(wc_list) \in Nat /\ MaxSendWr \in Nat
      /\ Len(wc_list) <= Size
  BY AcceptedPlaces, Indices DEF Size
<1>1. /\ Slot(Size + 1) \in Slots
      /\ \A k \in 1..Size : Slot(k) # Slot(Size + 1)
      /\ \A k \in Int : Slot(k)' = Slot(k)
      /\ RingSlots' = RingSlots \cup {Slot(Size + 1)}
  BY AcceptedPlaces
<1>2. Size' <= MaxSendWr
  BY <1>0
<1>3. \A k \in 1..Len(wc_list') : wc_list'[k] = Slot(k)'
  BY <1>1 DEF Window
<1>4. in_use' = {Slot(k)' : k \in 1..Len(wc_list')}
  BY <1>1 DEF Window
<1>5. completed' \subseteq RingSlots'
  BY <1>1 DEF Window
<1>6. ASSUME NEW k \in 1..Size' PROVE wc'[Slot(k)'].id \in WrIds
  <2>1. k \in Int /\ (k = Size + 1 \/ k \in 1..Size)
    BY <1>0
  <2>2. Slot(k)' = Slot(k) /\ Slot(k) \in Slots
    BY <1>1, <2>1, SlotType
  <2>3. CASE k = Size + 1
    <3>1. wc'[Slot(k)] = [id |-> id, st |-> "SUCCESS"]
      BY <2>2, <2>3 DEF TypeOK
    <3> QED
      BY <2>2, <3>1
  <2>4. CASE k \in 1..Size
    <3>1. wc'[Slot(k)] = wc[Slot(k)]
      BY <1>1, <2>2, <2>4 DEF TypeOK
    <3> QED
      BY <2>2, <2>4, <3>1 DEF Window
  <2> QED
    BY <2>1, <2>3, <2>4
<1> QED
  BY <1>2, <1>3, <1>4, <1>5, <1>6 DEF Window

(* The window when outstanding_ci advances: the oldest work request of the *)
(* ring is now the youngest of wc_list.                                    *)
LEMMA GeneratedPlaces ==
    ASSUME TypeOK, WrapsWell, Window, ci # pi, ci' = (ci + 1) % W, pi' = pi,
           wc_list' = Append(wc_list, Slot(Len(wc_list) + 1))
    PROVE  /\ Backlog' = Backlog - 1 /\ Len(wc_list') = Len(wc_list) + 1 /\ Size' = Size
           /\ Len(wc_list) + 1 \in 1..Size
           /\ \A k \in 1..Len(wc_list) : wc_list'[k] = wc_list[k]
           /\ wc_list'[Len(wc_list) + 1] = Slot(Len(wc_list) + 1)
           /\ \A k \in Int : Slot(k)' = Slot(k)
           /\ RingSlots' = RingSlots \ {Slot(Len(wc_list) + 1)}
<1>0. /\ Backlog \in 0..(W - 1) /\ Size \in Nat /\ Len(wc_list) \in Nat /\ Size = Len(wc_list) + Backlog
      /\ W \in Nat /\ wc_list \in Seq(Slots) /\ MaxSendWr \in Nat
  BY Indices DEF Size, TypeOK
<1>1. Len(wc_list) + 1 \in Int
  BY <1>0
<1>2. Slot(Len(wc_list) + 1) \in Slots
  BY <1>1, SlotType
<1>3. /\ Len(wc_list') = Len(wc_list) + 1
      /\ \A k \in 1..Len(wc_list) : wc_list'[k] = wc_list[k]
      /\ wc_list'[Len(wc_list) + 1] = Slot(Len(wc_list) + 1)
  BY <1>0, <1>2, AppendProperties
<1>4. Backlog # 0
  BY EmptyRing
<1>5. Backlog' = Backlog - 1
  <2>1. Dist(pi, ci') = Dist(pi, ci) - 1
    BY <1>4, IndexInts, DistDown DEF Backlog
  <2> QED
    BY <2>1, Zenon DEF Backlog
<1>6. Size' = Size
  BY <1>0, <1>3, <1>5 DEF Size
<1>7. ASSUME NEW k \in Int PROVE Slot(k)' = Slot(k)
  <2>1. W % MaxSendWr = 0 \/ ci + 1 \in 0..(W - 1)
    BY Indices DEF WrapsWell
  <2>2. Place(ci', Len(wc_list) + 1, k) = Place(ci, Len(wc_list), k)
    BY <2>1, IndexInts, PlaceKept
  <2> QED
    BY <1>3, <2>2, Zenon DEF Slot
<1>8. Len(wc_list) + 1 \in 1..Size
  BY <1>0, <1>4
<1>9. (Len(wc_list') + 1)..Size' = ((Len(wc_list) + 1)..Size) \ {Len(wc_list) + 1}
  BY <1>0, <1>3, <1>6
<1>10. RingSlots' = {Slot(k) : k \in ((Len(wc_list) + 1)..Size) \ {Len(wc_list) + 1}}
  <2>1. RingSlots' = {Slot(k)' : k \in (Len(wc_list') + 1)..Size'}
    BY DEF RingSlots
  <2>2. \A k \in (Len(wc_list') + 1)..Size' : k \in Int
    BY <1>0, <1>9
  <2> QED
    BY <1>7, <1>9, <2>1, <2>2
<1>11. ASSUME NEW k \in ((Len(wc_list) + 1)..Size) \ {Len(wc_list) + 1}
       PROVE  Slot(k) # Slot(Len(wc_list) + 1)
  <2>1. /\ k \in Int /\ Len(wc_list) + 1 < k /\ k - (Len(wc_list) + 1) < MaxSendWr
    <3>1. Size <= MaxSendWr
      BY DEF Window
    <3> QED
      BY <1>0, <3>1
  <2> QED
    BY <1>1, <2>1, SlotApart
<1>12. RingSlots' = RingSlots \ {Slot(Len(wc_list) + 1)}
  BY <1>8, <1>10, <1>11, Zenon DEF RingSlots
<1> QED
  BY <1>3, <1>5, <1>6, <1>7, <1>8, <1>12

(* mlx5_ib_generate_wc takes the slot into use in the step in which it     *)
(* leaves the ring, so the window is the same.                             *)
LEMMA WindowGenerate ==
    ASSUME TypeOK, WrapsWell, Window, ci # pi, ci' = (ci + 1) % W, UNCHANGED <<pi, wc>>,
           wc_list' = Append(wc_list, Slot(Len(wc_list) + 1)),
           in_use' = in_use \cup {Slot(Len(wc_list) + 1)},
           completed' = completed \ {Slot(Len(wc_list) + 1)}
    PROVE  Window'
<1>0. /\ Len(wc_list') = Len(wc_list) + 1 /\ Size' = Size /\ Len(wc_list) \in Nat /\ Size \in Nat
  BY GeneratedPlaces, Indices
<1>1. /\ \A k \in 1..Len(wc_list) : wc_list'[k] = wc_list[k]
      /\ wc_list'[Len(wc_list) + 1] = Slot(Len(wc_list) + 1)
      /\ \A k \in Int : Slot(k)' = Slot(k)
      /\ RingSlots' = RingSlots \ {Slot(Len(wc_list) + 1)}
  BY GeneratedPlaces
<1>2. 1..Len(wc_list') = (1..Len(wc_list)) \cup {Len(wc_list) + 1}
  BY <1>0
<1>3. \A k \in 1..Len(wc_list') : k \in Int
  BY <1>0
<1>4. \A k \in 1..Len(wc_list') : wc_list'[k] = Slot(k)'
  BY <1>1, <1>2, <1>3 DEF Window
<1>5. in_use' = {Slot(k)' : k \in 1..Len(wc_list')}
  BY <1>1, <1>2, <1>3 DEF Window
<1>6. completed' \subseteq RingSlots'
  BY <1>1 DEF Window
<1>7. \A k \in 1..Size' : wc'[Slot(k)'].id \in WrIds
  BY <1>0, <1>1 DEF Window
<1> QED
  BY <1>0, <1>4, <1>5, <1>6, <1>7 DEF Window

----------------------------------------------------------------------------
(* From here on the leaves are for Zenon, if they do not say otherwise. *)
USE Zenon

----------------------------------------------------------------------------
(* The hand-shake of the CQ and its consumer. *)

(* A poll is running or will run. *)
PollComing == nwork \/ work \/ ppc # "idle"

(* Somebody watches the CQ: it is armed, or a poll is coming. Without this *)
(* a completion found on an unarmed, idle CQ would wake nobody.            *)
Watched == notify = TRUE \/ PollComing

(* The inductive invariant. *)
Handshake ==
    /\ notify \in BOOLEAN /\ nwork \in BOOLEAN /\ work \in BOOLEAN
    /\ Watched
    /\ NoLostWakeup

(* The CQ starts armed and empty. *)
LEMMA InitHandshake == Init => Handshake
BY DEF Init, Handshake, Watched, PollComing, NoLostWakeup

(* A step that leaves the CQ and its consumer alone. *)
LEMMA QuietStep ==
    ASSUME Handshake, UNCHANGED <<wc_list, notify, nwork, work, ppc>>
    PROVE  Handshake'
BY DEF Handshake, Watched, PollComing, NoLostWakeup

(* generate_completions: a completion added to an armed CQ queues the      *)
(* notification; one added to an unarmed CQ finds a poll coming.           *)
LEMMA GenerateStep == Handshake /\ generate_completions => Handshake'
<1> SUFFICES ASSUME Handshake, generate_completions PROVE Handshake'
  OBVIOUS
<1> DEFINE slot == ci % MaxSendWr
<1>1. UNCHANGED <<work, ppc>>
  BY DEF generate_completions, poll
<1>2. CASE UNCHANGED cq
  BY <1>1, <1>2, QuietStep DEF cq
<1>3. CASE mlx5_ib_generate_wc(slot)
  <2>1. CASE notify \/ wc[slot].st # "SUCCESS"
    <3>1. notify' = FALSE /\ nwork' = TRUE
      BY <1>3, <2>1 DEF mlx5_ib_generate_wc
    <3> QED
      BY <1>1, <3>1 DEF Handshake, Watched, PollComing, NoLostWakeup
  <2>2. CASE ~(notify \/ wc[slot].st # "SUCCESS")
    <3>1. UNCHANGED <<notify, nwork>>
      BY <1>3, <2>2 DEF mlx5_ib_generate_wc
    <3>2. PollComing
      BY <2>2 DEF Handshake, Watched
    <3> QED
      BY <1>1, <3>1, <3>2 DEF Handshake, Watched, PollComing, NoLostWakeup
  <2> QED
    BY <2>1, <2>2
<1> QED
  BY <1>2, <1>3 DEF generate_completions

(* The consumer: a poll ends with the CQ armed, and then either the list   *)
(* is empty or the work item is queued again.                              *)
LEMMA ConsumerStep == Handshake /\ Consumer => Handshake'
<1> SUFFICES ASSUME Handshake, Consumer PROVE Handshake'
  OBVIOUS
<1>1. CASE notify_soft_wc_handler
  BY <1>1 DEF notify_soft_wc_handler, Handshake, Watched, PollComing, NoLostWakeup
<1>2. CASE ib_cq_poll_work
  BY <1>2 DEF ib_cq_poll_work, cq, Handshake, Watched, PollComing, NoLostWakeup
<1>3. CASE ib_process_cq
  <2>1. UNCHANGED <<notify, nwork>>
    BY <1>3 DEF ib_process_cq, mlx5_ib_poll_cq
  <2>2. ppc = "poll"
    BY <1>3 DEF ib_process_cq
  <2>3. UNCHANGED <<ppc, work>> \/ (ppc' = "arm" /\ UNCHANGED work) \/ work' = TRUE
    BY <1>3 DEF ib_process_cq
  <2>4. work' \in BOOLEAN /\ PollComing'
    BY <2>2, <2>3 DEF Handshake, PollComing
  <2> QED
    BY <2>1, <2>4 DEF Handshake, Watched, NoLostWakeup, PollComing
<1>4. CASE poll_work_end
  BY <1>4 DEF poll_work_end, mlx5_ib_arm_cq, Handshake, Watched, PollComing, NoLostWakeup
<1> QED
  BY <1>1, <1>2, <1>3, <1>4 DEF Consumer

(* Every step keeps the hand-shake: posting, setting up QPs and the        *)
(* completions of the HCA do not touch the CQ of the MAD layer.            *)
LEMMA NextHandshake == Handshake /\ [Next]_vars => Handshake'
<1> SUFFICES ASSUME Handshake, [Next]_vars PROVE Handshake'
  OBVIOUS
<1>1. CASE UNCHANGED vars
  BY <1>1, QuietStep DEF vars, cq, poll
<1>2. ASSUME NEW i, NEW id, Post(i, id)
      PROVE  Handshake'
  BY <1>2, QuietStep DEF Post, mlx5_ib_gsi_post_send, cq, poll
<1>3. ASSUME NEW a, Setup(a)
      PROVE  Handshake'
  BY <1>3, QuietStep DEF Setup, setup_begin, setup_qp, setup_qp_end, cq, poll
<1>4. CASE Hca
  BY <1>4, QuietStep DEF Hca, handle_single_completion, cq, poll
<1> QED
  BY <1>1, <1>2, <1>3, <1>4, GenerateStep, ConsumerStep DEF Next

(* For every value of the constants: when software completions wait on the *)
(* CQ of the MAD layer, it is being polled or a work item that will poll   *)
(* it is queued.                                                           *)
THEOREM WakeupsAreNotLost == Spec => []NoLostWakeup
<1>1. Handshake => NoLostWakeup
  BY DEF Handshake
<1> QED
  BY <1>1, InitHandshake, NextHandshake, PTL DEF Spec

----------------------------------------------------------------------------
(* What the HCA has. *)

(* A send on UD QP q gives it a slot that it does not have. *)
LEMMA SentOn ==
    ASSUME TypeOK, Sent, NEW q \in QPs, NEW s \in Slots, s \notin RingSlots,
           hw' = [hw EXCEPT ![q] = Append(@, s)],
           RingSlots' = RingSlots \cup {s}, completed' = completed, completed \subseteq RingSlots
    PROVE  Sent'
<1>1. hw \in [QPs -> Seq(Slots)] /\ hw[q] \in Seq(Slots)
  BY DEF TypeOK
<1>2. \A p \in QPs : s \notin Range(hw[p])
  BY DEF Sent
<1>3. /\ IsInjective(Append(hw[q], s))
      /\ Range(Append(hw[q], s)) = Range(hw[q]) \cup {s}
  BY <1>1, <1>2, AppendList, SMT DEF Sent
<1>4. /\ hw'[q] = Append(hw[q], s)
      /\ \A p \in QPs : p # q => hw'[p] = hw[p]
  BY <1>1
<1>5. /\ Range(hw'[q]) = Range(hw[q]) \cup {s}
      /\ \A p \in QPs : p # q => Range(hw'[p]) = Range(hw[p])
  BY <1>3, <1>4
<1>6. \A p \in QPs : IsInjective(hw'[p])
  BY <1>3, <1>4 DEF Sent
<1>7. ASSUME NEW p \in QPs, NEW r \in QPs, p # r, NEW x \in Range(hw'[p]), x \in Range(hw'[r])
      PROVE  FALSE
  <2>1. Range(hw[p]) \cap Range(hw[r]) = {}
    BY <1>7 DEF Sent
  <2>2. x \in Range(hw[p]) \/ (x = s /\ p = q)
    BY <1>5, <1>7
  <2>3. x \in Range(hw[r]) \/ (x = s /\ r = q)
    BY <1>5, <1>7
  <2> QED
    BY <1>2, <1>7, <2>1, <2>2, <2>3
<1>8. ASSUME NEW x PROVE (\E p \in QPs : x \in Range(hw'[p])) <=> x \in RingSlots' \ completed'
  <2>1. (\E p \in QPs : x \in Range(hw'[p])) <=> (x = s \/ \E p \in QPs : x \in Range(hw[p]))
    BY <1>5
  <2>2. (\E p \in QPs : x \in Range(hw[p])) <=> x \in RingSlots \ completed
    BY DEF Sent
  <2> QED
    BY <2>1, <2>2
<1> QED
  BY <1>6, <1>7, <1>8 DEF Sent

(* A completion of UD QP q takes its oldest slot away. *)
LEMMA SentDone ==
    ASSUME TypeOK, Sent, NEW q \in QPs, hw[q] # <<>>,
           hw' = [hw EXCEPT ![q] = Tail(@)], completed' = completed \cup {Head(hw[q])},
           RingSlots' = RingSlots
    PROVE  Sent' /\ Head(hw[q]) \in RingSlots \ completed
<1>1. hw \in [QPs -> Seq(Slots)] /\ hw[q] \in Seq(Slots) /\ IsInjective(hw[q])
  BY DEF TypeOK, Sent
<1>2. PICK s : s = Head(hw[q])
  OBVIOUS
<1>3. /\ s \in Range(hw[q]) /\ IsInjective(Tail(hw[q]))
      /\ Range(Tail(hw[q])) = Range(hw[q]) \ {s}
  BY <1>1, <1>2, TailList
<1>4. /\ hw'[q] = Tail(hw[q])
      /\ \A p \in QPs : p # q => hw'[p] = hw[p]
  BY <1>1
<1>5. /\ Range(hw'[q]) = Range(hw[q]) \ {s}
      /\ \A p \in QPs : p # q => Range(hw'[p]) = Range(hw[p]) /\ s \notin Range(hw[p])
  BY <1>3, <1>4 DEF Sent
<1>6. \A p \in QPs : IsInjective(hw'[p])
  BY <1>3, <1>4 DEF Sent
<1>7. \A p, r \in QPs : p # r => Range(hw'[p]) \cap Range(hw'[r]) = {}
  BY <1>5, SMT DEF Sent
<1>8. ASSUME NEW x PROVE (\E p \in QPs : x \in Range(hw'[p])) <=> x \in RingSlots' \ completed'
  <2>1. (\E p \in QPs : x \in Range(hw'[p])) <=> (x # s /\ \E p \in QPs : x \in Range(hw[p]))
    BY <1>5
  <2>2. (\E p \in QPs : x \in Range(hw[p])) <=> x \in RingSlots \ completed
    BY DEF Sent
  <2> QED
    BY <1>2, <2>1, <2>2
<1>9. s \in RingSlots \ completed
  BY <1>3 DEF Sent
<1> QED
  BY <1>2, <1>6, <1>7, <1>8, <1>9 DEF Sent

(* A step in which the ring gets or loses complete slots only does not     *)
(* concern the HCA.                                                        *)
LEMMA SentSame ==
    ASSUME Sent, hw' = hw, RingSlots' \ completed' = RingSlots \ completed
    PROVE  Sent'
BY DEF Sent

----------------------------------------------------------------------------
(* A step that leaves ring, wc_list and HCA alone. *)
LEMMA RingSame ==
    ASSUME Window, Sent, UNCHANGED <<pi, ci, wc_list, in_use, completed, wc, hw>>
    PROVE  Window' /\ Sent'
<1>1. Size' = Size /\ RingSlots' = RingSlots /\ Backlog' = Backlog
  BY DEF Size, RingSlots, Backlog, Slot
<1>2. Window'
  BY <1>1 DEF Window, Slot
<1> QED
  BY <1>1, <1>2, SentSame

(* mlx5_ib_gsi_post_send: dropped, sent, or given back when ib_post_send   *)
(* fails, which leaves a slot after the window overwritten.                *)
LEMMA PostStep ==
    ASSUME RingInv, WrapsWell, NEW i \in 1..(NumQps + 1), NEW id \in WrIds, Post(i, id)
    PROVE  RingInv'
<1>0. TypeOK /\ Window /\ Sent /\ polled < Budget
  BY DEF RingInv
<1>1. TypeOK'
  BY <1>0, TypePost
<1>2. Size < MaxSendWr
  BY <1>0, PostMeans, RoomMeans
<1>3. /\ UNCHANGED <<ci, wc_list, in_use, polled>>
      /\ wc' = [wc EXCEPT ![Slot(Size + 1)] = [id |-> id, st |-> "SUCCESS"]]
      /\ \/ /\ pi' = (pi + 1) % W /\ hw' = hw
            /\ completed' = completed \cup {Slot(Size + 1)}
         \/ /\ pi' = (pi + 1) % W /\ completed' = completed
            /\ \E q \in QPs : hw' = [hw EXCEPT ![q] = Append(@, Slot(Size + 1))]
         \/ UNCHANGED <<pi, hw, completed>>
  <2>1. pi % MaxSendWr = Slot(Size + 1)
    BY <1>0, PiSlot
  <2> QED
    BY <1>0, <2>1, PostMeans DEF cq, poll
<1>4. CASE pi' = (pi + 1) % W /\ hw' = hw /\ completed' = completed \cup {Slot(Size + 1)}
  <2>1. Window'
    BY <1>0, <1>2, <1>3, <1>4, WindowAccept
  <2>2. RingSlots' = RingSlots \cup {Slot(Size + 1)} /\ Slot(Size + 1) \notin RingSlots
    BY <1>0, <1>2, <1>3, <1>4, AcceptedPlaces
  <2>3. Sent'
    BY <1>0, <1>4, <2>2, SentSame
  <2> QED
    BY <1>0, <1>1, <1>3, <2>1, <2>3 DEF RingInv
<1>5. ASSUME NEW q \in QPs, pi' = (pi + 1) % W, completed' = completed,
             hw' = [hw EXCEPT ![q] = Append(@, Slot(Size + 1))]
      PROVE  RingInv'
  <2>1. Window'
    BY <1>0, <1>2, <1>3, <1>5, WindowAccept
  <2>2. /\ RingSlots' = RingSlots \cup {Slot(Size + 1)} /\ Slot(Size + 1) \notin RingSlots
        /\ Slot(Size + 1) \in Slots
    BY <1>0, <1>2, <1>3, <1>5, AcceptedPlaces
  <2>3. completed \subseteq RingSlots
    BY <1>0 DEF Window
  <2>4. Sent'
    BY <1>0, <1>5, <2>2, <2>3, SentOn
  <2> QED
    BY <1>0, <1>1, <1>3, <2>1, <2>4 DEF RingInv
<1>6. CASE UNCHANGED <<pi, hw, completed>>
  <2>0. Size \in Nat /\ Len(wc_list) \in Nat /\ Len(wc_list) <= Size
    BY <1>0, Indices, SMT DEF Size
  <2>1. Size' = Size /\ RingSlots' = RingSlots
    BY <1>3, <1>6 DEF Size, RingSlots, Backlog, Slot
  <2>2. ASSUME NEW k \in 1..Size PROVE wc'[Slot(k)] = wc[Slot(k)]
    <3>1. k \in Int /\ Size + 1 \in Int /\ k < Size + 1 /\ (Size + 1) - k < MaxSendWr
      BY <1>0, <1>2, <2>0, Indices, SMT
    <3>2. Slot(k) # Slot(Size + 1)
      BY <1>0, <3>1, SlotApart
    <3>3. Slot(k) \in Slots
      BY <1>0, <3>1, SlotType
    <3> QED
      BY <1>0, <1>3, <3>2, <3>3 DEF TypeOK
  <2>3. \A k : Slot(k)' = Slot(k)
    BY <1>3 DEF Slot
  <2>4. Window'
    BY <1>0, <1>3, <1>6, <2>1, <2>2, <2>3 DEF Window
  <2>5. Sent'
    BY <1>0, <1>6, <2>1, SentSame
  <2> QED
    BY <1>0, <1>1, <1>3, <2>4, <2>5 DEF RingInv
<1> QED
  BY <1>3, <1>4, <1>5, <1>6

(* handle_single_completion changes the status of a work request that is   *)
(* in the ring.                                                            *)
LEMMA HcaStep ==
    ASSUME RingInv, NEW q \in QPs, NEW st \in Statuses, handle_single_completion(q, st)
    PROVE  RingInv'
<1>0. TypeOK /\ Window /\ Sent /\ polled < Budget
  BY DEF RingInv
<1>1. TypeOK'
  BY <1>0, TypeHca
<1>2. /\ UNCHANGED <<pi, ci, wc_list, in_use, polled>> /\ hw[q] # <<>>
      /\ hw' = [hw EXCEPT ![q] = Tail(@)] /\ completed' = completed \cup {Head(hw[q])}
      /\ wc' = [wc EXCEPT ![Head(hw[q])].st = st]
  BY DEF handle_single_completion, cq, poll
<1>3. Size' = Size /\ RingSlots' = RingSlots /\ \A k : Slot(k)' = Slot(k)
  BY <1>2 DEF Size, RingSlots, Backlog, Slot
<1>4. Sent' /\ Head(hw[q]) \in RingSlots \ completed
  BY <1>0, <1>2, <1>3, SentDone
<1>5. \A s \in Slots : wc'[s].id = wc[s].id
  BY <1>0, <1>2 DEF TypeOK
<1>6. \A k \in 1..Size : Slot(k) \in Slots
  <2>1. \A k \in 1..Size : k \in Int
    BY <1>0, Indices, SMT
  <2> QED
    BY <1>0, <2>1, SlotType
<1>7. Window'
  BY <1>0, <1>2, <1>3, <1>4, <1>5, <1>6 DEF Window
<1> QED
  BY <1>0, <1>1, <1>2, <1>4, <1>7 DEF RingInv

(* generate_completions, one turn or the end. *)
LEMMA GenerateRing ==
    ASSUME RingInv, WrapsWell, generate_completions
    PROVE  RingInv'
<1>0. TypeOK /\ Window /\ Sent /\ polled < Budget
  BY DEF RingInv
<1>1. TypeOK'
  BY <1>0, TypeGenerate
<1>2. UNCHANGED <<pi, wc, hw, polled>>
  BY <1>0, GenerateMeans DEF poll
<1>3. CASE UNCHANGED <<ci, completed, cq>>
  <2>1. Window' /\ Sent'
    BY <1>0, <1>2, <1>3, RingSame DEF cq
  <2> QED
    BY <1>0, <1>1, <1>2, <2>1 DEF RingInv
<1>4. CASE /\ ci # pi /\ Slot(Len(wc_list) + 1) \in completed
           /\ wc_list' = Append(wc_list, Slot(Len(wc_list) + 1))
           /\ in_use' = in_use \cup {Slot(Len(wc_list) + 1)}
           /\ completed' = completed \ {Slot(Len(wc_list) + 1)}
           /\ ci' = (ci + 1) % W
  <2>1. Window'
    BY <1>0, <1>2, <1>4, WindowGenerate
  <2>2. RingSlots' = RingSlots \ {Slot(Len(wc_list) + 1)}
    BY <1>0, <1>2, <1>4, GeneratedPlaces
  <2>3. RingSlots' \ completed' = RingSlots \ completed
    BY <1>4, <2>2
  <2>4. Sent'
    BY <1>0, <1>2, <2>3, SentSame
  <2> QED
    BY <1>0, <1>1, <1>2, <2>1, <2>4 DEF RingInv
<1> QED
  BY <1>0, <1>3, <1>4, GenerateMeans

(* The consumer: only mlx5_ib_poll_cq moves the window. *)
LEMMA ConsumerRing ==
    ASSUME RingInv, Consumer
    PROVE  RingInv'
<1>0. TypeOK /\ Window /\ Sent /\ polled < Budget
  BY DEF RingInv
<1>1. CASE notify_soft_wc_handler \/ ib_cq_poll_work \/ poll_work_end
  <2>1. UNCHANGED <<ring, setup, hw, wc_list, in_use, polled, out>>
    BY <1>1 DEF notify_soft_wc_handler, ib_cq_poll_work, poll_work_end, cq
  <2>2. /\ notify' \in BOOLEAN /\ nwork' \in BOOLEAN /\ work' \in BOOLEAN
        /\ ppc' \in {"idle", "poll", "arm"}
    BY <1>0, <1>1 DEF notify_soft_wc_handler, ib_cq_poll_work, poll_work_end, mlx5_ib_arm_cq, cq, TypeOK
  <2>3. TypeOK'
    BY <1>0, <2>1, <2>2 DEF TypeOK, ring, setup
  <2>4. Window' /\ Sent'
    BY <1>0, <2>1, RingSame DEF ring
  <2> QED
    BY <1>0, <2>1, <2>3, <2>4 DEF RingInv
<1>2. CASE ib_process_cq
  <2>1. PICK n \in 0..Len(wc_list) : Reported(n)
    BY <1>0, <1>2, ProcessMeans
  <2>2. /\ UNCHANGED <<ring, setup, hw, notify, nwork>>
        /\ polled' \in 0..Budget /\ polled' < Budget
        /\ ppc' \in {"idle", "poll", "arm"} /\ work' \in BOOLEAN
    BY <1>0, <1>2, ProcessMeans
  <2>3. UNCHANGED <<pi, ci, wc, completed>>
    BY <2>2 DEF ring
  <2>4. Window'
    BY <1>0, <2>1, <2>3, WindowReport
  <2>5. RingSlots' = RingSlots /\ wc_list' \in Seq(Slots)
    BY <1>0, <2>1, <2>3, ReportedRing, ReportedPlaces
  <2>6. Sent'
    BY <1>0, <2>2, <2>3, <2>5, SentSame
  <2>7. out' \in Seq([id : WrIds, st : Statuses])
    <3>1. ASSUME NEW k \in 1..n PROVE wc[wc_list[k]] \in [id : WrIds, st : Statuses]
      <4>1. k \in Int /\ k \in 1..Len(wc_list) /\ k \in 1..Size
        BY <1>0, <2>1, <3>1, Indices, SMT DEF Size
      <4>2. wc_list[k] = Slot(k) /\ Slot(k) \in Slots /\ wc[Slot(k)].id \in WrIds
        BY <1>0, <4>1, SlotType DEF Window
      <4> QED
        BY <1>0, <4>2 DEF TypeOK
    <3>2. n \in Nat
      BY <1>0, <2>1, Indices, SMT
    <3>3. out' \in [1..n -> [id : WrIds, st : Statuses]]
      BY <2>1, <3>1 DEF Reported
    <3>4. Seq([id : WrIds, st : Statuses]) = UNION {[1..m -> [id : WrIds, st : Statuses]] : m \in Nat}
      BY SeqDef
    <3> QED
      BY <3>2, <3>3, <3>4
  <2>8. in_use' \subseteq Slots
    BY <1>0, <2>1 DEF Reported, TypeOK
  <2>9. TypeOK'
    BY <1>0, <2>2, <2>5, <2>7, <2>8 DEF TypeOK, ring, setup
  <2> QED
    BY <2>2, <2>4, <2>6, <2>9 DEF RingInv
<1> QED
  BY <1>1, <1>2 DEF Consumer

(* Every step keeps the ring in order. *)
LEMMA NextRingInv ==
    ASSUME RingInv, WrapsWell, [Next]_vars
    PROVE  RingInv'
<1>0. TypeOK /\ Window /\ Sent /\ polled < Budget
  BY DEF RingInv
<1>1. CASE UNCHANGED vars
  <2>1. TypeOK' /\ polled' = polled
    BY <1>0, <1>1 DEF TypeOK, vars, ring, setup, cq, poll
  <2>2. Window' /\ Sent'
    BY <1>0, <1>1, RingSame DEF vars, ring, cq
  <2> QED
    BY <1>0, <2>1, <2>2 DEF RingInv
<1>2. ASSUME NEW a \in Callers, Setup(a) PROVE RingInv'
  <2>1. UNCHANGED <<ring, hw, cq, poll>>
    BY <1>2 DEF Setup, setup_begin, setup_qp, setup_qp_end
  <2>2. Window' /\ Sent'
    BY <1>0, <2>1, RingSame DEF ring, cq
  <2>3. TypeOK'
    BY <1>0, <1>2, TypeSetup
  <2> QED
    BY <1>0, <2>1, <2>2, <2>3 DEF RingInv, poll
<1> QED
  BY <1>1, <1>2, PostStep, HcaStep, GenerateRing, ConsumerRing DEF Next, Hca

(* The types when the QP is created. *)
LEMMA InitTypes == Init => TypeOK /\ polled < Budget
<1> SUFFICES ASSUME Init PROVE TypeOK /\ polled < Budget
  OBVIOUS
<1>1. polled \in 0..Budget /\ polled < Budget /\ pi \in 0..(W - 1) /\ ci \in 0..(W - 1)
  BY GsiAssumption, SMT DEF Init
<1>2. 1 \in 1..NumQps
  BY GsiAssumption, SMT
<1>3. /\ hw \in [QPs -> Seq(Slots)] /\ wc_list \in Seq(Slots)
      /\ out \in Seq([id : WrIds, st : Statuses])
  BY SMT DEF Init
<1>4. wc \in [Slots -> [id : WrIds \cup {Null}, st : Statuses]]
  BY SMT DEF Init, Statuses
<1>5. /\ sidx \in [Callers -> 1..NumQps] /\ sqp \in [Callers -> QPs \cup {Null}]
      /\ spc \in [Callers -> {"idle", "setup", "created", "done"}]
      /\ tx_qps \in [1..NumQps -> QPs \cup {Null}]
  BY <1>2 DEF Init
<1>6. /\ completed \subseteq Slots /\ in_use \subseteq Slots /\ gen \in BOOLEAN
      /\ made \subseteq QPs /\ notify \in BOOLEAN /\ nwork \in BOOLEAN
      /\ work \in BOOLEAN /\ ppc \in {"idle", "poll", "arm"}
  BY DEF Init
<1> QED
  BY <1>1, <1>3, <1>4, <1>5, <1>6 DEF TypeOK

(* It is in order when the QP is created. *)
LEMMA InitRingInv == Init => RingInv
<1> SUFFICES ASSUME Init PROVE RingInv
  OBVIOUS
<1>1. TypeOK /\ polled < Budget
  BY InitTypes
<1>2. pi = ci /\ Len(wc_list) = 0
  BY DEF Init
<1>3. Backlog = 0
  BY <1>1, <1>2, EmptyRing
<1>4. Size = 0
  BY <1>2, <1>3, SMT DEF Size
<1>5. RingSlots = {}
  BY <1>2, <1>4, SMT DEF RingSlots
<1>6. Window
  BY <1>2, <1>4, <1>5, Indices, <1>1, SMT DEF Window, Init
<1>7. \A q \in QPs : Range(hw[q]) = {} /\ IsInjective(hw[q])
  BY SMT DEF Init, Range, IsInjective
<1>8. Sent
  BY <1>5, <1>7 DEF Sent
<1> QED
  BY <1>1, <1>6, <1>8 DEF RingInv

(* So do the indices. *)
LEMMA InitWraps == Init => WrapsWell
BY SMT DEF Init, WrapsWell

----------------------------------------------------------------------------
(* Types, with no condition on the wrap of the indices. A slot that will   *)
(* be polled has had a work request, even if it was given to two.          *)
Named(s) == wc[s].id \in WrIds

(* The inductive invariant of type correctness. *)
TypeInv ==
    /\ TypeOK /\ polled < Budget
    /\ \A s \in completed : Named(s)
    /\ \A k \in 1..Len(wc_list) : Named(wc_list[k])
    /\ \A q \in QPs : \A k \in 1..Len(hw[q]) : Named(hw[q][k])

(* The lists of slots are lists of slots. *)
LEMMA ListedSlots ==
    ASSUME TypeOK
    PROVE  /\ \A k \in 1..Len(wc_list) : wc_list[k] \in Slots
           /\ \A q \in QPs : \A k \in 1..Len(hw[q]) : hw[q][k] \in Slots
<1>1. wc_list \in Seq(Slots) /\ \A q \in QPs : hw[q] \in Seq(Slots)
  BY DEF TypeOK
<1> QED
  BY <1>1, ElementOfSeq

(* mlx5_ib_gsi_post_send writes the wr_id of the slot it takes. *)
LEMMA PostTypes ==
    ASSUME TypeInv, NEW i \in 1..(NumQps + 1), NEW id \in WrIds, Post(i, id)
    PROVE  TypeInv'
<1>0. TypeOK /\ polled < Budget
  BY DEF TypeInv
<1>1. TypeOK'
  BY <1>0, TypePost
<1>2. PICK s \in Slots : s = pi % MaxSendWr
  <2>1. pi % MaxSendWr \in 0..(MaxSendWr - 1)
    BY <1>0, IndexInts, Sizes, ModType
  <2> QED
    BY <2>1 DEF Slots
<1>3. /\ UNCHANGED <<wc_list, polled>>
      /\ wc' = [wc EXCEPT ![s] = [id |-> id, st |-> "SUCCESS"]]
      /\ completed' \in {completed, completed \cup {s}}
      /\ hw' = hw \/ \E q \in QPs : hw' = [hw EXCEPT ![q] = Append(@, s)]
  BY <1>0, <1>2, PostMeans DEF cq, poll
<1>4. \A x \in Slots : Named(x)' = (Named(x) \/ x = s)
  <2>1. \A x \in Slots : wc'[x] = IF x = s THEN [id |-> id, st |-> "SUCCESS"] ELSE wc[x]
    BY <1>0, <1>3 DEF TypeOK
  <2> QED
    BY <2>1, SMT DEF Named
<1>5. \A x \in completed' : Named(x)'
  BY <1>0, <1>2, <1>3, <1>4 DEF TypeInv, TypeOK
<1>6. \A k \in 1..Len(wc_list') : wc'[wc_list'[k]].id \in WrIds
  <2>1. \A k \in 1..Len(wc_list) : wc'[wc_list[k]].id \in WrIds
    BY <1>0, <1>4, ListedSlots DEF TypeInv, Named
  <2> QED
    BY <1>3, <2>1
<1>7. ASSUME NEW q \in QPs, NEW k \in 1..Len(hw'[q]) PROVE wc'[hw'[q][k]].id \in WrIds
  <2>1. CASE hw'[q] = hw[q]
    <3>1. k \in 1..Len(hw[q]) /\ hw'[q][k] = hw[q][k]
      BY <1>7, <2>1
    <3>2. Named(hw[q][k]) /\ hw[q][k] \in Slots
      BY <1>0, <3>1, ListedSlots DEF TypeInv
    <3>3. wc'[hw[q][k]].id \in WrIds
      BY <1>4, <3>2 DEF Named
    <3> QED
      BY <3>1, <3>3
  <2>2. CASE hw'[q] = Append(hw[q], s)
    <3>0. hw[q] \in Seq(Slots)
      BY <1>0 DEF TypeOK
    <3>1. \/ k \in 1..Len(hw[q]) /\ hw'[q][k] = hw[q][k]
          \/ hw'[q][k] = s
      BY <1>7, <2>2, <3>0, AppendProperties, LenProperties, SMT
    <3>2. k \in 1..Len(hw[q]) => Named(hw[q][k]) /\ hw[q][k] \in Slots
      BY <1>0, ListedSlots DEF TypeInv
    <3>3. hw'[q][k] \in Slots /\ (Named(hw'[q][k]) \/ hw'[q][k] = s)
      BY <1>2, <3>1, <3>2
    <3> QED
      BY <1>4, <3>3 DEF Named
  <2>3. hw'[q] = hw[q] \/ hw'[q] = Append(hw[q], s)
    BY <1>0, <1>3 DEF TypeOK
  <2> QED
    BY <2>1, <2>2, <2>3
<1> QED
  BY <1>0, <1>1, <1>3, <1>5, <1>6, <1>7 DEF TypeInv, Named

(* The other steps of the ring write no wr_id. *)
LEMMA SameNames ==
    ASSUME TypeInv, TypeOK', polled' < Budget,
           \A x \in Slots : wc'[x].id = wc[x].id,
           \A x \in completed' : Named(x),
           \A k \in 1..Len(wc_list') : Named(wc_list'[k]),
           \A q \in QPs : \A k \in 1..Len(hw'[q]) : Named(hw'[q][k])
    PROVE  TypeInv'
<1>1. completed' \subseteq Slots /\ wc_list' \in Seq(Slots) /\ \A q \in QPs : hw'[q] \in Seq(Slots)
  BY DEF TypeOK, Slots
<1>2. /\ \A k \in 1..Len(wc_list') : wc_list'[k] \in Slots
      /\ \A q \in QPs : \A k \in 1..Len(hw'[q]) : hw'[q][k] \in Slots
  BY <1>1, ElementOfSeq
<1>3. \A x \in completed' : wc'[x].id \in WrIds
  BY <1>1 DEF Named
<1>4. \A k \in 1..Len(wc_list') : wc'[wc_list'[k]].id \in WrIds
  BY <1>2 DEF Named
<1>5. \A q \in QPs : \A k \in 1..Len(hw'[q]) : wc'[hw'[q][k]].id \in WrIds
  BY <1>2 DEF Named
<1> QED
  BY <1>3, <1>4, <1>5 DEF TypeInv, Named

(* handle_single_completion. *)
LEMMA HcaTypes ==
    ASSUME TypeInv, NEW q \in QPs, NEW st \in Statuses, handle_single_completion(q, st)
    PROVE  TypeInv'
<1>0. TypeOK /\ polled < Budget
  BY DEF TypeInv
<1>1. TypeOK'
  BY <1>0, TypeHca
<1>2. /\ UNCHANGED <<wc_list, polled>> /\ hw[q] # <<>>
      /\ hw' = [hw EXCEPT ![q] = Tail(@)] /\ completed' = completed \cup {Head(hw[q])}
      /\ wc' = [wc EXCEPT ![Head(hw[q])].st = st]
  BY DEF handle_single_completion, cq, poll
<1>3. hw[q] \in Seq(Slots)
  BY <1>0 DEF TypeOK
<1>4. /\ Len(hw[q]) \in Nat /\ 1 \in 1..Len(hw[q]) /\ Head(hw[q]) = hw[q][1]
      /\ Len(Tail(hw[q])) = Len(hw[q]) - 1
      /\ \A k \in 1..(Len(hw[q]) - 1) : Tail(hw[q])[k] = hw[q][k + 1] /\ k + 1 \in 1..Len(hw[q])
  <2>1. Len(hw[q]) \in Nat \ {0}
    BY <1>2, <1>3, LenProperties, EmptySeq, SMT
  <2>2. Head(hw[q]) = hw[q][1] /\ Len(Tail(hw[q])) = Len(hw[q]) - 1
    BY <1>2, <1>3, HeadTailProperties, SMT
  <2>3. \A k \in 1..(Len(hw[q]) - 1) : Tail(hw[q])[k] = hw[q][k + 1]
    BY <1>2, <1>3, <2>2, HeadTailProperties, SMT
  <2>4. 1 \in 1..Len(hw[q]) /\ \A k \in 1..(Len(hw[q]) - 1) : k + 1 \in 1..Len(hw[q])
    BY <2>1, SMT
  <2> QED
    BY <2>1, <2>2, <2>3, <2>4
<1>5. \A x \in Slots : wc'[x].id = wc[x].id
  BY <1>0, <1>2 DEF TypeOK
<1>6. \A x \in completed' : Named(x)
  <2>1. Named(hw[q][1])
    BY <1>4 DEF TypeInv
  <2> QED
    BY <1>2, <1>4, <2>1 DEF TypeInv
<1>7. ASSUME NEW p \in QPs, NEW k \in 1..Len(hw'[p]) PROVE Named(hw'[p][k])
  <2>1. CASE p = q
    <3>1. hw'[p] = Tail(hw[q])
      BY <1>0, <1>2, <2>1 DEF TypeOK
    <3>2. k \in 1..(Len(hw[q]) - 1)
      BY <1>4, <1>7, <3>1
    <3>3. hw'[p][k] = hw[q][k + 1] /\ k + 1 \in 1..Len(hw[q])
      BY <1>4, <3>1, <3>2
    <3> QED
      BY <3>3 DEF TypeInv
  <2>2. CASE p # q
    <3>1. hw'[p] = hw[p]
      BY <1>0, <1>2, <2>2 DEF TypeOK
    <3> QED
      BY <1>7, <3>1 DEF TypeInv
  <2> QED
    BY <2>1, <2>2
<1>8. \A k \in 1..Len(wc_list') : Named(wc_list'[k])
  BY <1>2 DEF TypeInv
<1> QED
  BY <1>0, <1>1, <1>2, <1>5, <1>6, <1>7, <1>8, SameNames

(* generate_completions lists a slot that is complete. *)
LEMMA GenerateTypes ==
    ASSUME TypeInv, generate_completions
    PROVE  TypeInv'
<1>0. TypeOK /\ polled < Budget
  BY DEF TypeInv
<1>1. TypeOK'
  BY <1>0, TypeGenerate
<1>2. UNCHANGED <<wc, hw, polled>>
  BY <1>0, GenerateMeans DEF poll
<1>3. \A q \in QPs : \A k \in 1..Len(hw'[q]) : Named(hw'[q][k])
  BY <1>2 DEF TypeInv
<1>4. CASE UNCHANGED <<ci, completed, cq>>
  <2>1. /\ \A x \in completed' : Named(x)
        /\ \A k \in 1..Len(wc_list') : Named(wc_list'[k])
    BY <1>4 DEF cq, TypeInv
  <2> QED
    BY <1>0, <1>1, <1>2, <1>3, <2>1, SameNames
<1>5. ASSUME NEW s \in completed, wc_list' = Append(wc_list, s), completed' = completed \ {s}
      PROVE  TypeInv'
  <2>1. \A x \in completed' : Named(x)
    BY <1>5 DEF TypeInv
  <2>2. wc_list \in Seq(Slots) /\ s \in Slots /\ Named(s)
    BY <1>0 DEF TypeOK, TypeInv
  <2>3. ASSUME NEW k \in 1..Len(wc_list') PROVE Named(wc_list'[k])
    <3>1. (k \in 1..Len(wc_list) /\ wc_list'[k] = wc_list[k]) \/ wc_list'[k] = s
      BY <1>5, <2>2, <2>3, AppendProperties, LenProperties, SMT
    <3> QED
      BY <2>2, <3>1 DEF TypeInv
  <2> QED
    BY <1>0, <1>1, <1>2, <1>3, <2>1, <2>3, SameNames
<1> QED
  BY <1>0, <1>4, <1>5, GenerateMeans

(* A poll returns completions of slots that had a work request. *)
LEMMA ConsumerTypes ==
    ASSUME TypeInv, Consumer
    PROVE  TypeInv'
<1>0. TypeOK /\ polled < Budget
  BY DEF TypeInv
<1>1. CASE notify_soft_wc_handler \/ ib_cq_poll_work \/ poll_work_end
  <2>1. UNCHANGED <<ring, setup, hw, wc_list, in_use, polled, out>>
    BY <1>1 DEF notify_soft_wc_handler, ib_cq_poll_work, poll_work_end, cq
  <2>2. /\ notify' \in BOOLEAN /\ nwork' \in BOOLEAN /\ work' \in BOOLEAN
        /\ ppc' \in {"idle", "poll", "arm"}
    BY <1>0, <1>1 DEF notify_soft_wc_handler, ib_cq_poll_work, poll_work_end, mlx5_ib_arm_cq, cq, TypeOK
  <2>3. TypeOK'
    BY <1>0, <2>1, <2>2 DEF TypeOK, ring, setup
  <2> QED
    BY <1>0, <2>1, <2>3 DEF TypeInv, Named, ring
<1>2. CASE ib_process_cq
  <2>1. PICK n \in 0..Len(wc_list) : Reported(n)
    BY <1>0, <1>2, ProcessMeans
  <2>2. /\ UNCHANGED <<ring, setup, hw, notify, nwork>>
        /\ polled' \in 0..Budget /\ polled' < Budget
        /\ ppc' \in {"idle", "poll", "arm"} /\ work' \in BOOLEAN
    BY <1>0, <1>2, ProcessMeans
  <2>3. UNCHANGED <<pi, ci, wc, completed>>
    BY <2>2 DEF ring
  <2>4. /\ wc_list' \in Seq(Slots) /\ Len(wc_list') = Len(wc_list) - n
        /\ \A k \in 1..(Len(wc_list) - n) : wc_list'[k] = wc_list[k + n]
    BY <1>0, <2>1, <2>3, ReportedPlaces
  <2>5. n \in Nat /\ Len(wc_list) \in Nat
    BY <1>0, <2>1, Indices, SMT
  <2>6. out' \in Seq([id : WrIds, st : Statuses])
    <3>1. ASSUME NEW k \in 1..n PROVE wc[wc_list[k]] \in [id : WrIds, st : Statuses]
      <4>1. k \in 1..Len(wc_list)
        BY <2>1, <2>5, <3>1, SMT
      <4>2. wc_list[k] \in Slots /\ wc[wc_list[k]].id \in WrIds
        BY <1>0, <4>1, ListedSlots DEF TypeInv, Named
      <4> QED
        BY <1>0, <4>2 DEF TypeOK
    <3>2. out' \in [1..n -> [id : WrIds, st : Statuses]]
      BY <2>1, <3>1 DEF Reported
    <3>3. Seq([id : WrIds, st : Statuses]) = UNION {[1..m -> [id : WrIds, st : Statuses]] : m \in Nat}
      BY SeqDef
    <3> QED
      BY <2>5, <3>2, <3>3
  <2>7. in_use' \subseteq Slots
    BY <1>0, <2>1 DEF Reported, TypeOK
  <2>8. TypeOK'
    BY <1>0, <2>2, <2>4, <2>6, <2>7 DEF TypeOK, ring, setup
  <2>9. ASSUME NEW k \in 1..Len(wc_list') PROVE Named(wc_list'[k])
    <3>1. k \in 1..(Len(wc_list) - n) /\ k + n \in 1..Len(wc_list)
      BY <2>4, <2>5, <2>9, SMT
    <3> QED
      BY <2>4, <3>1 DEF TypeInv
  <2>10. /\ \A x \in completed' : Named(x)
         /\ \A q \in QPs : \A k \in 1..Len(hw'[q]) : Named(hw'[q][k])
    BY <2>2, <2>3 DEF TypeInv
  <2> QED
    BY <2>2, <2>3, <2>8, <2>9, <2>10, SameNames
<1> QED
  BY <1>1, <1>2 DEF Consumer

(* Every step keeps the types. *)
LEMMA NextTypeInv ==
    ASSUME TypeInv, [Next]_vars
    PROVE  TypeInv'
<1>0. TypeOK /\ polled < Budget
  BY DEF TypeInv
<1>1. CASE UNCHANGED vars
  BY <1>1 DEF TypeInv, Named, TypeOK, vars, ring, setup, cq, poll
<1>2. ASSUME NEW a \in Callers, Setup(a) PROVE TypeInv'
  <2>1. UNCHANGED <<ring, hw, cq, poll>>
    BY <1>2 DEF Setup, setup_begin, setup_qp, setup_qp_end
  <2>2. TypeOK'
    BY <1>0, <1>2, TypeSetup
  <2> QED
    BY <2>1, <2>2 DEF TypeInv, Named, ring, cq, poll
<1> QED
  BY <1>1, <1>2, PostTypes, HcaTypes, GenerateTypes, ConsumerTypes DEF Next, Hca

(* The types are right when the QP is created. *)
LEMMA InitTypeInv == Init => TypeInv
<1> SUFFICES ASSUME Init PROVE TypeInv
  OBVIOUS
<1>1. TypeOK /\ polled < Budget
  BY InitTypes
<1>2. completed = {} /\ Len(wc_list) = 0 /\ \A q \in QPs : Len(hw[q]) = 0
  BY SMT DEF Init
<1>3. 1..0 = {}
  BY SMT
<1> QED
  BY <1>1, <1>2, <1>3 DEF TypeInv

----------------------------------------------------------------------------
(* What the user of the QP sees. *)

(* The completion of the k-th work request can be reported. *)
Done(k) == k <= Len(wc_list) \/ Slot(k) \in completed

(* The k-th work request as the user will see it. *)
View(k) ==
    [id |-> wc[Slot(k)].id, st |-> IF Done(k) THEN wc[Slot(k)].st ELSE "POSTED"]

(* An element of Pending. *)
Entries == [id : WrIds, st : Statuses \cup {"POSTED"}]

(* Pending, work request by work request. *)
PendingIs ==
    /\ Pending \in Seq(Entries) /\ Len(Pending) = Size
    /\ \A k \in 1..Size : Pending[k] = View(k) /\ View(k) \in Entries

(* The window holds what is pending. *)
LEMMA RingPending == RingInv /\ WrapsWell => PendingIs
<1> SUFFICES ASSUME RingInv, WrapsWell PROVE PendingIs
  OBVIOUS
<1>0. TypeOK /\ Window
  BY DEF RingInv
<1>1. /\ Len(wc_list) \in Nat /\ Backlog \in Nat /\ Size \in Nat
      /\ Size = Len(wc_list) + Backlog
  BY <1>0, Indices, SMT DEF Size
<1>2. ASSUME NEW k \in 1..Size PROVE Slot(k) \in Slots /\ View(k) \in Entries
  <2>1. k \in Int
    BY <1>1, SMT
  <2>2. Slot(k) \in Slots
    BY <1>0, <2>1, SlotType
  <2>3. wc[Slot(k)].id \in WrIds /\ wc[Slot(k)].st \in Statuses
    BY <1>0, <2>2 DEF Window, TypeOK
  <2> QED
    BY <2>2, <2>3 DEF View, Entries
<1> DEFINE f == [k \in 1..Len(wc_list) |-> wc[wc_list[k]]]
           g == [k \in 1..Len(Outstanding) |-> Entry(Outstanding[k])]
<1>3. ASSUME NEW k \in 1..Len(wc_list) PROVE wc[wc_list[k]] = View(k) /\ View(k) \in Entries
  <2>1. k \in 1..Size /\ k <= Len(wc_list)
    BY <1>1, SMT
  <2>2. wc_list[k] = Slot(k) /\ Slot(k) \in Slots /\ View(k) \in Entries
    BY <1>0, <1>2, <2>1 DEF Window
  <2>3. wc[Slot(k)] = [id |-> wc[Slot(k)].id, st |-> wc[Slot(k)].st]
    BY <1>0, <2>2 DEF TypeOK
  <2>4. Done(k)
    BY <2>1 DEF Done
  <2> QED
    BY <2>2, <2>3, <2>4 DEF View
<1>4. ASSUME NEW k \in 1..Backlog
      PROVE  Entry(Outstanding[k]) = View(Len(wc_list) + k) /\ View(Len(wc_list) + k) \in Entries
  <2>1. PICK j : j = Len(wc_list) + k
    OBVIOUS
  <2>2. j \in 1..Size /\ ~(j <= Len(wc_list))
    BY <1>1, <2>1, SMT
  <2>3. Outstanding[k] % MaxSendWr = Slot(j)
    BY <1>0, <2>1, OutstandingIs
  <2>4. Done(j) <=> Slot(j) \in completed
    BY <2>2 DEF Done
  <2>5. Entry(Outstanding[k]) = View(j)
    BY <2>3, <2>4 DEF Entry, View
  <2> QED
    BY <1>2, <2>1, <2>2, <2>5
<1>5. Len(Outstanding) = Backlog
  BY <1>0, OutstandingIs
<1>6. /\ f \in Seq(Entries) /\ Len(f) = Len(wc_list)
      /\ \A k \in 1..Len(wc_list) : f[k] = View(k)
  <2>1. f \in [1..Len(wc_list) -> Entries]
    BY <1>3
  <2> QED
    BY <1>1, <1>3, <2>1, SeqDef, SMT
<1>7. /\ g \in Seq(Entries) /\ Len(g) = Backlog
      /\ \A k \in 1..Backlog : g[k] = View(Len(wc_list) + k)
  <2>1. g \in [1..Backlog -> Entries]
    BY <1>4, <1>5
  <2>2. g \in Seq(Entries) /\ Len(g) = Backlog
    BY <1>1, <1>5, <2>1, SeqDef, SMT
  <2> QED
    BY <1>4, <1>5, <2>2
<1>8. Pending = f \o g
  BY DEF Pending
<1> HIDE DEF f, g
<1>9. /\ f \o g \in Seq(Entries) /\ Len(f \o g) = Size
      /\ \A i \in 1..Size : (f \o g)[i] = IF i <= Len(wc_list) THEN f[i] ELSE g[i - Len(wc_list)]
  <2>1. Len(f) + Len(g) = Size
    BY <1>1, <1>6, <1>7
  <2>2. /\ f \o g \in Seq(Entries) /\ Len(f \o g) = Len(f) + Len(g)
        /\ \A i \in 1..(Len(f) + Len(g)) : (f \o g)[i] = IF i <= Len(f) THEN f[i] ELSE g[i - Len(f)]
    <3>1. f \in Seq(Entries) /\ g \in Seq(Entries)
      BY <1>6, <1>7
    <3> QED
      BY <3>1, ConcatProperties
  <2> QED
    BY <1>6, <2>1, <2>2
<1>10. ASSUME NEW k \in 1..Size PROVE Pending[k] = View(k)
  <2>1. CASE k <= Len(wc_list)
    <3>1. k \in 1..Len(wc_list)
      BY <1>1, <2>1, SMT
    <3> QED
      BY <1>6, <1>8, <1>9, <2>1, <3>1
  <2>2. CASE ~(k <= Len(wc_list))
    <3>1. PICK j : j = k - Len(wc_list)
      OBVIOUS
    <3>2. j \in 1..Backlog /\ Len(wc_list) + j = k
      BY <1>1, <2>2, <3>1, SMT
    <3>3. Pending[k] = g[j]
      BY <1>8, <1>9, <2>2, <3>1
    <3> QED
      BY <1>7, <3>2, <3>3
  <2> QED
    BY <2>1, <2>2
<1> QED
  BY <1>2, <1>8, <1>9, <1>10 DEF PendingIs

(* A sequence that is longer by one element at the end. *)
LEMMA Appended ==
    ASSUME NEW S, NEW s \in Seq(S), NEW t \in Seq(S), NEW e \in S,
           Len(t) = Len(s) + 1, \A k \in 1..Len(s) : t[k] = s[k], t[Len(s) + 1] = e
    PROVE  t = Append(s, e)
<1>1. /\ Append(s, e) \in Seq(S) /\ Len(Append(s, e)) = Len(s) + 1 /\ Len(s) \in Nat
      /\ \A k \in 1..Len(s) : Append(s, e)[k] = s[k]
      /\ Append(s, e)[Len(s) + 1] = e
  BY AppendProperties, LenProperties, SMT
<1>2. \A k \in 1..(Len(s) + 1) : k = Len(s) + 1 \/ k \in 1..Len(s)
  BY <1>1, SMT
<1>3. \A k \in 1..Len(t) : t[k] = Append(s, e)[k]
  BY <1>1, <1>2
<1> QED
  BY <1>1, <1>3, SeqEqual

(* The QP starts with nothing pending. *)
LEMMA FifoInit == Init => Fifo!Init
<1> SUFFICES ASSUME Init PROVE Fifo!Init
  OBVIOUS
<1>1. RingInv /\ WrapsWell
  BY InitRingInv, InitWraps
<1>2. Pending \in Seq(Entries) /\ Len(Pending) = Size
  BY <1>1, RingPending DEF PendingIs
<1>3. Size = 0
  <2>1. TypeOK /\ pi = ci /\ Len(wc_list) = 0
    BY <1>1 DEF RingInv, Init
  <2> QED
    BY <2>1, EmptyRing, SMT DEF Size
<1>4. Pending = <<>>
  BY <1>2, <1>3, EmptySeq
<1> QED
  BY <1>4 DEF Fifo!Init, Init

(* A step that changes nothing the user sees. *)
LEMMA FifoSame ==
    ASSUME PendingIs, PendingIs', Size' = Size, out' = out,
           \A k \in 1..Size : View(k)' = View(k)
    PROVE  UNCHANGED <<Pending, out>>
<1>1. \A k \in 1..Size : Pending'[k] = Pending[k]
  BY DEF PendingIs
<1>2. /\ Pending \in Seq(Entries) /\ Pending' \in Seq(Entries)
      /\ Len(Pending) = Size /\ Len(Pending') = Size
  BY DEF PendingIs, Entries, Statuses
<1>3. Pending' = Pending
  BY <1>1, <1>2, SeqEqual
<1> QED
  BY <1>3

(* The view of a request is determined by the ring. *)
LEMMA ViewSame ==
    ASSUME UNCHANGED <<pi, ci, wc, completed, wc_list>>
    PROVE  Size' = Size /\ \A k : View(k)' = View(k)
BY DEF Size, View, Backlog, Slot, Done

(* A work request is accepted, as done when it is dropped, or ib_post_send *)
(* failed and nothing happened.                                            *)
LEMMA FifoPost ==
    ASSUME RingInv, WrapsWell, RingInv', PendingIs, PendingIs',
           NEW i \in 1..(NumQps + 1), NEW id \in WrIds, Post(i, id)
    PROVE  Fifo!Accept \/ UNCHANGED <<Pending, out>>
<1>0. TypeOK /\ Window
  BY DEF RingInv
<1>1. Size < MaxSendWr /\ Size \in Nat /\ MaxSendWr \in Nat
  BY <1>0, PostMeans, RoomMeans, Indices
<1>2. /\ UNCHANGED <<ci, wc_list, out>>
      /\ wc' = [wc EXCEPT ![Slot(Size + 1)] = [id |-> id, st |-> "SUCCESS"]]
      /\ \/ /\ pi' = (pi + 1) % W /\ completed' \in {completed, completed \cup {Slot(Size + 1)}}
         \/ UNCHANGED <<pi, completed>>
  <2>1. pi % MaxSendWr = Slot(Size + 1)
    BY <1>0, PiSlot
  <2>2. UNCHANGED <<ci, wc_list, out>>
    BY <1>0, PostMeans DEF cq, poll
  <2> QED
    BY <1>0, <2>1, <2>2, PostMeans
<1>3. ASSUME NEW k \in 1..Size PROVE Slot(k) \in Slots /\ Slot(k) # Slot(Size + 1)
  <2>1. k \in Int /\ Size + 1 \in Int /\ k < Size + 1 /\ (Size + 1) - k < MaxSendWr
    BY <1>1, SMT
  <2> QED
    BY <1>0, <2>1, SlotApart, SlotType
<1>4. \A k : Slot(k)' = Slot(k)
  BY <1>2 DEF Slot
<1>5. ASSUME NEW k \in 1..Size PROVE View(k)' = View(k)
  <2>1. wc'[Slot(k)] = wc[Slot(k)]
    BY <1>0, <1>2, <1>3 DEF TypeOK
  <2>2. Done(k)' <=> Done(k)
    BY <1>2, <1>3, <1>4 DEF Done
  <2> QED
    BY <1>4, <2>1, <2>2 DEF View
<1>6. CASE pi' = (pi + 1) % W
  <2>1. Size' = Size + 1 /\ Size + 1 \in 1..Size'
    BY <1>0, <1>1, <1>2, <1>6, AcceptedPlaces, SMT
  <2>2. /\ Pending \in Seq(Entries) /\ Len(Pending) = Size
        /\ \A k \in 1..Size : Pending[k] = View(k)
    BY DEF PendingIs
  <2>3. /\ Pending' \in Seq(Entries) /\ Len(Pending') = Size + 1
        /\ \A k \in 1..(Size + 1) : Pending'[k] = View(k)' /\ View(k)' \in Entries
    BY <2>1 DEF PendingIs, Entries, Statuses
  <2>4. PICK e \in Entries : Pending'[Size + 1] = e
    BY <1>1, <2>1, <2>3
  <2>5. \A k \in 1..Size : Pending'[k] = Pending[k]
    BY <1>1, <1>5, <2>2, <2>3, SMT
  <2>6. Pending' = Append(Pending, e)
    BY <2>2, <2>3, <2>4, <2>5, Appended, SMT
  <2>7. e.id \in WrIds /\ e.st \in Statuses \cup {"POSTED"} /\ e = [id |-> e.id, st |-> e.st]
    BY <2>4 DEF Entries
  <2> QED
    BY <1>2, <2>6, <2>7 DEF Fifo!Accept
<1>7. CASE UNCHANGED <<pi, completed>>
  <2>1. Size' = Size
    BY <1>2, <1>7 DEF Size, Backlog
  <2> QED
    BY <1>2, <1>5, <2>1, FifoSame
<1> QED
  BY <1>2, <1>6, <1>7

(* The HCA is done with a work request: the one in the slot, which is not  *)
(* done and not in any other place of the window.                          *)
LEMMA FifoHca ==
    ASSUME RingInv, RingInv', PendingIs, PendingIs',
           NEW q \in QPs, NEW st \in Statuses, handle_single_completion(q, st)
    PROVE  Fifo!Finish
<1>0. TypeOK /\ Window /\ Sent
  BY DEF RingInv
<1>1. /\ UNCHANGED <<pi, ci, wc_list, out>> /\ hw[q] # <<>>
      /\ hw' = [hw EXCEPT ![q] = Tail(@)] /\ completed' = completed \cup {Head(hw[q])}
      /\ wc' = [wc EXCEPT ![Head(hw[q])].st = st]
  BY DEF handle_single_completion, cq, poll
<1>2. Size' = Size /\ RingSlots' = RingSlots /\ \A k : Slot(k)' = Slot(k)
  BY <1>1 DEF Size, RingSlots, Backlog, Slot
<1>3. Head(hw[q]) \in RingSlots \ completed
  BY <1>0, <1>1, <1>2, SentDone
<1>4. PICK j \in (Len(wc_list) + 1)..Size : Head(hw[q]) = Slot(j)
  BY <1>3 DEF RingSlots
<1>5. /\ Len(wc_list) \in Nat /\ Size \in Nat /\ MaxSendWr \in Nat /\ Size <= MaxSendWr
  BY <1>0, Indices DEF Window
<1>6. j \in 1..Size /\ ~(j <= Len(wc_list))
  BY <1>4, <1>5, SMT
<1>7. ASSUME NEW k \in 1..Size PROVE Slot(k) \in Slots
  <2>1. k \in Int
    BY <1>5, SMT
  <2> QED
    BY <1>0, <2>1, SlotType
<1>8. ASSUME NEW k \in 1..Size, k # j PROVE Slot(k) # Slot(j)
  <2>1. k \in 1..MaxSendWr /\ j \in 1..MaxSendWr
    BY <1>5, <1>6, SMT
  <2> QED
    BY <1>0, <1>8, <2>1, SlotInjective
<1>9. ASSUME NEW k \in 1..Size, k # j PROVE View(k)' = View(k)
  <2>0. Slot(k) # Slot(j) /\ Slot(k) \in Slots
    BY <1>7, <1>8, <1>9
  <2>1. wc'[Slot(k)] = wc[Slot(k)]
    BY <1>0, <1>1, <1>4, <2>0 DEF TypeOK
  <2>2. Done(k)' <=> Done(k)
    BY <1>1, <1>2, <1>4, <2>0 DEF Done
  <2> QED
    BY <1>2, <2>1, <2>2 DEF View
<1>10. View(j).st = "POSTED" /\ View(j)' = [View(j) EXCEPT !.st = st]
  <2>1. ~Done(j) /\ Done(j)'
    BY <1>1, <1>2, <1>3, <1>4, <1>6 DEF Done
  <2>2. wc'[Slot(j)].id = wc[Slot(j)].id /\ wc'[Slot(j)].st = st
    BY <1>0, <1>1, <1>4, <1>6, <1>7 DEF TypeOK
  <2> QED
    BY <1>2, <2>1, <2>2, SMT DEF View
<1>11. /\ Pending \in Seq(Entries) /\ Len(Pending) = Size
       /\ \A k \in 1..Size : Pending[k] = View(k) /\ View(k) \in Entries
  BY DEF PendingIs
<1>12. /\ Pending' \in Seq(Entries) /\ Len(Pending') = Size
       /\ \A k \in 1..Size : Pending'[k] = View(k)' /\ View(k)' \in Entries
  BY <1>2 DEF PendingIs, Entries, Statuses
<1>13. PICK e \in Entries : e = [Pending[j] EXCEPT !.st = st] /\ Pending'[j] = e
  BY <1>6, <1>10, <1>11, <1>12
<1>14. \A k \in 1..Size : k # j => Pending'[k] = Pending[k]
  BY <1>9, <1>11, <1>12
<1>15. Pending' = [Pending EXCEPT ![j] = e]
  <2>1. /\ [Pending EXCEPT ![j] = e] \in Seq(Entries)
        /\ Len([Pending EXCEPT ![j] = e]) = Size
        /\ \A k \in 1..Size : [Pending EXCEPT ![j] = e][k] = IF k = j THEN e ELSE Pending[k]
    BY <1>6, <1>11, ExceptSeq, SMT
  <2>2. \A k \in 1..Size : [Pending EXCEPT ![j] = e][k] = Pending'[k]
    BY <1>13, <1>14, <2>1
  <2> QED
    BY <1>12, <2>1, <2>2, SeqEqual
<1>16. Pending' = [Pending EXCEPT ![j].st = st]
  BY <1>13, <1>15
<1>17. j \in DOMAIN Pending /\ Pending[j].st = "POSTED"
  BY <1>6, <1>10, <1>11, LenProperties
<1> QED
  BY <1>1, <1>16, <1>17 DEF Fifo!Finish

(* A software completion is generated: the user sees no difference. *)
LEMMA FifoGenerate ==
    ASSUME RingInv, WrapsWell, RingInv', PendingIs, PendingIs', generate_completions
    PROVE  UNCHANGED <<Pending, out>>
<1>0. TypeOK /\ Window
  BY DEF RingInv
<1>1. UNCHANGED <<pi, wc, out>>
  BY <1>0, GenerateMeans DEF poll
<1>2. CASE UNCHANGED <<ci, completed, cq>>
  <2>1. UNCHANGED <<pi, ci, wc, completed, wc_list>>
    BY <1>1, <1>2 DEF cq
  <2> QED
    BY <1>1, <2>1, ViewSame, FifoSame
<1>3. CASE /\ ci # pi /\ Slot(Len(wc_list) + 1) \in completed
           /\ wc_list' = Append(wc_list, Slot(Len(wc_list) + 1))
           /\ completed' = completed \ {Slot(Len(wc_list) + 1)}
           /\ ci' = (ci + 1) % W
  <2>1. PICK j : j = Len(wc_list) + 1
    OBVIOUS
  <2>2. /\ Size' = Size /\ Len(wc_list') = j /\ j \in 1..Size
        /\ \A k \in Int : Slot(k)' = Slot(k)
    BY <1>0, <1>1, <1>3, <2>1, GeneratedPlaces
  <2>3. /\ Len(wc_list) \in Nat /\ Size \in Nat /\ MaxSendWr \in Nat /\ Size <= MaxSendWr
    BY <1>0, Indices DEF Window
  <2>4. ASSUME NEW k \in 1..Size PROVE View(k)' = View(k)
    <3>1. k \in Int /\ (k <= j <=> k <= Len(wc_list) \/ k = j)
      BY <2>1, <2>3, SMT
    <3>2. k # j => Slot(k) # Slot(j)
      <4>1. k \in 1..MaxSendWr /\ j \in 1..MaxSendWr
        BY <2>2, <2>3, SMT
      <4> QED
        BY <1>0, <4>1, SlotInjective
    <3>3. Slot(k)' = Slot(k)
      BY <2>2, <3>1
    <3>4. Done(k)' <=> Done(k)
      BY <1>3, <2>1, <2>2, <3>1, <3>2, <3>3 DEF Done
    <3> QED
      BY <1>1, <3>3, <3>4 DEF View
  <2> QED
    BY <1>1, <2>2, <2>4, FifoSame
<1> QED
  BY <1>0, <1>2, <1>3, GenerateMeans

(* A poll reports the oldest work requests. *)
LEMMA FifoReport ==
    ASSUME RingInv, RingInv', PendingIs, PendingIs', ib_process_cq
    PROVE  Fifo!Report
<1>0. TypeOK /\ Window /\ polled < Budget
  BY DEF RingInv
<1>1. PICK n \in 0..Len(wc_list) : Reported(n)
  BY <1>0, ProcessMeans
<1>2. UNCHANGED <<pi, ci, wc, completed>>
  BY <1>0, ProcessMeans DEF ring
<1>3. /\ Len(wc_list') = Len(wc_list) - n /\ Size' = Size - n
      /\ \A k \in Int : Slot(k)' = Slot(k + n)
  BY <1>0, <1>1, <1>2, ReportedPlaces
<1>4. Len(wc_list) \in Nat /\ Size \in Nat /\ Backlog \in Nat /\ Size = Len(wc_list) + Backlog
  BY <1>0, Indices, SMT DEF Size
<1>5. n \in 0..Size /\ n \in Nat
  BY <1>1, <1>4, SMT
<1>6. /\ Pending \in Seq(Entries) /\ Len(Pending) = Size
      /\ \A k \in 1..Size : Pending[k] = View(k) /\ View(k) \in Entries
  BY DEF PendingIs
<1>7. /\ Pending' \in Seq(Entries) /\ Len(Pending') = Size - n
      /\ \A k \in 1..(Size - n) : Pending'[k] = View(k)'
  BY <1>3 DEF PendingIs, Entries, Statuses
<1>8. ASSUME NEW k \in 1..n PROVE wc[wc_list[k]] = View(k) /\ View(k).st # "POSTED"
  <2>1. k \in 1..Len(wc_list) /\ k \in Int /\ k <= Len(wc_list)
    BY <1>1, <1>4, SMT
  <2>2. wc_list[k] = Slot(k) /\ Slot(k) \in Slots /\ Done(k)
    BY <1>0, <2>1, SlotType DEF Window, Done
  <2>3. /\ wc[Slot(k)] = [id |-> wc[Slot(k)].id, st |-> wc[Slot(k)].st]
        /\ wc[Slot(k)].st \in Statuses
    BY <1>0, <2>2 DEF TypeOK
  <2>4. View(k) = [id |-> wc[Slot(k)].id, st |-> wc[Slot(k)].st]
    BY <2>2 DEF View
  <2> QED
    BY <2>2, <2>3, <2>4 DEF Statuses
<1>9. ASSUME NEW k \in 1..(Size - n) PROVE View(k)' = View(k + n)
  <2>1. k \in Int /\ (k <= Len(wc_list) - n <=> k + n <= Len(wc_list))
    BY <1>4, <1>5, SMT
  <2>2. Slot(k)' = Slot(k + n)
    BY <1>3, <2>1
  <2>3. Done(k)' <=> Done(k + n)
    BY <1>2, <1>3, <2>1, <2>2 DEF Done
  <2> QED
    BY <1>2, <2>2, <2>3 DEF View
<1>10. out' = SubSeq(Pending, 1, n)
  <2>1. 1 \in Int /\ n \in Int /\ \A k \in 1..n : k \in 1..Size
    BY <1>4, <1>5, SMT
  <2>2. \A k \in 1..n : Pending[k] \in Entries
    BY <1>6, <2>1
  <2>3. /\ SubSeq(Pending, 1, n) \in Seq(Entries)
        /\ Len(SubSeq(Pending, 1, n)) = IF 1 <= n THEN n - 1 + 1 ELSE 0
        /\ \A k \in 1..(n - 1 + 1) : SubSeq(Pending, 1, n)[k] = Pending[1 + k - 1]
    BY <2>1, <2>2, SubSeqProperties, SMT
  <2>4. /\ SubSeq(Pending, 1, n) \in Seq(Entries) /\ Len(SubSeq(Pending, 1, n)) = n
        /\ \A k \in 1..n : SubSeq(Pending, 1, n)[k] = Pending[k]
    <3>1. n - 1 + 1 = n /\ (~(1 <= n) => n = 0) /\ \A k \in 1..n : 1 + k - 1 = k
      BY <1>5, SMT
    <3> QED
      BY <2>3, <3>1
  <2>5. out' \in [1..n -> Entries] /\ \A k \in 1..n : out'[k] = Pending[k]
    BY <1>1, <1>6, <1>8, <2>1 DEF Reported
  <2>6. out' \in Seq(Entries) /\ Len(out') = n
    BY <1>5, <2>5, SeqDef, SMT
  <2> QED
    BY <2>4, <2>5, <2>6, SeqEqual
<1>11. Pending' = SubSeq(Pending, n + 1, Len(Pending))
  <2>1. n + 1 \in Int /\ Size \in Int /\ \A k \in (n + 1)..Size : k \in 1..Size
    BY <1>4, <1>5, SMT
  <2>2. \A k \in (n + 1)..Size : Pending[k] \in Entries
    BY <1>6, <2>1
  <2>3. /\ SubSeq(Pending, n + 1, Size) \in Seq(Entries)
        /\ Len(SubSeq(Pending, n + 1, Size)) = IF n + 1 <= Size THEN Size - (n + 1) + 1 ELSE 0
        /\ \A k \in 1..(Size - (n + 1) + 1) : SubSeq(Pending, n + 1, Size)[k] = Pending[(n + 1) + k - 1]
    BY <2>1, <2>2, SubSeqProperties, SMT
  <2>4. /\ Size - (n + 1) + 1 = Size - n /\ (~(n + 1 <= Size) => Size - n = 0)
        /\ \A k \in 1..(Size - n) : (n + 1) + k - 1 = k + n /\ k + n \in 1..Size
    BY <1>4, <1>5, SMT
  <2>5. /\ SubSeq(Pending, n + 1, Size) \in Seq(Entries)
        /\ Len(SubSeq(Pending, n + 1, Size)) = Size - n
        /\ \A k \in 1..(Size - n) : SubSeq(Pending, n + 1, Size)[k] = Pending[k + n]
    BY <2>3, <2>4
  <2>6. \A k \in 1..(Size - n) : Pending'[k] = Pending[k + n]
    BY <1>6, <1>7, <1>9, <2>4
  <2>7. Pending' = SubSeq(Pending, n + 1, Size)
    BY <1>7, <2>5, <2>6, SeqEqual
  <2> QED
    BY <1>6, <2>7
<1>12. \A k \in 1..n : Pending[k].st # "POSTED"
  <2>1. \A k \in 1..n : k \in 1..Size
    BY <1>4, <1>5, SMT
  <2> QED
    BY <1>6, <1>8, <2>1
<1> QED
  BY <1>5, <1>6, <1>10, <1>11, <1>12 DEF Fifo!Report

(* Every step is a step of the FIFO or none. *)
LEMMA FifoStep == RingInv /\ WrapsWell /\ RingInv' /\ PendingIs /\ PendingIs' /\ [Next]_vars
                    => [Fifo!Next]_<<Pending, out>>
<1> SUFFICES ASSUME RingInv, WrapsWell, RingInv', PendingIs, PendingIs', [Next]_vars
             PROVE  Fifo!Next \/ UNCHANGED <<Pending, out>>
  OBVIOUS
<1>1. CASE UNCHANGED <<pi, ci, wc, completed, wc_list, out>>
  BY <1>1, ViewSame, FifoSame
<1>2. ASSUME NEW a \in Callers, Setup(a) PROVE UNCHANGED <<pi, ci, wc, completed, wc_list, out>>
  BY <1>2 DEF Setup, setup_begin, setup_qp, setup_qp_end, ring, cq, poll
<1>3. CASE notify_soft_wc_handler \/ ib_cq_poll_work \/ poll_work_end
  BY <1>1, <1>3 DEF notify_soft_wc_handler, ib_cq_poll_work, poll_work_end, ring, cq
<1>4. CASE UNCHANGED vars
  BY <1>1, <1>4 DEF vars, ring, cq, poll
<1>5. CASE \E i \in 1..(NumQps + 1), id \in WrIds : Post(i, id)
  BY <1>5, FifoPost DEF Fifo!Next
<1>6. CASE Hca
  BY <1>6, FifoHca DEF Hca, Fifo!Next
<1>7. CASE generate_completions
  BY <1>7, FifoGenerate
<1>8. CASE ib_process_cq
  BY <1>8, FifoReport DEF Fifo!Next
<1> QED
  BY <1>1, <1>2, <1>3, <1>4, <1>5, <1>6, <1>7, <1>8 DEF Next, Consumer

----------------------------------------------------------------------------
(* The results. *)

(* Type correctness, with no condition on the ring: the indices stay in    *)
(* the range of a u32, and a completion that mlx5_ib_poll_cq returns has a *)
(* wr_id that was posted.                                                  *)
THEOREM TypeCorrect == Spec => []TypeOK
<1>1. TypeInv /\ [Next]_vars => TypeInv'
  BY NextTypeInv
<1>2. TypeInv => TypeOK
  BY DEF TypeInv
<1> QED
  BY InitTypeInv, <1>1, <1>2, PTL DEF Spec

(* The window and what the HCA has stay in order: no slot of the ring of   *)
(* gsi.c is ever used for two work requests. For a max_send_wr that        *)
(* divides 2^32 this is for ever, for another one until outstanding_pi     *)
(* wraps.                                                                  *)
THEOREM RingInvariance == Spec /\ []WrapsWell => []RingInv
<1>1. RingInv /\ WrapsWell /\ [Next]_vars => RingInv'
  BY NextRingInv
<1> QED
  BY InitRingInv, <1>1, PTL DEF Spec

(* The HCA has exactly the slots that are outstanding and not complete:    *)
(* handle_single_completion never hits a slot given to another request.    *)
(* If max_send_wr does not divide 2^32, until outstanding_pi wraps.        *)
THEOREM HcaSlots == Spec /\ []WrapsWell => []HcaOwnsItsSlots
<1>1. RingInv /\ WrapsWell => HcaOwnsItsSlots
  <2> SUFFICES ASSUME RingInv, WrapsWell PROVE HcaOwnsItsSlots
    OBVIOUS
  <2>1. TypeOK /\ Sent
    BY DEF RingInv
  <2>2. {Outstanding[k] % MaxSendWr : k \in DOMAIN Outstanding} = RingSlots
    BY <2>1, RingSlotsIs
  <2>3. UNION {Range(hw[q]) : q \in QPs} = RingSlots \ completed
    BY <2>1, SMT DEF Sent
  <2> QED
    BY <2>1, <2>2, <2>3 DEF Sent, HcaOwnsItsSlots
<1> QED
  BY RingInvariance, <1>1, PTL

(* With fewer than max_send_wr sends pending mlx5_ib_add_outstanding_wr    *)
(* finds room. If max_send_wr does not divide 2^32, until outstanding_pi   *)
(* wraps.                                                                  *)
THEOREM Room == Spec /\ []WrapsWell => []RoomForMad
<1>1. RingInv /\ WrapsWell => RoomForMad
  BY RingPending, RoomWhen DEF PendingIs, RoomForMad
<1> QED
  BY RingInvariance, <1>1, PTL

(* The GSI QP implements the FIFO: in whatever order the UD QPs complete,  *)
(* generate_completions and mlx5_ib_poll_cq report every work request      *)
(* once, in posting order, with its id and status. If max_send_wr does not *)
(* divide 2^32, until outstanding_pi wraps.                                *)
THEOREM Refinement == Spec /\ []WrapsWell => InOrder
BY RingInvariance, FifoInit, FifoStep, RingPending, PTL DEF Spec, InOrder, Fifo!Spec

(* For a max_send_wr that divides 2^32, as the default of mad.c does, none *)
(* of this has a condition: the order, the slots of the HCA and the room   *)
(* in the ring survive every wrap of outstanding_pi and outstanding_ci.    *)
THEOREM WrapsForEver ==
    W % MaxSendWr = 0 => (Spec => InOrder /\ []HcaOwnsItsSlots /\ []RoomForMad)
<1> SUFFICES ASSUME W % MaxSendWr = 0
             PROVE  Spec => InOrder /\ []HcaOwnsItsSlots /\ []RoomForMad
  OBVIOUS
<1>1. WrapsWell
  BY DEF WrapsWell
<1> QED
  BY <1>1, Refinement, HcaSlots, Room, PTL

============================================================================
