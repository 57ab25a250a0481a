---------------------------- MODULE DirtyLogProofs ----------------------------
(***************************************************************************)
(* Proofs, for every set of slots, every set of region sizes and every    *)
(* page size, that get_dirty_log's Vec covers what the kernel writes into *)
(* it when the caller passes the slot's own memory_size, as the doc       *)
(* example of get_dirty_log does.                                          *)
(***************************************************************************)
EXTENDS DirtyLog, TLAPS

-----------------------------------------------------------------------------
(* Integer division by a positive number: the quotient is the largest     *)
(* multiple of the divisor not above the dividend.                         *)
LEMMA DivBounds ==
  ASSUME NEW a \in Nat, NEW b \in Nat \ {0}
  PROVE  /\ a \div b \in Nat
         /\ (a \div b) * b <= a
         /\ a < (a \div b) * b + b
OBVIOUS

(* Multiplying by a natural number keeps an order, and a positive factor *)
(* can be cancelled.                                                       *)
LEMMA MulMono ==
  ASSUME NEW a \in Nat, NEW b \in Nat, NEW c \in Nat, a <= b
  PROVE  a * c <= b * c
<1>1. (b - a) * c \in Nat
  BY SMTT(10)
<1> QED
  BY <1>1

LEMMA MulCancel ==
  ASSUME NEW a \in Nat, NEW b \in Nat, NEW c \in Nat \ {0}, a * c < b * c
  PROVE  a < b
<1> SUFFICES ASSUME b <= a PROVE FALSE
  OBVIOUS
<1> QED
  BY MulMono

(* kvm_dirty_bitmap_bytes in words is ceil(k / 64): k bits fit, and one   *)
(* word fewer would not hold them.                                         *)
LEMMA KernelWordsBound ==
  ASSUME NEW k \in Nat
  PROVE  /\ KernelBitmapWords(k) \in Nat
         /\ KernelBitmapWords(k) * 64 < k + 64
BY DEF KernelBitmapWords, BitsPerWord

(* The words div_round_up(n, page_size * 64) allocates cover the words    *)
(* the kernel writes for a slot of n bytes, whatever the page size.        *)
LEMMA CoverBound ==
  ASSUME NEW n \in Nat, NEW P \in Nat \ {0}
  PROVE  KernelBitmapWords(n \div P) <= DivRoundUp(n, P * BitsPerWord)
<1> DEFINE k == n \div P
           K == KernelBitmapWords(k)
           Q == P * 64
           D == (n + Q - 1) \div Q
<1>1. k \in Nat /\ k * P <= n
  BY DivBounds
<1>2. K \in Nat /\ K * 64 <= k + 63
  BY <1>1, KernelWordsBound
<1>3. Q \in Nat \ {0} /\ n + Q - 1 \in Nat
  OBVIOUS
<1>4. D \in Nat /\ n + Q - 1 < D * Q + Q
  BY <1>3, DivBounds
<1>5. K * Q <= n + 63 * P
  <2>1. K * Q = (K * 64) * P
    BY <1>2
  <2>2. (K * 64) * P <= (k + 63) * P
    BY <1>1, <1>2, MulMono
  <2>3. (k + 63) * P = k * P + 63 * P
    BY <1>1
  <2> QED
    BY <1>1, <1>2, <2>1, <2>2, <2>3
<1>6. Q = 64 * P /\ P > 0
  OBVIOUS
<1> HIDE DEF K, D, Q
<1>7. K * Q < D * Q + Q
  <2>1. n <= D * Q
    BY <1>3, <1>4
  <2>2. 63 * P < Q
    BY <1>6
  <2> QED
    BY <1>2, <1>3, <1>4, <1>5, <2>1, <2>2
<1>8. (D + 1) * Q = D * Q + Q
  BY <1>3, <1>4
<1>9. K <= D
  BY <1>2, <1>3, <1>4, <1>7, <1>8, MulCancel
<1> QED
  BY <1>9 DEF K, D, Q, DivRoundUp, BitsPerWord

(* div_round_up of a size by a positive divisor is a word count. *)
LEMMA DivRoundUpNat ==
  ASSUME NEW n \in Nat, NEW d \in Nat \ {0}
  PROVE  DivRoundUp(n, d) \in Nat
<1>1. n + d - 1 \in Nat
  OBVIOUS
<1> QED
  BY <1>1, DivBounds DEF DivRoundUp

-----------------------------------------------------------------------------
(* The sizes a caller passes to get_dirty_log are region sizes. *)
LEMMA DirtyLogSizesType ==
  ASSUME TypeOK, NEW s \in Slots
  PROVE  DirtyLogSizes(s) \subseteq RegionSizes
BY AnySizeAssumption DEF DirtyLogSizes, TypeOK

(* The initial state is well typed and the (empty) Vec covers nothing. *)
LEMMA InitTypeOK == Init => TypeOK /\ BitmapCoversSlot
BY RegionSizesAssumption DEF Init, TypeOK, BitmapCoversSlot

(* set_user_memory_region changes only the kernel's slots, to a size of  *)
(* the region sizes; get_dirty_log allocates and the kernel writes word   *)
(* counts.                                                                 *)
LEMMA NextTypeOK == TypeOK /\ [Next]_vars => TypeOK'
<1> SUFFICES ASSUME TypeOK, [Next]_vars PROVE TypeOK'
  OBVIOUS
<1>1. ASSUME NEW s \in Slots, NEW size \in RegionSizes, NEW log \in BOOLEAN,
             SetUserMemoryRegion(s, size, log)
      PROVE  TypeOK'
  BY <1>1 DEF SetUserMemoryRegion, TypeOK
<1>2. ASSUME NEW s \in Slots, NEW m \in DirtyLogSizes(s), GetDirtyLog(s, m)
      PROVE  TypeOK'
  <2>1. m \in Nat /\ region[s] \div PageSize \in Nat
    BY DirtyLogSizesType, RegionSizesAssumption, PageSizeAssumption, DivBounds DEF TypeOK
  <2>2. bitmapWords' \in Nat
    BY <2>1, <1>2, PageSizeAssumption, DivRoundUpNat DEF GetDirtyLog, BitsPerWord
  <2>3. writtenWords' \in Nat
    BY <2>1, <1>2, KernelWordsBound DEF GetDirtyLog
  <2> QED
    BY <1>2, <2>2, <2>3 DEF GetDirtyLog, TypeOK
<1>3. CASE UNCHANGED vars
  BY <1>3 DEF vars, TypeOK
<1> QED
  BY <1>1, <1>2, <1>3 DEF Next

(* With the slot's own size passed, every step keeps the Vec covering    *)
(* what the kernel wrote.                                                  *)
LEMMA NextCovers ==
  ASSUME ~AnySize
  PROVE  TypeOK /\ BitmapCoversSlot /\ [Next]_vars => BitmapCoversSlot'
<1> SUFFICES ASSUME TypeOK, BitmapCoversSlot, [Next]_vars PROVE BitmapCoversSlot'
  OBVIOUS
<1>1. ASSUME NEW s \in Slots, NEW size \in RegionSizes, NEW log \in BOOLEAN,
             SetUserMemoryRegion(s, size, log)
      PROVE  BitmapCoversSlot'
  BY <1>1 DEF SetUserMemoryRegion, BitmapCoversSlot
<1>2. ASSUME NEW s \in Slots, NEW m \in DirtyLogSizes(s), GetDirtyLog(s, m)
      PROVE  BitmapCoversSlot'
  <2>1. m = region[s] /\ region[s] \in Nat
    BY RegionSizesAssumption DEF DirtyLogSizes, TypeOK
  <2>2. KernelBitmapWords(region[s] \div PageSize)
          <= DivRoundUp(region[s], PageSize * BitsPerWord)
    BY <2>1, PageSizeAssumption, CoverBound
  <2>3. DivRoundUp(region[s], PageSize * BitsPerWord) \in Nat
    BY <2>1, PageSizeAssumption, DivRoundUpNat DEF BitsPerWord
  <2> QED
    BY <1>2, <2>1, <2>2, <2>3 DEF GetDirtyLog, BitmapCoversSlot
<1>3. CASE UNCHANGED vars
  BY <1>3 DEF vars, BitmapCoversSlot
<1> QED
  BY <1>1, <1>2, <1>3 DEF Next

-----------------------------------------------------------------------------
(* Every reachable state is well typed, whatever memory_size callers pass. *)
THEOREM TypeCorrect == Spec => []TypeOK
BY InitTypeOK, NextTypeOK, PTL DEF Spec

(* When callers pass get_dirty_log the memory_size they gave the slot, the *)
(* kernel never writes past the Vec, for every page size and region size. *)
THEOREM BitmapCoversSlotHolds == ~AnySize => (Spec => []BitmapCoversSlot)
<1> SUFFICES ASSUME ~AnySize PROVE Spec => []BitmapCoversSlot
  OBVIOUS
<1> QED
  BY InitTypeOK, NextTypeOK, NextCovers, PTL DEF Spec

=============================================================================
