---------------------------- MODULE KvmCapsProofs ----------------------------
(***************************************************************************)
(* Proofs, for every host (any online CPU count, any set of capabilities  *)
(* its KVM implements, a working or a failing fd) and every x86 kernel    *)
(* limit, that the count getters of Kvm return positive counts and that   *)
(* get_max_vcpus never answers less than get_nr_vcpus.                    *)
(***************************************************************************)
EXTENDS KvmCaps, TLAPS

USE KvmCapsAssumption

(* What get_max_vcpus and get_nr_memslots compute on this host. *)
MaxVcpusOf ==
  LET x == CheckExtensionInt("MaxVcpus") IN IF x = 0 THEN NrVcpusOf ELSE AsUsize(x)
MemslotsOf ==
  LET x == CheckExtensionInt("NrMemslots") IN IF x > 0 THEN AsUsize(x) ELSE 32

(* The host the getters ask. *)
Host == fdOk \in BOOLEAN /\ caps \subseteq Caps /\ online \in OnlineCpus

(* The inductive invariant: the host does not change, and each count      *)
(* getter's last answer is what it computes on this host.                  *)
IInv ==
  /\ Host
  /\ DOMAIN got = Getters
  /\ got["nr"] \in {<< >>, <<NrVcpusOf>>}
  /\ got["memslots"] \in {<< >>, <<MemslotsOf>>}
  /\ got["max"] \in {<< >>, <<MaxVcpusOf>>}

-----------------------------------------------------------------------------
(* x as usize of an i32 that fits is x itself. *)
LEMMA AsUsizeSmall ==
  ASSUME NEW x \in Nat, x < UsizeModulus PROVE AsUsize(x) = x
BY DEF AsUsize

(* -1 as usize is the largest usize. *)
LEMMA AsUsizeMinusOne == AsUsize(-1) = UsizeModulus - 1
BY DEF AsUsize

(* The answers of KVM_CHECK_EXTENSION for the three counts. *)
LEMMA Answers ==
  ASSUME Host
  PROVE  /\ CheckExtensionInt("NrVcpus") \in {-1, 0} \cup 1..KvmMaxVcpus
         /\ CheckExtensionInt("MaxVcpus") \in {-1, 0, KvmMaxVcpus}
         /\ CheckExtensionInt("NrMemslots") \in {-1, 0, UserMemSlots}
BY DEF Host, CheckExtensionInt, KernelCap

(* get_nr_vcpus answers between 1 and KVM_MAX_VCPUS. *)
LEMMA NrVcpusRange == Host => NrVcpusOf \in 1..KvmMaxVcpus
<1> SUFFICES ASSUME Host PROVE NrVcpusOf \in 1..KvmMaxVcpus
  OBVIOUS
<1>1. CheckExtensionInt("NrVcpus") \in {-1, 0} \cup 1..KvmMaxVcpus
  BY Answers
<1>2. \A x \in 1..KvmMaxVcpus : AsUsize(x) = x
  BY AsUsizeSmall
<1> QED
  BY <1>1, <1>2 DEF NrVcpusOf

(* get_max_vcpus answers at least what get_nr_vcpus answers. *)
LEMMA MaxVcpusRange == Host => MaxVcpusOf >= NrVcpusOf
<1> SUFFICES ASSUME Host PROVE MaxVcpusOf >= NrVcpusOf
  OBVIOUS
<1>1. CheckExtensionInt("MaxVcpus") \in {-1, 0, KvmMaxVcpus}
  BY Answers
<1>2. AsUsize(KvmMaxVcpus) = KvmMaxVcpus
  BY AsUsizeSmall
<1>3. NrVcpusOf \in 1..KvmMaxVcpus
  BY NrVcpusRange
<1> QED
  BY <1>1, <1>2, <1>3, AsUsizeMinusOne DEF MaxVcpusOf

(* get_nr_memslots answers a positive count. *)
LEMMA MemslotsRange == Host => MemslotsOf > 0
<1> SUFFICES ASSUME Host PROVE MemslotsOf > 0
  OBVIOUS
<1>1. CheckExtensionInt("NrMemslots") \in {-1, 0, UserMemSlots}
  BY Answers
<1>2. AsUsize(UserMemSlots) = UserMemSlots
  BY AsUsizeSmall
<1> QED
  BY <1>1, <1>2 DEF MemslotsOf

-----------------------------------------------------------------------------
(* The initial state satisfies the inductive invariant. *)
LEMMA InitIInv == Init => IInv
BY DEF Init, IInv, Host, Getters

(* Every step keeps it: a getter stores what it computes, and nothing     *)
(* changes the host.                                                       *)
LEMMA NextIInv == IInv /\ [Next]_vars => IInv'
<1> SUFFICES ASSUME IInv, [Next]_vars PROVE IInv'
  OBVIOUS
<1>1. Host' = Host /\ NrVcpusOf' = NrVcpusOf /\ MemslotsOf' = MemslotsOf
      /\ MaxVcpusOf' = MaxVcpusOf
  <2>1. UNCHANGED <<fdOk, caps, online>>
    BY DEF Next, vars, GetApiVersion, CheckExtension, GetVcpuMmapSize, GetNrVcpus,
           GetNrMemslots, GetMaxVcpus, Return
  <2> QED
    BY <2>1 DEF Host, NrVcpusOf, MemslotsOf, MaxVcpusOf, CheckExtensionInt, KernelCap
<1>2. CASE GetApiVersion \/ \E c \in Caps : CheckExtension(c)
  BY <1>1, <1>2 DEF IInv, GetApiVersion, CheckExtension, Return, Getters
<1>3. CASE GetVcpuMmapSize
  BY <1>1, <1>3 DEF IInv, GetVcpuMmapSize, Getters
<1>4. CASE GetNrVcpus
  BY <1>1, <1>4 DEF IInv, GetNrVcpus, Return
<1>5. CASE GetNrMemslots
  BY <1>1, <1>5 DEF IInv, GetNrMemslots, Return, MemslotsOf
<1>6. CASE GetMaxVcpus
  BY <1>1, <1>6 DEF IInv, GetMaxVcpus, Return, MaxVcpusOf
<1>7. CASE UNCHANGED vars
  BY <1>1, <1>7 DEF IInv, vars
<1> QED
  BY <1>2, <1>3, <1>4, <1>5, <1>6, <1>7 DEF Next

(* The inductive invariant gives both properties. *)
LEMMA IInvProperties == IInv => CountsPositive /\ MaxAtLeastNr
<1> SUFFICES ASSUME IInv PROVE CountsPositive /\ MaxAtLeastNr
  OBVIOUS
<1>1. NrVcpusOf \in 1..KvmMaxVcpus /\ MaxVcpusOf >= NrVcpusOf /\ MemslotsOf > 0
  BY NrVcpusRange, MaxVcpusRange, MemslotsRange DEF IInv
<1>2. CountsPositive
  <2> SUFFICES ASSUME NEW g \in {"nr", "memslots", "max"}, got[g] # << >>
               PROVE  got[g][1] > 0
    BY DEF CountsPositive
  <2>1. PICK v \in {NrVcpusOf, MemslotsOf, MaxVcpusOf} : got[g] = <<v>>
    BY DEF IInv
  <2>2. v > 0
    BY <1>1
  <2> QED
    BY <2>1, <2>2
<1>3. MaxAtLeastNr
  BY <1>1 DEF IInv, MaxAtLeastNr
<1> QED
  BY <1>2, <1>3

-----------------------------------------------------------------------------
(* get_nr_vcpus, get_nr_memslots and get_max_vcpus return positive counts *)
(* on every host, whether the capability is implemented or the ioctl      *)
(* fails.                                                                  *)
THEOREM CountsPositiveHolds == Spec => []CountsPositive
BY InitIInv, NextIInv, IInvProperties, PTL DEF Spec

(* get_max_vcpus never answers less than get_nr_vcpus, whichever of the   *)
(* two capabilities the kernel implements.                                 *)
THEOREM MaxAtLeastNrHolds == Spec => []MaxAtLeastNr
BY InitIInv, NextIInv, IInvProperties, PTL DEF Spec

-----------------------------------------------------------------------------
(* x as usize of any i32 is a usize. *)
LEMMA AsUsizeRange ==
  ASSUME NEW x \in Int PROVE AsUsize(x) \in 0..(UsizeModulus - 1)
BY DEF AsUsize

(* The counts the getters compute are usizes: the answer cast, or the     *)
(* fallback 4 or 32, which every usize holds.                              *)
LEMMA CountsAreUsize ==
  ASSUME Host
  PROVE  /\ NrVcpusOf \in 0..(UsizeModulus - 1)
         /\ MemslotsOf \in 0..(UsizeModulus - 1)
         /\ MaxVcpusOf \in 0..(UsizeModulus - 1)
<1>1. /\ CheckExtensionInt("NrVcpus") \in Int
      /\ CheckExtensionInt("NrMemslots") \in Int
      /\ CheckExtensionInt("MaxVcpus") \in Int
  BY Answers
<1>2. NrVcpusOf \in 0..(UsizeModulus - 1)
  BY <1>1, AsUsizeRange DEF NrVcpusOf
<1>3. MemslotsOf \in 0..(UsizeModulus - 1)
  BY <1>1, AsUsizeRange DEF MemslotsOf
<1>4. MaxVcpusOf \in 0..(UsizeModulus - 1)
  BY <1>1, <1>2, AsUsizeRange DEF MaxVcpusOf
<1> QED
  BY <1>2, <1>3, <1>4

(* The initial state is well typed. *)
LEMMA InitTypeOK == Init => TypeOK
BY DEF Init, TypeOK, Getters

(* Every getter stores a value of its type, and the host stays the same. *)
LEMMA NextTypeOK == TypeOK /\ [Next]_vars => TypeOK'
<1> SUFFICES ASSUME TypeOK, [Next]_vars PROVE TypeOK'
  OBVIOUS
<1>1. Host
  BY DEF TypeOK, Host
<1>2. CASE GetApiVersion
  BY <1>2 DEF GetApiVersion, Return, TypeOK, Getters
<1>3. CASE \E c \in Caps : CheckExtension(c)
  <2>1. PICK c \in Caps : CheckExtension(c)
    BY <1>3
  <2> DEFINE b == CheckExtensionInt(c) > 0
  <2>a. b \in BOOLEAN
    OBVIOUS
  <2> HIDE DEF b
  <2>2. got' = [got EXCEPT !["ext"] = <<b>>] /\ UNCHANGED <<fdOk, caps, online, lastErr>>
    BY <2>1 DEF CheckExtension, Return, b
  <2>3. \A i \in DOMAIN got'["ext"] : got'["ext"][i] \in BOOLEAN
    BY <2>a, <2>2 DEF TypeOK, Getters
  <2> QED
    BY <2>2, <2>3 DEF TypeOK, Getters
<1>4. CASE GetVcpuMmapSize
  <2>1. AsUsize(RunSize) \in 0..(UsizeModulus - 1)
    BY AsUsizeRange
  <2> QED
    BY <1>4, <2>1 DEF GetVcpuMmapSize, TypeOK, Getters
<1>5. CASE GetNrVcpus
  BY <1>1, <1>5, CountsAreUsize DEF GetNrVcpus, Return, TypeOK, Getters
<1>6. CASE GetNrMemslots
  BY <1>1, <1>6, CountsAreUsize DEF GetNrMemslots, MemslotsOf, Return, TypeOK, Getters
<1>7. CASE GetMaxVcpus
  BY <1>1, <1>7, CountsAreUsize DEF GetMaxVcpus, MaxVcpusOf, Return, TypeOK, Getters
<1>8. CASE UNCHANGED vars
  BY <1>8 DEF vars, TypeOK
<1> QED
  BY <1>2, <1>3, <1>4, <1>5, <1>6, <1>7, <1>8 DEF Next

(* Every reachable state is well typed: each getter's answer is a value  *)
(* of its Rust type, on every host and for every usize width.             *)
THEOREM TypeCorrect == Spec => []TypeOK
BY InitTypeOK, NextTypeOK, PTL DEF Spec

=============================================================================
