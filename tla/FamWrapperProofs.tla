-------------------------- MODULE FamWrapperProofs --------------------------
(***************************************************************************)
(* Proofs, for every value of the constants, that a FamStructWrapper's     *)
(* count never exceeds its allocation and that as_slice never exposes      *)
(* uninitialized memory, whatever sequence of new, set_len, clone,         *)
(* deserialization, kernel fills and drops the program performs.           *)
(***************************************************************************)
EXTENDS FamWrapper, TLAPS

USE MaxLenAssumption, ZeroAssumption, GarbageAssumption, FlagsAssumption

(* The initial state satisfies the inductive invariant. *)
LEMMA InitIInv == Init => IInv
BY DEF Init, IInv, TypeOK, AllocInit, Zeroed, Slots, Cell, Outcomes

(* new(n) keeps the invariant: a failed call changes no wrapper, a         *)
(* successful one installs n zeroed entries with the count n.              *)
LEMMA NewIInv ==
  ASSUME IInv, NEW w \in Handles, NEW n \in 0..MaxLen + 1, New(w, n)
  PROVE  IInv'
<1>1. CASE n > MaxLen
  BY <1>1 DEF New, Fail, IInv, TypeOK, AllocInit, Outcomes
<1>2. CASE n <= MaxLen
  <2>1. Install(w, n, n, 0, Zeroed(n)) /\ lastErr' = "Ok"
    BY <1>2 DEF New
  <2>2. QED
    BY <1>2, <2>1 DEF Install, Zeroed, IInv, TypeOK, AllocInit, Slots, Cell, Outcomes
<1>3. QED BY <1>1, <1>2

(* set_len(n) keeps the invariant: the allocation grows to n when needed   *)
(* and every slot of it is either kept or zeroed.                          *)
LEMMA SetLenIInv ==
  ASSUME IInv, NEW w \in Handles, NEW n \in 0..MaxLen + 1, SetLen(w, n)
  PROVE  IInv'
<1>1. CASE n > MaxLen
  BY <1>1 DEF SetLen, Fail, IInv, TypeOK, AllocInit, Outcomes
<1>2. CASE n <= MaxLen
  <2> DEFINE c == IF n > cap[w] THEN n ELSE cap[w]
  <2>1. /\ cap' = [cap EXCEPT ![w] = c]
        /\ len' = [len EXCEPT ![w] = n]
        /\ mem' = [mem EXCEPT ![w] =
                     [i \in Slots |->
                        IF i <= len[w] /\ i <= n THEN mem[w][i]
                        ELSE IF i <= c THEN Zero ELSE Garbage]]
        /\ lastErr' = "Ok"
        /\ UNCHANGED <<live, flags>>
    BY <1>2 DEF SetLen
  <2>2. c \in 0..MaxLen /\ n <= c
    BY <1>2 DEF IInv, TypeOK
  <2>3. QED
    BY <2>1, <2>2 DEF IInv, TypeOK, AllocInit, Slots, Cell, Outcomes
<1>3. QED BY <1>1, <1>2

(* A write through as_mut_slice stores a value inside the count. *)
LEMMA SetEntryIInv ==
  ASSUME IInv, NEW w \in Handles, NEW i \in Slots, NEW v \in Values,
         SetEntry(w, i, v)
  PROVE  IInv'
BY DEF SetEntry, IInv, TypeOK, AllocInit, Slots, Cell, Outcomes

(* clone() sizes the copy for the source's count, all of which the source  *)
(* had initialized.                                                        *)
LEMMA CloneIInv ==
  ASSUME IInv, NEW w \in Handles, NEW src \in Handles, Clone(src, w)
  PROVE  IInv'
BY DEF Clone, Install, IInv, TypeOK, AllocInit, Slots, Cell, Outcomes

(* Deserialization installs a wrapper only when the header's count equals  *)
(* the length of the entries vector it allocates for.                      *)
LEMMA DeserializeIInv ==
  ASSUME IInv, NEW w \in Handles, NEW hl \in 0..MaxLen + 1, NEW hf \in Flags,
         NEW ents \in Payloads, Deserialize(w, hl, hf, ents)
  PROVE  IInv'
<1>1. PICK k \in 0..MaxLen + 1 : ents \in [1..k -> Values]
  BY DEF Payloads
<1>2. Len(ents) = k
  BY <1>1
<1>3. CASE Len(ents) > MaxLen
  BY <1>3 DEF Deserialize, Fail, IInv, TypeOK, AllocInit, Outcomes
<1>4. CASE Len(ents) <= MaxLen /\ hl # Len(ents)
  BY <1>4 DEF Deserialize, Fail, IInv, TypeOK, AllocInit, Outcomes
<1>5. CASE Len(ents) <= MaxLen /\ hl = Len(ents)
  <2>1. /\ Install(w, k, hl, hf,
                   [i \in Slots |-> IF i <= k THEN ents[i] ELSE Garbage])
        /\ lastErr' = "Ok"
    BY <1>2, <1>5 DEF Deserialize
  <2>2. k \in 0..MaxLen /\ hl = k
    BY <1>2, <1>5
  <2>3. QED
    BY <1>1, <2>1, <2>2 DEF Install, IInv, TypeOK, AllocInit, Slots, Cell, Outcomes
<1>6. QED BY <1>3, <1>4, <1>5

(* A kernel fill writes at most the count it read, inside a fresh zeroed   *)
(* allocation of n entries.                                                *)
LEMMA GetCpuidIInv ==
  ASSUME IInv, NEW w \in Handles, NEW n \in 0..MaxLen + 1, GetCpuid(w, n)
  PROVE  IInv'
<1>1. CASE Fail("Errno")
  BY <1>1 DEF Fail, IInv, TypeOK, AllocInit, Outcomes
<1>2. CASE \E k \in 0..n : \E vals \in [1..k -> Values] :
             /\ Install(w, n, k, 0,
                        [i \in Slots |-> IF i <= k THEN vals[i] ELSE Zeroed(n)[i]])
             /\ lastErr' = "Ok"
  <2>1. PICK k \in 0..n : \E vals \in [1..k -> Values] :
             /\ Install(w, n, k, 0,
                        [i \in Slots |-> IF i <= k THEN vals[i] ELSE Zeroed(n)[i]])
             /\ lastErr' = "Ok"
    BY <1>2
  <2>4. PICK vals \in [1..k -> Values] :
             /\ Install(w, n, k, 0,
                        [i \in Slots |-> IF i <= k THEN vals[i] ELSE Zeroed(n)[i]])
             /\ lastErr' = "Ok"
    BY <2>1
  <2>2. n <= MaxLen
    BY DEF GetCpuid
  <2>3. QED
    BY <2>4, <2>2 DEF Install, Zeroed, IInv, TypeOK, AllocInit, Slots, Cell, Outcomes
<1>3. QED BY <1>1, <1>2 DEF GetCpuid

(* Dropping a wrapper or handing it to set_gsi_routing changes no          *)
(* allocation.                                                             *)
LEMMA DropIInv ==
  ASSUME IInv, NEW w \in Handles, Drop(w) \/ SetGsiRouting(w)
  PROVE  IInv'
BY DEF Drop, SetGsiRouting, IInv, TypeOK, AllocInit, Outcomes

(* Every step of the specification keeps the inductive invariant. *)
LEMMA NextIInv == IInv /\ [Next]_vars => IInv'
<1> SUFFICES ASSUME IInv, [Next]_vars PROVE IInv'
  OBVIOUS
<1>1. CASE UNCHANGED vars
  BY <1>1 DEF vars, IInv, TypeOK, AllocInit
<1>2. CASE Next
  <2>1. PICK w \in Handles :
          \/ \E n \in 0..MaxLen + 1 : New(w, n) \/ SetLen(w, n) \/ GetCpuid(w, n)
          \/ \E i \in Slots, v \in Values : SetEntry(w, i, v)
          \/ \E src \in Handles : Clone(src, w)
          \/ \E hl \in 0..MaxLen + 1, hf \in Flags, ents \in Payloads :
               Deserialize(w, hl, hf, ents)
          \/ Drop(w)
          \/ GetMsrIndexList(w)
          \/ SetGsiRouting(w)
    BY <1>2 DEF Next, WrapperNext
  <2>2. GetMsrIndexList(w) => IInv'
    BY GetCpuidIInv DEF GetMsrIndexList
  <2>3. QED
    BY <2>1, <2>2, NewIInv, SetLenIInv, GetCpuidIInv, SetEntryIInv, CloneIInv,
       DeserializeIInv, DropIInv
<1>3. QED BY <1>1, <1>2

(* Every allocated slot of a live wrapper, not only the first len, holds *)
(* an initialized value in every reachable state (the inductive          *)
(* invariant the theorems below rest on): set_len, which may later expose *)
(* any of them, is safe.                                                   *)
THEOREM IInvHolds == Spec => []IInv
BY InitIInv, NextIInv, PTL DEF Spec

(* The type invariant holds in every reachable state. *)
THEOREM TypeCorrect == Spec => []TypeOK
<1>1. IInv => TypeOK
  BY DEF IInv
<1>2. QED BY <1>1, InitIInv, NextIInv, PTL DEF Spec

(* The count the kernel reads as its limit never exceeds the allocation    *)
(* (the property CountWithinAllocation the runs check), for any max_len.   *)
THEOREM CountWithinAllocationHolds == Spec => []CountWithinAllocation
<1>1. IInv => CountWithinAllocation
  BY DEF IInv, AllocInit, CountWithinAllocation
<1>2. QED BY <1>1, InitIInv, NextIInv, PTL DEF Spec

(* as_slice never exposes uninitialized or unallocated memory (the         *)
(* property NoUninitExposed the runs check), for any max_len.              *)
THEOREM NoUninitExposedHolds == Spec => []NoUninitExposed
<1>1. IInv => NoUninitExposed
  <2> SUFFICES ASSUME IInv, NEW w \in Handles, live[w], NEW i \in 1..len[w]
               PROVE  mem[w][i] # Garbage
    BY DEF NoUninitExposed
  <2>1. i \in 1..cap[w] /\ len[w] \in Nat
    BY DEF IInv, AllocInit, TypeOK
  <2>2. QED BY <2>1 DEF IInv, AllocInit
<1>2. QED BY <1>1, InitIInv, NextIInv, PTL DEF Spec

-----------------------------------------------------------------------------
(* Refinement of the container of spec.md 4.1 (FamContainer).  Under IInv *)
(* a live wrapper's count fits MaxLen and every entry within it is a       *)
(* value, so each step is a container step or leaves the caller's view    *)
(* (alive, header, as_slice) as it was.                                    *)

(* The initial wrappers are the initial containers: none alive. *)
LEMMA InitRefines == Init => Container!ContainerInit
BY DEF Init, Container!ContainerInit, AbsHdr, AbsSlice

(* A wrapper none of whose fields a step changes looks the same after it. *)
LEMMA FrameView ==
  ASSUME NEW u \in Handles,
         live'[u] = live[u], flags'[u] = flags[u], len'[u] = len[u], mem'[u] = mem[u]
  PROVE  AbsHdr'[u] = AbsHdr[u] /\ AbsSlice'[u] = AbsSlice[u]
BY DEF AbsHdr, AbsSlice, AsSlice

(* A step that changes no live, flags, len or mem is a container stutter. *)
LEMMA StutterView ==
  ASSUME UNCHANGED <<live, flags, len, mem>>
  PROVE  UNCHANGED Container!containerVars
BY DEF Container!containerVars, AbsHdr, AbsSlice, AsSlice

(* The view of a live wrapper's slice: count len and the first len slots. *)
LEMMA SliceView ==
  ASSUME TypeOK, NEW w \in Handles, live[w]
  PROVE  /\ AbsSlice[w] = [i \in 1..len[w] |-> mem[w][i]]
         /\ Len(AbsSlice[w]) = len[w]
         /\ AbsHdr[w] = flags[w]
BY DEF TypeOK, AbsSlice, AbsHdr, AsSlice

(* set_len(n) regrows: the first min(len, n) entries kept, the rest zero. *)
LEMMA SetLenRefines ==
  ASSUME IInv, NEW w \in Handles, NEW n \in 0..MaxLen + 1, SetLen(w, n)
  PROVE  [Container!ContainerNext]_Container!containerVars
<1>1. CASE n > MaxLen
  BY <1>1, StutterView DEF SetLen, Fail
<1>2. CASE n <= MaxLen
  <2> DEFINE c == IF n > cap[w] THEN n ELSE cap[w]
  <2>1. /\ cap' = [cap EXCEPT ![w] = c]
        /\ len' = [len EXCEPT ![w] = n]
        /\ mem' = [mem EXCEPT ![w] =
                     [i \in Slots |->
                        IF i <= len[w] /\ i <= n THEN mem[w][i]
                        ELSE IF i <= c THEN Zero ELSE Garbage]]
        /\ UNCHANGED <<live, flags>>
        /\ live[w]
    BY <1>2 DEF SetLen
  <2>2. TypeOK /\ len[w] <= cap[w] /\ n <= c
    BY <2>1 DEF IInv, TypeOK, AllocInit
  <2>4. AbsSlice'[w] = [i \in 1..n |-> IF i <= Len(AbsSlice[w]) THEN AbsSlice[w][i] ELSE Zero]
    <3>1. AbsSlice'[w] = [i \in 1..n |-> mem'[w][i]]
      BY <2>1, <2>2 DEF AbsSlice, AsSlice, TypeOK
    <3>2. AbsSlice[w] = [i \in 1..len[w] |-> mem[w][i]] /\ Len(AbsSlice[w]) = len[w]
      BY <2>1, <2>2, SliceView
    <3>3. \A i \in 1..n : mem'[w][i] = IF i <= len[w] THEN mem[w][i] ELSE Zero
      BY <1>2, <2>1, <2>2 DEF TypeOK, Slots
    <3>4. QED BY <3>1, <3>2, <3>3, <2>2 DEF TypeOK
  <2>5. \A u \in Handles \ {w} : AbsHdr'[u] = AbsHdr[u] /\ AbsSlice'[u] = AbsSlice[u]
    <3> SUFFICES ASSUME NEW u \in Handles \ {w}
                 PROVE  AbsHdr'[u] = AbsHdr[u] /\ AbsSlice'[u] = AbsSlice[u]
      OBVIOUS
    <3>1. live'[u] = live[u] /\ flags'[u] = flags[u] /\ len'[u] = len[u] /\ mem'[u] = mem[u]
      BY <2>1, <2>2 DEF TypeOK
    <3>2. QED BY <3>1, FrameView
  <2>6. AbsHdr'[w] = AbsHdr[w]
    BY <2>1 DEF AbsHdr
  <2>7. Container!Resize(w, n)
    <3>1. AbsSlice' = [AbsSlice EXCEPT ![w] =
              [i \in 1..n |-> IF i <= Len(AbsSlice[w]) THEN AbsSlice[w][i] ELSE Zero]]
      BY <2>4, <2>5 DEF AbsSlice
    <3>2. AbsHdr' = AbsHdr
      BY <2>5, <2>6 DEF AbsHdr
    <3>3. QED BY <1>2, <2>1, <3>1, <3>2 DEF Container!Resize
  <2>8. QED BY <1>2, <2>7 DEF Container!ContainerNext
<1>3. QED BY <1>1, <1>2

(* A step that installs or updates wrapper w alone changes the caller's    *)
(* view at w alone.                                                        *)
LEMMA PointView ==
  ASSUME NEW w \in Handles, NEW h, NEW sl,
         \A u \in Handles \ {w} : AbsHdr'[u] = AbsHdr[u] /\ AbsSlice'[u] = AbsSlice[u],
         AbsHdr'[w] = h, AbsSlice'[w] = sl
  PROVE  AbsHdr' = [AbsHdr EXCEPT ![w] = h] /\ AbsSlice' = [AbsSlice EXCEPT ![w] = sl]
BY DEF AbsHdr, AbsSlice

(* Install touches no other wrapper. *)
LEMMA InstallOthers ==
  ASSUME TypeOK, NEW w \in Handles, NEW c, NEW l, NEW f, NEW m, Install(w, c, l, f, m)
  PROVE  \A u \in Handles \ {w} : AbsHdr'[u] = AbsHdr[u] /\ AbsSlice'[u] = AbsSlice[u]
<1> SUFFICES ASSUME NEW u \in Handles \ {w}
             PROVE  AbsHdr'[u] = AbsHdr[u] /\ AbsSlice'[u] = AbsSlice[u]
  OBVIOUS
<1>1. live'[u] = live[u] /\ flags'[u] = flags[u] /\ len'[u] = len[u] /\ mem'[u] = mem[u]
  BY DEF Install, TypeOK
<1>2. QED BY <1>1, FrameView

(* Install of a live wrapper w with header f and count l: the view at w. *)
LEMMA InstallView ==
  ASSUME TypeOK, NEW w \in Handles, NEW c, NEW l, NEW f, NEW m, Install(w, c, l, f, m)
  PROVE  AbsHdr'[w] = f /\ AbsSlice'[w] = [i \in 1..l |-> m[i]] /\ live'[w]
<1>1. live'[w] /\ flags'[w] = f /\ len'[w] = l /\ mem'[w] = m
  BY DEF Install, TypeOK
<1>2. QED BY <1>1 DEF AbsHdr, AbsSlice, AsSlice

(* new(n) is the container's new(n); its failure is invisible. *)
LEMMA NewRefines ==
  ASSUME IInv, NEW w \in Handles, NEW n \in 0..MaxLen + 1, New(w, n)
  PROVE  [Container!ContainerNext]_Container!containerVars
<1>1. CASE n > MaxLen
  BY <1>1, StutterView DEF New, Fail
<1>2. CASE n <= MaxLen
  <2>1. Install(w, n, n, 0, Zeroed(n)) /\ ~live[w] /\ TypeOK
    BY <1>2 DEF New, IInv
  <2>2. AbsSlice'[w] = [i \in 1..n |-> Zero] /\ AbsHdr'[w] = 0
    BY <1>2, <2>1, InstallView DEF Zeroed, Slots, TypeOK
  <2>3. Container!MakeNew(w, n)
    BY <1>2, <2>1, <2>2, InstallOthers, PointView DEF Container!MakeNew,
       Container!Create, Install, TypeOK
  <2>4. QED BY <1>2, <2>3 DEF Container!ContainerNext
<1>3. QED BY <1>1, <1>2

(* A write through as_mut_slice is the container's write. *)
LEMMA SetEntryRefines ==
  ASSUME IInv, NEW w \in Handles, NEW i \in Slots, NEW v \in Values, SetEntry(w, i, v)
  PROVE  [Container!ContainerNext]_Container!containerVars
<1>1. TypeOK /\ live[w] /\ i \in 1..len[w]
  BY DEF SetEntry, IInv
<1>2. \A u \in Handles \ {w} : AbsHdr'[u] = AbsHdr[u] /\ AbsSlice'[u] = AbsSlice[u]
  <2> SUFFICES ASSUME NEW u \in Handles \ {w}
               PROVE  AbsHdr'[u] = AbsHdr[u] /\ AbsSlice'[u] = AbsSlice[u]
    OBVIOUS
  <2>1. live'[u] = live[u] /\ flags'[u] = flags[u] /\ len'[u] = len[u] /\ mem'[u] = mem[u]
    BY <1>1 DEF SetEntry, TypeOK
  <2>2. QED BY <2>1, FrameView
<1>3. AbsSlice'[w] = [AbsSlice[w] EXCEPT ![i] = v] /\ AbsHdr'[w] = AbsHdr[w]
  <2>1. AbsSlice[w] = [j \in 1..len[w] |-> mem[w][j]]
    BY <1>1, SliceView
  <2>2. AbsSlice'[w] = [j \in 1..len[w] |-> mem'[w][j]]
    BY <1>1 DEF SetEntry, AbsSlice, AsSlice
  <2>3. \A j \in 1..len[w] : mem'[w][j] = IF j = i THEN v ELSE mem[w][j]
    BY <1>1 DEF SetEntry, TypeOK
  <2>4. AbsHdr'[w] = AbsHdr[w]
    BY <1>1 DEF SetEntry, AbsHdr, TypeOK
  <2>5. [j \in 1..len[w] |-> mem'[w][j]] = [[j \in 1..len[w] |-> mem[w][j]] EXCEPT ![i] = v]
    BY <1>1, <2>3
  <2>6. QED BY <2>1, <2>2, <2>4, <2>5
<1>4. i \in 1..Len(AbsSlice[w]) /\ i \in 1..MaxLen
  BY <1>1, SliceView DEF Slots
<1>5. Container!Write(w, i, v)
  <2>1. AbsSlice' = [AbsSlice EXCEPT ![w][i] = v]
    BY <1>2, <1>3, PointView
  <2>2. AbsHdr' = AbsHdr
    BY <1>2, <1>3 DEF AbsHdr
  <2>3. QED BY <1>1, <1>4, <2>1, <2>2 DEF Container!Write, SetEntry
<1>6. QED BY <1>4, <1>5 DEF Container!ContainerNext

(* clone() is the container's clone: the same header and entries. *)
LEMMA CloneRefines ==
  ASSUME IInv, NEW w \in Handles, NEW src \in Handles, Clone(src, w)
  PROVE  [Container!ContainerNext]_Container!containerVars
<1>1. /\ Install(w, len[src], len[src], flags[src],
                 [i \in Slots |-> IF i <= len[src] THEN mem[src][i] ELSE Garbage])
      /\ live[src] /\ ~live[w] /\ TypeOK /\ len[src] <= MaxLen
  BY DEF Clone, IInv, AllocInit, TypeOK
<1>2. AbsSlice'[w] = AbsSlice[src] /\ AbsHdr'[w] = AbsHdr[src]
  <2>1. AbsSlice[src] = [i \in 1..len[src] |-> mem[src][i]] /\ AbsHdr[src] = flags[src]
    BY <1>1, SliceView
  <2>2. QED BY <1>1, <2>1, InstallView DEF TypeOK, Slots
<1>3. Container!MakeClone(src, w)
  BY <1>1, <1>2, InstallOthers, PointView DEF Container!MakeClone, Container!Create,
     Install, TypeOK
<1>4. QED BY <1>3 DEF Container!ContainerNext

(* Deserialization loads the entries vector it was handed, or fails        *)
(* invisibly.                                                              *)
LEMMA DeserializeRefines ==
  ASSUME IInv, NEW w \in Handles, NEW hl \in 0..MaxLen + 1, NEW hf \in Flags,
         NEW ents \in Payloads, Deserialize(w, hl, hf, ents)
  PROVE  [Container!ContainerNext]_Container!containerVars
<1>1. PICK k \in 0..MaxLen + 1 : ents \in [1..k -> Values]
  BY DEF Payloads
<1>2. Len(ents) = k
  BY <1>1
<1>3. CASE Len(ents) > MaxLen \/ hl # Len(ents)
  BY <1>3, StutterView DEF Deserialize, Fail
<1>4. CASE Len(ents) <= MaxLen /\ hl = Len(ents)
  <2>1. /\ Install(w, k, hl, hf,
                   [i \in Slots |-> IF i <= k THEN ents[i] ELSE Garbage])
        /\ ~live[w] /\ TypeOK /\ k \in 0..MaxLen /\ hl = k
    BY <1>2, <1>4 DEF Deserialize, IInv
  <2>2. AbsSlice'[w] = ents /\ AbsHdr'[w] = hf
    BY <1>1, <2>1, InstallView DEF Slots
  <2>3. ents \in Container!Bounded
    BY <1>1, <2>1 DEF Container!Bounded
  <2>4. Container!Load(w, hf, ents)
    BY <2>1, <2>2, <2>3, InstallOthers, PointView DEF Container!Load,
       Container!Create, Install, TypeOK
  <2>5. QED BY <2>3, <2>4 DEF Container!ContainerNext
<1>5. QED BY <1>3, <1>4

(* A kernel fill loads the k entries the kernel wrote, with a zeroed       *)
(* header; a failed ioctl drops the wrapper before anyone sees it.         *)
LEMMA GetCpuidRefines ==
  ASSUME IInv, NEW w \in Handles, NEW n \in 0..MaxLen + 1, GetCpuid(w, n)
  PROVE  [Container!ContainerNext]_Container!containerVars
<1>1. CASE Fail("Errno")
  BY <1>1, StutterView DEF Fail
<1>2. CASE \E k \in 0..n : \E vals \in [1..k -> Values] :
             /\ Install(w, n, k, 0,
                        [i \in Slots |-> IF i <= k THEN vals[i] ELSE Zeroed(n)[i]])
             /\ lastErr' = "Ok"
  <2>0. PICK k \in 0..n : \E vals \in [1..k -> Values] :
             Install(w, n, k, 0,
                     [i \in Slots |-> IF i <= k THEN vals[i] ELSE Zeroed(n)[i]])
    BY <1>2
  <2>1. PICK vals \in [1..k -> Values] :
             Install(w, n, k, 0,
                     [i \in Slots |-> IF i <= k THEN vals[i] ELSE Zeroed(n)[i]])
    BY <2>0
  <2>2. ~live[w] /\ TypeOK /\ n <= MaxLen
    BY DEF GetCpuid, IInv
  <2>3. AbsSlice'[w] = vals /\ AbsHdr'[w] = 0
    BY <2>1, <2>2, InstallView DEF Slots
  <2>4. vals \in Container!Bounded
    BY <2>1, <2>2 DEF Container!Bounded
  <2>5. Container!Load(w, 0, vals)
    BY <2>1, <2>2, <2>3, <2>4, InstallOthers, PointView DEF Container!Load,
       Container!Create, Install, TypeOK
  <2>6. QED BY <2>4, <2>5, FlagsAssumption DEF Container!ContainerNext
<1>3. QED BY <1>1, <1>2 DEF GetCpuid

(* Dropping the owner destroys the container; set_gsi_routing changes     *)
(* nothing the caller sees.                                                *)
LEMMA DropRefines ==
  ASSUME IInv, NEW w \in Handles, Drop(w) \/ SetGsiRouting(w)
  PROVE  [Container!ContainerNext]_Container!containerVars
<1>1. CASE SetGsiRouting(w)
  BY <1>1, StutterView DEF SetGsiRouting
<1>2. CASE Drop(w)
  <2>1. live[w] /\ ~live'[w] /\ TypeOK /\ UNCHANGED <<flags, len, mem>>
        /\ live' = [live EXCEPT ![w] = FALSE]
    BY <1>2 DEF Drop, IInv, TypeOK
  <2>2. \A u \in Handles \ {w} : AbsHdr'[u] = AbsHdr[u] /\ AbsSlice'[u] = AbsSlice[u]
    BY <2>1, FrameView DEF TypeOK
  <2>3. AbsSlice'[w] = << >> /\ AbsHdr'[w] = 0
    BY <2>1 DEF AbsSlice, AbsHdr
  <2>4. Container!Destroy(w)
    BY <2>1, <2>2, <2>3, PointView DEF Container!Destroy
  <2>5. QED BY <2>4 DEF Container!ContainerNext
<1>3. QED BY <1>1, <1>2

(* Every step of the wrapper is a step of the container or invisible to   *)
(* its caller.                                                             *)
LEMMA NextRefines ==
  IInv /\ [Next]_vars => [Container!ContainerNext]_Container!containerVars
<1> SUFFICES ASSUME IInv, [Next]_vars
             PROVE  [Container!ContainerNext]_Container!containerVars
  OBVIOUS
<1>1. CASE UNCHANGED vars
  BY <1>1, StutterView DEF vars
<1>2. CASE Next
  <2>1. PICK w \in Handles :
          \/ \E n \in 0..MaxLen + 1 : New(w, n) \/ SetLen(w, n) \/ GetCpuid(w, n)
          \/ \E i \in Slots, v \in Values : SetEntry(w, i, v)
          \/ \E src \in Handles : Clone(src, w)
          \/ \E hl \in 0..MaxLen + 1, hf \in Flags, ents \in Payloads :
               Deserialize(w, hl, hf, ents)
          \/ Drop(w)
          \/ GetMsrIndexList(w)
          \/ SetGsiRouting(w)
    BY <1>2 DEF Next, WrapperNext
  <2>2. GetMsrIndexList(w) => [Container!ContainerNext]_Container!containerVars
    <3>1. MaxLen \in 0..MaxLen + 1
      BY MaxLenAssumption
    <3>2. QED BY <3>1, GetCpuidRefines DEF GetMsrIndexList
  <2>3. QED
    BY <2>1, <2>2, NewRefines, SetLenRefines, GetCpuidRefines, SetEntryRefines,
       CloneRefines, DeserializeRefines, DropRefines
<1>3. QED BY <1>1, <1>2

(* The wrapper implements the container of spec.md 4.1 (the property      *)
(* FamRefines the runs check), for every max_len, value set and number of *)
(* wrappers: through as_slice and the header, new, set_len, the slice     *)
(* write, clone, deserialization, the kernel fills of get_cpuid and       *)
(* get_msr_index_list and drop are the container's operations, and every  *)
(* error path and set_gsi_routing is invisible.                           *)
THEOREM RefinesContainer == Spec => FamRefines
BY InitIInv, NextIInv, InitRefines, NextRefines, PTL
   DEF Spec, FamRefines, Container!ContainerSpec

=============================================================================
