---------------------------- MODULE FamContainer ----------------------------
(***************************************************************************)
(* What a FAM container promises its caller (spec.md sections 3 and 4.1): *)
(* a container is its header's other fields and the sequence of its first *)
(* count entries, never longer than MAX_COUNT; that pair is also what     *)
(* equality compares.  new(n) holds n zero entries; regrowth keeps the     *)
(* header and the first min(old, new) entries and zeroes the rest; clone   *)
(* copies header and entries; deserialization and the kernel's fill load  *)
(* any bounded contents; the owner going out of scope destroys it.  The   *)
(* allocation, its slack and uninitialized memory are invisible here.     *)
(* FamWrapper is checked to implement this.                                *)
(***************************************************************************)
EXTENDS Naturals, Sequences

CONSTANTS
  Handles,  \* containers that may exist at the same time
  MaxLen,   \* MAX_COUNT
  Values,   \* entry values
  Zero,     \* the zero entry
  Flags     \* values of the header's other fields; 0 is the zeroed header

VARIABLES
  alive,    \* alive[w]: container w exists
  hdr,      \* hdr[w]: its header's other fields (0 when it does not exist)
  slice     \* slice[w]: its first count entries, as_slice() (<< >> when it does not exist)

containerVars == <<alive, hdr, slice>>

(* The entry sequences a container can hold: at most MAX_COUNT values. *)
Bounded == UNION {[1..k -> Values] : k \in 0..MaxLen}

ContainerInit ==
  /\ alive = [w \in Handles |-> FALSE]
  /\ hdr = [w \in Handles |-> 0]
  /\ slice = [w \in Handles |-> << >>]

(* A new container w with header h and entries s. *)
Create(w, h, s) ==
  /\ ~alive[w]
  /\ alive' = [alive EXCEPT ![w] = TRUE]
  /\ hdr' = [hdr EXCEPT ![w] = h]
  /\ slice' = [slice EXCEPT ![w] = s]

(* new(n): n zero entries and a zeroed header. *)
MakeNew(w, n) == n <= MaxLen /\ Create(w, 0, [i \in 1..n |-> Zero])

(* clone(): the same header and entries. *)
MakeClone(src, w) == alive[src] /\ Create(w, hdr[src], slice[src])

(* Deserialization or a kernel fill: any header and bounded entries. *)
Load(w, h, s) == s \in Bounded /\ Create(w, h, s)

(* Regrowth to n entries: the first min(old, n) kept, the rest zero. *)
Resize(w, n) ==
  /\ alive[w] /\ n <= MaxLen
  /\ slice' = [slice EXCEPT ![w] =
                 [i \in 1..n |-> IF i <= Len(slice[w]) THEN slice[w][i] ELSE Zero]]
  /\ UNCHANGED <<alive, hdr>>

(* as_mut_slice()[i] = v. *)
Write(w, i, v) ==
  /\ alive[w] /\ i \in 1..Len(slice[w])
  /\ slice' = [slice EXCEPT ![w][i] = v]
  /\ UNCHANGED <<alive, hdr>>

(* The single owner goes out of scope. *)
Destroy(w) ==
  /\ alive[w]
  /\ alive' = [alive EXCEPT ![w] = FALSE]
  /\ hdr' = [hdr EXCEPT ![w] = 0]
  /\ slice' = [slice EXCEPT ![w] = << >>]

ContainerNext ==
  \E w \in Handles :
    \/ \E n \in 0..MaxLen : MakeNew(w, n) \/ Resize(w, n)
    \/ \E src \in Handles : MakeClone(src, w)
    \/ \E h \in Flags, s \in Bounded : Load(w, h, s)
    \/ \E i \in 1..MaxLen, v \in Values : Write(w, i, v)
    \/ Destroy(w)

ContainerSpec == ContainerInit /\ [][ContainerNext]_containerVars

=============================================================================
