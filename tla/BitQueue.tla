------------------------------ MODULE BitQueue ------------------------------
(***************************************************************************)
(* The work list of the points-to solver: class BitQueue of                *)
(* include/common/WorkList.h, a queue with a Bitmap that holds a bit for   *)
(* every element in it (include/common/Bitmap.h).  The bitmap has a number *)
(* of bytes and doubles it once when a bit beyond them is written; nothing *)
(* checks that this makes room.                                            *)
(*                                                                         *)
(* A bit written beyond the bytes is a write to memory the bitmap does not *)
(* own: wild records it, and nothing is claimed of what follows.           *)
(***************************************************************************)
EXTENDS Naturals, Sequences

CONSTANTS
  BitSize,   \* BIT_SIZE
  Elem,      \* the elements queued, node numbers
  MaxLen     \* bound of this model on the length of the queue

ASSUME BitSizeAssumption == BitSize \in Nat /\ MaxLen \in Nat

\* m_BitSize as the constructor of Bitmap computes it, a multiple of 8.
InitialBytes == ((BitSize \div 8 + 1) \div 8 + 1) * 8

ASSUME ElemAssumption == Elem \subseteq Nat

VARIABLES
  list,    \* m_List
  bits,    \* the bits set in m_Bitmap
  bytes,   \* m_BitSize
  wild     \* a write went beyond the bytes

listVars == <<list, bits, bytes, wild>>

ListInit ==
  /\ list = <<>> /\ bits = {} /\ bytes = InitialBytes /\ wild = FALSE

\* ExtednMemory: the size after it.
Extended == 2 * bytes

\* SetBit; an element beyond the bytes extends the bitmap first.
SetBit(e, val) ==
  LET room == IF e \div 8 >= bytes THEN Extended ELSE bytes
  IN  /\ bytes' = room
      /\ IF e \div 8 < room
         THEN bits' = (IF val THEN bits \cup {e} ELSE bits \ {e}) /\ UNCHANGED wild
         ELSE wild' = TRUE /\ UNCHANGED bits

CheckBit(e) == e \div 8 < bytes /\ e \in bits

InQueue(e) ==
  /\ Len(list) < MaxLen
  /\ IF CheckBit(e)
     THEN UNCHANGED listVars
     ELSE list' = Append(list, e) /\ SetBit(e, TRUE)

\* Seeded fault: the bit of the element taken off stays set.
OutQueueKeepsBit ==
  /\ list # <<>>
  /\ list' = Tail(list)
  /\ UNCHANGED <<bits, bytes, wild>>

OutQueue ==
  /\ list # <<>>
  /\ list' = Tail(list)
  /\ SetBit(Head(list), FALSE)

ListNext == (\E e \in Elem : InQueue(e)) \/ OutQueue

ListSpec == ListInit /\ [][ListNext]_listVars

-----------------------------------------------------------------------------
(* Properties *)

ListTypeOK ==
  /\ list \in Seq(Elem) /\ bits \subseteq Elem
  /\ bytes \in Nat \ {0} /\ wild \in BOOLEAN

\* The bitmap agrees with the queue, so InQueue appends an element exactly
\* when it is not queued, as module Anderson takes it to do.
BitsMatchList == \A e \in Elem : CheckBit(e) <=> \E i \in DOMAIN list : list[i] = e

\* No element waits twice, however it came and went.
QueuedOnce == \A i, j \in DOMAIN list : list[i] = list[j] => i = j

\* Over any sequence of calls, and however often the bitmap has grown, the
\* queue holds exactly the elements with a bit, each once: no node is visited
\* for nothing, and none waits for ever behind a bit that was left set.  That
\* ends with the first write beyond the bitmap, which nothing prevents.
ExactQueue == ~wild => BitsMatchList /\ QueuedOnce

=============================================================================
