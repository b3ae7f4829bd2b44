------------------------------ MODULE WorkerBoard ------------------------------
(****************************************************************************)
(* service/worker_board.cpp: the shared board and the bulks carved out of   *)
(* it.  A bulk is named by its index, fd; create_bulk hands out the next    *)
(* stretch of remain_data, in multiples of LM_BULK_PADDING, and get_bulk    *)
(* turns an fd into an address, here an offset into remain_data.            *)
(*                                                                          *)
(* m_bulk_lock is never taken: bulks are created by one process, before the *)
(* worker is forked, and the model has that one process.                    *)
(****************************************************************************)
EXTENDS Integers

CONSTANTS
  Sizes,      (* sizes the client asks for                                   *)
  BulkSize,   (* LM_BULK_SIZE, entries of m_bulks: 16                        *)
  Header,     (* sizeof(lm_worker_board)                                     *)
  ShmSize,    (* the mapping: Header rounded up to a multiple of 2 MB        *)
  IntMax      (* the largest int: 2^31 - 1                                   *)

Padding == 128               \* LM_BULK_PADDING

\* The header is packed to 128 and its last eight bytes are remain_data, so
\* that the bulks begin before the end of the header.  Every size asked for is a
\* sizeof; the mapping is far smaller than the largest of them may be.
ASSUME BoardAssumption ==
  /\ IntMax \in Nat /\ ShmSize + 2 * Padding <= IntMax
  /\ Sizes \subseteq 0..IntMax
  /\ BulkSize \in Nat \ {0}
  /\ Header \in Nat /\ Header >= 8
  /\ ShmSize \in Nat /\ ShmSize >= Header

Fds == 0..(BulkSize - 1)
BulkEnd == BulkSize          \* LM_BULK_END, what create_bulk returns on failure

VARIABLES
  mapped,     (* does the mapping exist?                                     *)
  boardSize,  (* m_board_size                                                *)
  bulkPos,    (* m_bulk_pos                                                  *)
  bulkCount,  (* m_bulk_count                                                *)
  bulks,      (* m_bulks                                                     *)
  lastFd,     (* what the latest create_bulk returned                        *)
  want        (* history: the size asked for, per bulk                       *)

vars == <<mapped, boardSize, bulkPos, bulkCount, bulks, lastFd, want>>

Zeroed == [f \in Fds |-> [pos |-> 0, size |-> 0]]

Init ==
  /\ mapped = FALSE
  /\ boardSize = 0
  /\ bulkPos = 0
  /\ bulkCount = 0
  /\ bulks = Zeroed
  /\ lastFd = BulkEnd
  /\ want = [f \in Fds |-> 0]

\* mmap, and when it fails mmap again, then memset.
Create ==
  /\ ~mapped
  /\ mapped' = TRUE
  /\ boardSize' = ShmSize - Header
  /\ bulkPos' = 0
  /\ bulkCount' = 0
  /\ bulks' = Zeroed
  /\ want' = [f \in Fds |-> 0]
  /\ UNCHANGED lastFd

\* Both calls of mmap fail.
CreateFails ==
  /\ ~mapped
  /\ UNCHANGED vars

Destroy ==
  /\ mapped
  /\ mapped' = FALSE
  /\ UNCHANGED <<boardSize, bulkPos, bulkCount, bulks, lastFd, want>>

\* Defect for mutation: the size is rounded down.
RoundedDown(size) == (size \div Padding) * Padding

\* What an int addition leaves of a sum above the largest int.
Wrap(n) == IF n > IntMax THEN n - 2 * (IntMax + 1) ELSE n

\* The division of C, toward zero.
Quotient(n, d) == IF n < 0 THEN -((-n) \div d) ELSE n \div d

RefinedSize(size) == Quotient(Wrap(size + Padding - 1), Padding) * Padding

\* Defect for mutation: only the start of the bulk is compared with the end.
StartFits(size) == bulkPos < boardSize

\* The sum is one of uint64_t, where a number below zero is a huge one.
Fits(size) == bulkPos + RefinedSize(size) \in 0..(boardSize - 1)

HasEntry == bulkCount < BulkSize

\* Defect for mutation: the count is read before it was incremented last.
StaleFd == IF bulkCount = 0 THEN 0 ELSE bulkCount - 1

NextFd == bulkCount

CreateBulk(size) ==
  /\ mapped
  /\ HasEntry
  /\ Fits(size)
  /\ lastFd' = NextFd
  /\ bulkCount' = bulkCount + 1
  /\ bulks' = [bulks EXCEPT ![NextFd] =
                 [pos |-> bulkPos, size |-> RefinedSize(size)]]
  /\ bulkPos' = bulkPos + RefinedSize(size)
  /\ want' = [want EXCEPT ![NextFd] = size]
  /\ UNCHANGED <<mapped, boardSize>>

CreateBulkFails(size) ==
  /\ mapped
  /\ ~(HasEntry /\ Fits(size))
  /\ lastFd' = BulkEnd
  /\ UNCHANGED <<mapped, boardSize, bulkPos, bulkCount, bulks, want>>

\* An fd that was never created reads as offset 0.
Null == -1

GetBulk(fd) == IF 0 <= fd /\ fd < BulkEnd THEN bulks[fd].pos ELSE Null

Next ==
  \/ Create
  \/ CreateFails
  \/ Destroy
  \/ \E size \in Sizes : CreateBulk(size) \/ CreateBulkFails(size)

Spec == Init /\ [][Next]_vars

-------------------------------------------------------------------------------
(* Properties *)

\* Every variable keeps its type.
TypeOK ==
  /\ mapped \in BOOLEAN
  /\ boardSize \in Nat
  /\ bulkPos \in Nat
  /\ bulkCount \in 0..BulkSize
  /\ bulks \in [Fds -> [pos : Nat, size : Nat]]
  /\ lastFd \in 0..BulkEnd
  /\ want \in [Fds -> Nat]

Created == 0..(bulkCount - 1)

\* The memory that get_bulk gives out for two bulks never overlaps, for as long
\* as the caller stays within the size it asked for; not even when a size is so
\* large that rounding it up goes past the largest int.
BulksApart ==
  \A f, g \in Created : f < g => GetBulk(f) + want[f] <= GetBulk(g)

\* Every byte of every bulk lies in the mapping: remain_data begins at
\* Header - 8 or before, and the last bulk ends before the mapping does.
BulksMapped ==
  \A f \in Created : Header + GetBulk(f) + want[f] <= ShmSize

\* A bulk stays where it is until the board is created anew, so that a pointer
\* from get_bulk stays good; in particular across later create_bulk calls.
BulksStay ==
  [][mapped /\ mapped' =>
       \A f \in Created : GetBulk(f)' = GetBulk(f) /\ f < bulkCount']_vars
===============================================================================
