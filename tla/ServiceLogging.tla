---------------------------- MODULE ServiceLogging ----------------------------
(****************************************************************************)
(* service/service_logging.cpp: the ring of log messages on the shared      *)
(* board.  Every process logs with log_data; proc_msg prints the messages   *)
(* whose bit is set in m_logging_mask, oldest first, and clears those bits. *)
(*                                                                          *)
(* The position is taken with an atomic add and the mask is cleared with an *)
(* atomic xor, but log_data sets its bit with a plain `|=', which is a load *)
(* and a store.  A message is known by the number log_data drew for it.     *)
(****************************************************************************)
EXTENDS Integers, Sequences, FiniteSets

CONSTANTS
  Writers,    (* processes that call log_data                                *)
  Readers,    (* processes that call proc_msg                                *)
  Size,       (* LOGGING_SIZE: 32                                            *)
  MaxMsgs,    (* bound on the messages logged                                *)
  MaxReads    (* bound on the calls of proc_msg                              *)

ASSUME LoggingAssumption ==
  /\ Size \in Nat \ {0}
  /\ MaxMsgs \in Nat
  /\ MaxReads \in Nat

Procs == Writers \cup Readers
Slots == 0..(Size - 1)
Nothing == -1

VARIABLES
  pos,        (* m_logging_pos                                               *)
  mask,       (* m_logging_mask as the set of its bits; 1 << 31 also sets
                 every bit above it, and they are set and cleared together   *)
  ctxes,      (* m_ctxes: the header and the text of each slot               *)
  pc,
  num,        (* number drawn by log_data; i of the loop in proc_msg         *)
  seen,       (* the mask a process has loaded                               *)
  first,      (* pos % LOGGING_SIZE as proc_msg read it                      *)
  (* history *)
  out,        (* what the latest call of proc_msg printed                    *)
  printed,    (* how often each message was printed                          *)
  done,       (* messages whose log_data returned                            *)
  authors,    (* processes that have called log_data                         *)
  printers,   (* processes that have called proc_msg                         *)
  reads       (* calls of proc_msg                                           *)

vars == <<pos, mask, ctxes, pc, num, seen, first, out, printed, done, authors, printers, reads>>

Init ==
  /\ pos = 0
  /\ mask = {}
  /\ ctxes = [i \in Slots |-> [head |-> Nothing, mesg |-> Nothing]]
  /\ pc = [p \in Procs |-> "idle"]
  /\ num = [p \in Procs |-> 0]
  /\ seen = [p \in Procs |-> {}]
  /\ first = [p \in Procs |-> 0]
  /\ out = [p \in Readers |-> <<>>]
  /\ printed = [n \in 0..(MaxMsgs - 1) |-> 0]
  /\ done = {}
  /\ authors = {}
  /\ printers = {}
  /\ reads = 0

Goto(p, from, to) ==
  /\ pc[p] = from
  /\ pc' = [pc EXCEPT ![p] = to]

-------------------------------------------------------------------------------
(* log_data *)

\* Defect for mutation: the position is read and written without the atomic add
\* taking effect.
DrawAgain(p) == pos

Drawn(p) == pos + 1

Draw(p) ==
  /\ pos < MaxMsgs
  /\ Goto(p, "idle", "head")
  /\ num' = [num EXCEPT ![p] = pos]
  /\ pos' = Drawn(p)
  /\ authors' = authors \cup {p}
  /\ UNCHANGED <<mask, ctxes, seen, first, out, printed, done, printers, reads>>

Slot(n) == n % Size

\* Type, process and time.
WriteHead(p) ==
  /\ Goto(p, "head", "mesg")
  /\ ctxes' = [ctxes EXCEPT ![Slot(num[p])].head = num[p]]
  /\ UNCHANGED <<pos, mask, num, seen, first, out, printed, done, authors, printers, reads>>

WriteMesg(p) ==
  /\ Goto(p, "mesg", "load")
  /\ ctxes' = [ctxes EXCEPT ![Slot(num[p])].mesg = num[p]]
  /\ UNCHANGED <<pos, mask, num, seen, first, out, printed, done, authors, printers, reads>>

LoadMask(p) ==
  /\ Goto(p, "load", "store")
  /\ seen' = [seen EXCEPT ![p] = mask]
  /\ UNCHANGED <<pos, mask, ctxes, num, first, out, printed, done, authors, printers, reads>>

WithOwnBit(p) == seen[p] \cup {Slot(num[p])}

StoreMask(p) ==
  /\ Goto(p, "store", "idle")
  /\ mask' = WithOwnBit(p)
  /\ done' = done \cup {num[p]}
  /\ UNCHANGED <<pos, ctxes, num, seen, first, out, printed, authors, printers, reads>>

-------------------------------------------------------------------------------
(* proc_msg *)

SnapshotMask(p) ==
  /\ reads < MaxReads
  /\ reads' = reads + 1
  /\ printers' = printers \cup {p}
  /\ Goto(p, "idle", "pos")
  /\ seen' = [seen EXCEPT ![p] = mask]
  /\ out' = [out EXCEPT ![p] = <<>>]
  /\ UNCHANGED <<pos, mask, ctxes, num, first, printed, done, authors>>

\* Defect for mutation: the scan starts at the first slot.
ScanFromZero == 0

ScanStart == pos % Size

ReadPos(p) ==
  /\ Goto(p, "pos", "scan")
  /\ first' = [first EXCEPT ![p] = ScanStart]
  /\ num' = [num EXCEPT ![p] = ScanStart]
  /\ UNCHANGED <<pos, mask, ctxes, seen, out, printed, done, authors, printers, reads>>

Emit(p, ctx) ==
  /\ out' = [out EXCEPT ![p] = Append(@, ctx)]
  /\ printed' = [n \in DOMAIN printed |->
                   printed[n] + IF n = ctx.mesg THEN 1 ELSE 0]

InScan(p) == num[p] < Size + first[p]

ScanSlot(p) ==
  /\ pc[p] = "scan"
  /\ InScan(p)
  /\ num' = [num EXCEPT ![p] = @ + 1]
  /\ IF Slot(num[p]) \in seen[p]
       THEN Emit(p, ctxes[Slot(num[p])])
       ELSE UNCHANGED <<out, printed>>
  /\ UNCHANGED <<pos, mask, ctxes, pc, seen, first, done, authors, printers, reads>>

\* Defects for mutation: every bit is cleared, or none.
ClearAll(p) == {}

ClearNone(p) == mask

\* fetch_and_xor with the snapshot: bits set since then stay.
Toggled(p) == (mask \ seen[p]) \cup (seen[p] \ mask)

ClearMask(p) ==
  /\ ~InScan(p)
  /\ Goto(p, "scan", "idle")
  /\ mask' = Toggled(p)
  /\ UNCHANGED <<pos, ctxes, num, seen, first, out, printed, done, authors, printers, reads>>

-------------------------------------------------------------------------------
LogData(p) == Draw(p) \/ WriteHead(p) \/ WriteMesg(p) \/ LoadMask(p) \/ StoreMask(p)

ProcMsg(p) == SnapshotMask(p) \/ ReadPos(p) \/ ScanSlot(p) \/ ClearMask(p)

Next ==
  \/ \E p \in Writers : LogData(p)
  \/ \E p \in Readers : ProcMsg(p)

Spec == Init /\ [][Next]_vars

-------------------------------------------------------------------------------
(* Properties *)

\* Every variable keeps its type; in particular no scan leaves its ring.
TypeOK ==
  /\ pos \in 0..MaxMsgs
  /\ mask \subseteq Slots
  /\ ctxes \in [Slots -> [head : -1..(MaxMsgs - 1), mesg : -1..(MaxMsgs - 1)]]
  /\ pc \in [Procs -> {"idle", "head", "mesg", "load", "store", "pos", "scan"}]
  /\ num \in [Procs -> Nat]
  /\ seen \in [Procs -> SUBSET Slots]
  /\ first \in [Procs -> Slots]
  /\ \A p \in Procs : pc[p] = "scan" => num[p] - first[p] \in 0..Size
  /\ done \subseteq 0..(MaxMsgs - 1)
  /\ authors \subseteq Writers
  /\ printers \subseteq Readers
  /\ reads \in 0..MaxReads

Writing(p) == pc[p] \in {"head", "mesg", "load", "store"}

\* While at most LOGGING_SIZE messages are logged, no two processes write the
\* same slot, and what proc_msg prints is one whole message, never the header
\* of one with the text of another and never an empty slot.
WholeMessages ==
  pos <= Size =>
    /\ \A p, q \in Writers :
         p # q /\ Writing(p) /\ Writing(q) => Slot(num[p]) # Slot(num[q])
    /\ \A p \in Readers : \A k \in 1..Len(out[p]) :
         out[p][k].head = out[p][k].mesg /\ out[p][k].mesg # Nothing

\* As long as one process logs, and no more than the ring holds, a message whose
\* log_data has returned is printed, or its bit is set, or the scan in progress
\* will reach it, however many processes print: the plain `|=' can print a
\* message twice, and cannot lose one.
NeverLost ==
  pos <= Size /\ Cardinality(authors) <= 1 =>
    \A n \in done :
      \/ printed[n] > 0
      \/ Slot(n) \in mask
      \/ \E p \in Readers : pc[p] \in {"pos", "scan"} /\ Slot(n) \in seen[p]

\* One process does all the logging and all the printing so far.
Alone == Cardinality(authors \cup printers) <= 1

\* A process that is alone prints the messages in the order it logged them in.
InOrder ==
  Alone =>
    \A p \in Readers : \A k \in 2..Len(out[p]) :
      out[p][k - 1].mesg < out[p][k].mesg

\* When a process that is alone has scanned the ring, only messages the ring has
\* overwritten are unprinted, and none is ever printed twice.
PrintedOnce ==
  Alone =>
    \A p \in Readers :
      /\ \A n \in DOMAIN printed : printed[n] <= 1
      /\ pc[p] = "scan" /\ ~InScan(p) =>
           \A n \in done : n >= pos - Size => printed[n] = 1
===============================================================================
