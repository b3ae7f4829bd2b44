------------------------------ MODULE SpiMailbox ------------------------------
(****************************************************************************)
(* What the X-One emulator promises to the code on both sides of the shared *)
(* board, with no lock, no worker status and no program counters: a set of  *)
(* requests, at most one of each type, that the SPI worker takes as a whole *)
(* and answers in a fixed order before it takes the next batch.             *)
(* XoneEmulator is shown to implement this specification.                   *)
(****************************************************************************)
EXTENDS Naturals

CONSTANTS
  Bits,      (* the request types                                            *)
  Silent,    (* those of Bits the worker consumes without answering          *)
  Rank       (* a number for each of Bits: its place when a batch is served  *)

VARIABLES
  pending,   (* requests accepted and not yet taken                          *)
  batch,     (* requests taken and not yet answered                          *)
  open       (* FALSE once the client has asked the worker to quit           *)

mailboxVars == <<pending, batch, open>>

MailboxInit ==
  /\ pending = {}
  /\ batch = {}
  /\ open = TRUE

\* A request is accepted only while none of its type is waiting, and never
\* after the client has closed the mailbox.
Submit(b) ==
  /\ open
  /\ b \notin pending
  /\ pending' = pending \cup {b}
  /\ UNCHANGED <<batch, open>>

\* Nothing is left behind and nothing is taken while a batch is being served.
Take ==
  /\ batch = {}
  /\ pending # {}
  /\ batch' = pending
  /\ pending' = {}
  /\ UNCHANGED open

Answer(b) ==
  /\ b \in batch \ Silent
  /\ \A c \in batch \ Silent : Rank[b] <= Rank[c]
  /\ batch' = batch \ {b}
  /\ UNCHANGED <<pending, open>>

Discard ==
  /\ batch # {}
  /\ batch \subseteq Silent
  /\ batch' = {}
  /\ UNCHANGED <<pending, open>>

Close ==
  /\ open
  /\ open' = FALSE
  /\ UNCHANGED <<pending, batch>>

MailboxNext ==
  \/ \E b \in Bits : Submit(b) \/ Answer(b)
  \/ Take
  \/ Discard
  \/ Close

MailboxSpec == MailboxInit /\ [][MailboxNext]_mailboxVars
===============================================================================
