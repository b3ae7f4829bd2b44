----------------------------- MODULE XoneEmulator -----------------------------
(****************************************************************************)
(* trader/trader_xone_emulator.cpp with the callbacks of                    *)
(* trader/trader_xone_spi.cpp: the emulated X-One trading API.              *)
(*                                                                          *)
(* Two processes share a board mapped MAP_SHARED.  The API process runs the *)
(* client's calls; create_worker forks the SPI worker, which loops over     *)
(* proc_work and calls the client's callbacks.  They share                  *)
(*   - m_board->m_status, written by Release and polled by the worker;      *)
(*   - m_workers[0].m_lock and m_status, the worker's lock and status;      *)
(*   - m_api_data->m_type, one bit per pending request type;                *)
(*   - one request record per type, written outside the lock;               *)
(*   - one response record per type and m_spi_data->m_status.               *)
(*                                                                          *)
(* A step is what a process does between two points at which the other one  *)
(* can see a difference: each write of a request record, each acquisition   *)
(* of the lock, each locked section, each field copied into a response.     *)
(* The client makes any call whenever no other call of its is running.      *)
(****************************************************************************)
EXTENDS Integers

CONSTANTS
  Accounts,      (* account names a request can carry                        *)
  OtherReqs,     (* request types the worker consumes without a response     *)
  Addresses,     (* addresses the client passes to Init                      *)
  MaxCalls,      (* bound on the Req* calls of the client                    *)
  MaxPolls       (* stop_worker polls of Release: 10 in the code             *)

Answered == {"Login", "Logout"}
Reqs == Answered \cup OtherReqs
Bits == {"Connected"} \cup Reqs

ASSUME XoneAssumption ==
  /\ OtherReqs \cap {"Connected", "Login", "Logout", "none"} = {}
  /\ Addresses \subseteq [proto : {"tcp", "other"},
                          ip    : {"good", "zero", "junk", "none"},
                          port  : {"good", "zero", "none"}]
  /\ MaxCalls \in Nat
  /\ MaxPolls \in Nat \ {0}

NoId == -1       \* what the caller's structure holds before an id is assigned
ESRCH == 3

VARIABLES
  (* shared board *)
  boardStatus,   (* m_board->m_status                                        *)
  lock,          (* m_workers[0].m_lock: "free", or the process holding it   *)
  wstatus,       (* m_workers[0].m_status                                    *)
  mtype,         (* m_api_data->m_type, as the set of its bits               *)
  slot,          (* the request record of each type                          *)
  requestId,     (* m_api_data->m_request_id                                 *)
  rsp,           (* the response record of each answered type                *)
  spiStatus,     (* m_spi_data->m_status                                     *)
  (* API process *)
  front,         (* m_protocol, m_front_addr, m_front_port acceptable?       *)
  apiPc,         (* where the API process is                                 *)
  call,          (* the bit of the current or latest call                    *)
  started,       (* what start_worker returned to the latest call            *)
  ret,           (* what the latest call returned to the client              *)
  closer,        (* "Release" or "Join" once one of them was called          *)
  polls,         (* stop_worker polls made by it                             *)
  (* SPI worker *)
  worker,        (* "none" before the fork, "running", "quitting", "exited"  *)
  spiPc,         (* where the worker is in its loop                          *)
  todo,          (* `type' in proc_work: the bits of this batch not served   *)
  (* history, read by no step of the code *)
  calls,         (* Req* calls made                                          *)
  accepted,      (* requests of each type accepted by start_worker           *)
  served         (* requests of each type the worker has dealt with          *)

apiVars   == <<front, apiPc, call, started, ret, closer, polls>>
workVars  == <<worker, spiPc, todo>>
ghostVars == <<calls, accepted, served>>
vars == <<boardStatus, lock, wstatus, mtype, slot, requestId, rsp, spiStatus,
          apiVars, workVars, ghostVars>>

Record == [acct : Accounts \cup {"none"}, id : Int]
Empty  == [acct |-> "none", id |-> 0]

\* The board and the three bulks are zeroed by their creators; the emulator's
\* own fields are not initialised by its constructor, so `front' is anything.
Init ==
  /\ boardStatus = "RUNNING"
  /\ lock = "free"
  /\ wstatus = "STANDBY"
  /\ mtype = {}
  /\ slot = [b \in Reqs |-> Empty]
  /\ requestId = 0
  /\ rsp = [b \in Answered |-> Empty]
  /\ spiStatus = "STANDBY"
  /\ front \in [tcp : BOOLEAN, ip : BOOLEAN, port : BOOLEAN]
  /\ apiPc = "new"
  /\ call = "none"
  /\ started = -1
  /\ ret = -1
  /\ closer = "none"
  /\ polls = 0
  /\ worker = "none"
  /\ spiPc = "check"
  /\ todo = {}
  /\ calls = 0
  /\ accepted = [b \in Bits |-> 0]
  /\ served = [b \in Bits |-> 0]

-------------------------------------------------------------------------------
(* The API process *)

\* The strtok_r loop of Init.  A field with no word of its own keeps its value;
\* any word that is neither "tcp" nor an address goes through atoi into the port;
\* an address that sscanf cannot read leaves a1..a4 as they were on the stack.
ParsedFronts(a) ==
  [tcp  : {a.proto = "tcp" \/ front.tcp},
   ip   : CASE a.ip = "none" -> {front.ip}
            [] a.ip = "junk" -> BOOLEAN
            [] OTHER         -> {a.ip = "good"},
   port : {IF a.port = "none" THEN a.proto = "tcp" /\ front.port
                              ELSE a.port = "good"}]

Accepts(f) == f.tcp /\ f.ip /\ f.port

InitRejected(a, hasSpi) ==
  /\ apiPc = "new"
  /\ front' \in ParsedFronts(a)
  /\ ~(Accepts(front') /\ hasSpi)
  /\ ret' = 1
  /\ UNCHANGED <<boardStatus, lock, wstatus, mtype, slot, requestId, rsp,
                 spiStatus, apiPc, call, started, closer, polls, workVars,
                 calls, accepted, served>>

\* fork may fail; create_worker then only logs, and Init carries on.
CreateWorker(a) ==
  /\ apiPc = "new"
  /\ front' \in ParsedFronts(a)
  /\ Accepts(front')
  /\ worker' \in {"none", "running"}
  /\ call' = "Connected"
  /\ apiPc' = "wlock"
  /\ UNCHANGED <<boardStatus, lock, wstatus, mtype, slot, requestId, rsp,
                 spiStatus, started, ret, closer, polls, spiPc, todo,
                 calls, accepted, served>>

\* A Req* call copies the caller's structure over the only record of its type
\* before it looks at the board.
ReqCopy(b, a) ==
  /\ apiPc = "idle"
  /\ calls < MaxCalls
  /\ calls' = calls + 1
  /\ call' = b
  /\ slot' = [slot EXCEPT ![b] = [acct |-> a, id |-> NoId]]
  /\ apiPc' = IF b \in Answered THEN "assign" ELSE "wlock"
  /\ UNCHANGED <<boardStatus, lock, wstatus, mtype, requestId, rsp, spiStatus,
                 front, started, ret, closer, polls, workVars, accepted, served>>

AssignRequestId ==
  /\ apiPc = "assign"
  /\ slot' = [slot EXCEPT ![call].id = requestId]
  /\ requestId' = requestId + 1
  /\ apiPc' = "wlock"
  /\ UNCHANGED <<boardStatus, lock, wstatus, mtype, rsp, spiStatus,
                 front, call, started, ret, closer, polls, workVars, ghostVars>>

StartWorkerLock ==
  /\ apiPc = "wlock"
  /\ lock = "free"
  /\ lock' = "api"
  /\ apiPc' = "crit"
  /\ UNCHANGED <<boardStatus, wstatus, mtype, slot, requestId, rsp, spiStatus,
                 front, call, started, ret, closer, polls, workVars, ghostVars>>

\* Defect for mutation: the early return leaves the lock taken.
StartWorkerBusyLocked ==
  /\ apiPc = "crit"
  /\ call \in mtype
  /\ started' = 1
  /\ ret' = 0
  /\ apiPc' = "idle"
  /\ UNCHANGED <<boardStatus, lock, wstatus, mtype, slot, requestId, rsp,
                 spiStatus, front, call, closer, polls, workVars, ghostVars>>

\* "Too fast to start work": the caller is told 0 all the same.
StartWorkerBusy ==
  /\ apiPc = "crit"
  /\ call \in mtype
  /\ lock' = "free"
  /\ started' = 1
  /\ ret' = 0
  /\ apiPc' = "idle"
  /\ UNCHANGED <<boardStatus, wstatus, mtype, slot, requestId, rsp, spiStatus,
                 front, call, closer, polls, workVars, ghostVars>>

StartWorker ==
  /\ apiPc = "crit"
  /\ call \notin mtype
  /\ mtype' = mtype \cup {call}
  /\ wstatus' = "START"
  /\ lock' = "free"
  /\ started' = 0
  /\ ret' = 0
  /\ apiPc' = "idle"
  /\ accepted' = [accepted EXCEPT ![call] = @ + 1]
  /\ UNCHANGED <<boardStatus, slot, requestId, rsp, spiStatus,
                 front, call, closer, polls, workVars, calls, served>>

\* Defect for mutation: Release forgets to tell the worker.
StillRunning == "RUNNING"

ReleaseStatus == "QUIT"

\* Join is Release followed by `return 0'.
Release(how) ==
  /\ apiPc = "idle"
  /\ boardStatus' = ReleaseStatus
  /\ closer' = how
  /\ polls' = 0
  /\ apiPc' = "stopping"
  /\ UNCHANGED <<lock, wstatus, mtype, slot, requestId, rsp, spiStatus,
                 front, call, started, ret, workVars, ghostVars>>

\* kill(pid, 0) as the system answers it: 0, or -1 with errno set, for a
\* worker that has gone (0 while it is a zombie); pid 0 is the caller's group.
KillResult == IF worker = "exited" THEN {0, -1} ELSE {0}

StopWorker(killed) == IF killed = ESRCH THEN 0 ELSE 1

LastPoll(n) == n = MaxPolls

ReleasePoll ==
  /\ apiPc = "stopping"
  /\ polls' = polls + 1
  /\ \E killed \in KillResult :
       IF StopWorker(killed) = 0 \/ LastPoll(polls')
       THEN /\ apiPc' = "released"
            /\ ret' = IF closer = "Join" THEN 0 ELSE ret
       ELSE UNCHANGED <<apiPc, ret>>
  /\ UNCHANGED <<boardStatus, lock, wstatus, mtype, slot, requestId, rsp,
                 spiStatus, front, call, started, closer, workVars, ghostVars>>

\* The destructor writes LM_BOARD_QUIT, which is 1 and so reads back as
\* LM_WORKER_START, into the worker's status, without the lock.
Destroy ==
  /\ apiPc \in {"new", "idle", "released"}
  /\ wstatus' = "START"
  /\ apiPc' = "deleted"
  /\ UNCHANGED <<boardStatus, lock, mtype, slot, requestId, rsp, spiStatus,
                 front, call, started, ret, closer, polls, workVars, ghostVars>>

\* The client may overwrite the status its callbacks maintain.
ClientStandby ==
  /\ apiPc = "idle"
  /\ spiStatus' = "STANDBY"
  /\ UNCHANGED <<boardStatus, lock, wstatus, mtype, slot, requestId, rsp,
                 apiVars, workVars, ghostVars>>

-------------------------------------------------------------------------------
(* The SPI worker *)

\* Defect for mutation: the flag looked at is the one the destructor sets.
QuitByWorkerStatus == wstatus = "QUIT"

QuitSeen == boardStatus = "QUIT"

WorkerLoop ==
  /\ worker = "running"
  /\ spiPc = "check"
  /\ IF QuitSeen
       THEN /\ worker' = "quitting"
            /\ UNCHANGED spiPc
       ELSE /\ spiPc' = "try"
            /\ UNCHANGED worker
  /\ UNCHANGED <<boardStatus, lock, wstatus, mtype, slot, requestId, rsp,
                 spiStatus, apiVars, todo, ghostVars>>

WorkerExit ==
  /\ worker = "quitting"
  /\ worker' = "exited"
  /\ UNCHANGED <<boardStatus, lock, wstatus, mtype, slot, requestId, rsp,
                 spiStatus, apiVars, spiPc, todo, ghostVars>>

ProcWorkTryLock ==
  /\ spiPc = "try"
  /\ IF lock = "free"
       THEN /\ lock' = "spi"
            /\ spiPc' = "capture"
       ELSE /\ spiPc' = "check"
            /\ UNCHANGED lock
  /\ UNCHANGED <<boardStatus, wstatus, mtype, slot, requestId, rsp, spiStatus,
                 apiVars, worker, todo, ghostVars>>

\* Defect for mutation: the flags are not cleared.
KeptFlags(type) == mtype

Unflagged(type) == mtype \ type

\* m_type ^= type clears exactly the bits just read.  A batch read with any
\* other status than START is cleared as well, and never looked at.
ProcWorkCapture ==
  /\ spiPc = "capture"
  /\ mtype' = Unflagged(mtype)
  /\ wstatus' = "STOP"
  /\ lock' = "free"
  /\ IF wstatus = "START"
       THEN /\ todo' = mtype
            /\ spiPc' = "serve"
       ELSE /\ spiPc' = "check"
            /\ UNCHANGED todo
  /\ UNCHANGED <<boardStatus, slot, requestId, rsp, spiStatus,
                 apiVars, worker, ghostVars>>

\* err.ErrorID is set to 0 before every batch and nothing else writes it, so
\* the branches for a failed request are not reachable through the worker.
ErrorID == 0

\* The status each callback of ft_trader_xone_spi leaves behind.  A login also
\* stores the response's SessionID, after the status: always the zero of the
\* memset, as the worker fills in the request id and the account only.
OnFrontConnected == "CONNECT"
OnRspUserLogin == IF ErrorID # 0 THEN "LOGIN_FAIL" ELSE "LOGIN"
OnRspUserLogout == IF ErrorID # 0 THEN "RELEASE_API" ELSE "STANDBY"

ServeConnected ==
  /\ spiPc = "serve"
  /\ "Connected" \in todo
  /\ spiStatus' = OnFrontConnected
  /\ todo' = todo \ {"Connected"}
  /\ served' = [served EXCEPT !["Connected"] = @ + 1]
  /\ UNCHANGED <<boardStatus, lock, wstatus, mtype, slot, requestId, rsp,
                 apiVars, worker, spiPc, calls, accepted>>

\* Defect for mutation: a batch is served in any order.
TurnInAnyOrder(b) == b \in todo

\* The three if statements of proc_work, in their order.
Turn(b) ==
  /\ b \in todo
  /\ "Connected" \notin todo
  /\ b = "Logout" => "Login" \notin todo

\* The response is built from the request record as it is now, outside the
\* lock: the request id first, then the account.  A login response is zeroed
\* before, a logout response keeps its account until the new one is copied.
BuildRequestId(b) ==
  /\ spiPc = "serve"
  /\ Turn(b)
  /\ rsp' = [rsp EXCEPT ![b] = [acct |-> IF b = "Login" THEN "none" ELSE @.acct,
                                id   |-> slot[b].id]]
  /\ spiPc' = "account"
  /\ UNCHANGED <<boardStatus, lock, wstatus, mtype, slot, requestId, spiStatus,
                 apiVars, worker, todo, ghostVars>>

BuildAccount(b) ==
  /\ spiPc = "account"
  /\ Turn(b)
  /\ rsp' = [rsp EXCEPT ![b].acct = slot[b].acct]
  /\ spiPc' = "callback"
  /\ UNCHANGED <<boardStatus, lock, wstatus, mtype, slot, requestId, spiStatus,
                 apiVars, worker, todo, ghostVars>>

\* Defect for mutation: proc_work returns after the first callback.
ReturnAfterCallback == "check"

AfterCallback == "serve"

Callback(b) ==
  /\ spiPc = "callback"
  /\ Turn(b)
  /\ spiStatus' = IF b = "Login" THEN OnRspUserLogin ELSE OnRspUserLogout
  /\ todo' = todo \ {b}
  /\ spiPc' = AfterCallback
  /\ served' = [served EXCEPT ![b] = @ + 1]
  /\ UNCHANGED <<boardStatus, lock, wstatus, mtype, slot, requestId, rsp,
                 apiVars, worker, calls, accepted>>

\* The remaining bits have no if statement: the batch is over.
BatchDone ==
  /\ spiPc = "serve"
  /\ todo \subseteq OtherReqs
  /\ todo' = {}
  /\ spiPc' = "check"
  /\ served' = [b \in Bits |-> served[b] + IF b \in todo THEN 1 ELSE 0]
  /\ UNCHANGED <<boardStatus, lock, wstatus, mtype, slot, requestId, rsp,
                 spiStatus, apiVars, worker, calls, accepted>>

-------------------------------------------------------------------------------
ClientCall ==
  \/ \E a \in Addresses : CreateWorker(a) \/ \E s \in BOOLEAN : InitRejected(a, s)
  \/ \E b \in Reqs, a \in Accounts : ReqCopy(b, a)
  \/ \E how \in {"Release", "Join"} : Release(how)
  \/ Destroy
  \/ ClientStandby

ApiRun == AssignRequestId \/ StartWorkerBusy \/ StartWorker \/ ReleasePoll

ProcWork ==
  \/ ProcWorkTryLock
  \/ ProcWorkCapture
  \/ ServeConnected
  \/ \E b \in Answered : BuildRequestId(b) \/ BuildAccount(b) \/ Callback(b)
  \/ BatchDone

SpiRun == WorkerLoop \/ WorkerExit \/ ProcWork

\* Both processes may stop for good: the client after Release or after it
\* deleted the API, the worker after exit or because it was never forked.
Finished ==
  /\ apiPc \in {"released", "deleted"}
  /\ worker \in {"none", "exited"}
  /\ UNCHANGED vars

Next == ClientCall \/ ApiRun \/ StartWorkerLock \/ SpiRun \/ Finished

\* The scheduler runs both processes.  wlock competes with a worker that takes
\* and frees the lock in a loop, so that its progress needs strong fairness.
Fairness ==
  /\ WF_vars(ApiRun)
  /\ SF_vars(StartWorkerLock)
  /\ WF_vars(SpiRun)

XoneSpec == Init /\ [][Next]_vars
Spec == XoneSpec /\ Fairness

-------------------------------------------------------------------------------
(* Properties *)

\* Every variable keeps its type.
TypeOK ==
  /\ boardStatus \in {"RUNNING", "QUIT"}
  /\ lock \in {"free", "api", "spi"}
  /\ wstatus \in {"STANDBY", "START", "STOP"}
  /\ mtype \in SUBSET Bits
  /\ slot \in [Reqs -> Record]
  /\ requestId \in Nat
  /\ rsp \in [Answered -> Record]
  /\ spiStatus \in {"STANDBY", "CONNECT", "LOGIN", "LOGIN_FAIL", "RELEASE_API"}
  /\ front \in [tcp : BOOLEAN, ip : BOOLEAN, port : BOOLEAN]
  /\ apiPc \in {"new", "assign", "wlock", "crit", "idle", "stopping",
                "released", "deleted"}
  /\ call \in Bits \cup {"none"}
  /\ started \in {-1, 0, 1}
  /\ ret \in {-1, 0, 1}
  /\ closer \in {"none", "Release", "Join"}
  /\ polls \in 0..MaxPolls
  /\ worker \in {"none", "running", "quitting", "exited"}
  /\ spiPc \in {"check", "try", "capture", "serve", "account", "callback"}
  /\ todo \in SUBSET Bits
  /\ calls \in Nat
  /\ accepted \in [Bits -> Nat]
  /\ served \in [Bits -> Nat]

In(b, S) == IF b \in S THEN 1 ELSE 0

\* Every request start_worker accepted is in exactly one place: still flagged in
\* m_type, in the batch the worker is serving, or dealt with.  None is lost
\* between the bit that is set and the batch that is captured, none is served
\* twice (start_worker and proc_work, and the worker status between them).
ExactlyOnce ==
  \A b \in Bits : accepted[b] = served[b] + In(b, mtype) + In(b, todo)

\* A worker told to quit finishes the batch it captured before it leaves its
\* loop, and never leaves it holding the lock (create_worker checks the board
\* between two calls of proc_work only).
QuitFinishesBatch ==
  worker \in {"none", "quitting", "exited"} => todo = {} /\ lock # "spi"

\* An accepted request is taken by the worker unless the client releases the
\* API first or the worker was never created.
RequestIsTaken ==
  \A b \in Bits :
    (b \in mtype) ~> (b \notin mtype \/ boardStatus = "QUIT" \/ worker = "none")

\* A captured request is dealt with, whatever the client does meanwhile.
BatchIsServed == \A b \in Bits : (b \in todo) ~> (b \notin todo)

\* Release reaches the worker: it leaves its loop and exits, even when the
\* client has stopped polling for it.
WorkerExits ==
  (boardStatus = "QUIT" /\ worker = "running") ~> (worker = "exited")

\* Every call of the client returns: start_worker is never shut out by the
\* worker's loop over the lock.
CallsReturn ==
  (apiPc \in {"assign", "wlock", "crit", "stopping"})
    ~> (apiPc \in {"idle", "released"})

Rank == [b \in Bits |-> CASE b = "Connected" -> 0
                          [] b = "Login"     -> 1
                          [] b = "Logout"    -> 2
                          [] OTHER           -> 3]

\* The two processes, the lock and the status word together behave as one
\* mailbox that is emptied at once and served in a fixed order.
Mailbox == INSTANCE SpiMailbox
             WITH pending <- mtype, batch <- todo,
                  open <- (boardStatus = "RUNNING"), Silent <- OtherReqs

MailboxRefined == Mailbox!MailboxSpec

-------------------------------------------------------------------------------
(* The inductive invariant *)

\* The lock is held exactly by the process inside its locked section.
LockHeld ==
  /\ lock = "api" <=> apiPc = "crit"
  /\ lock = "spi" <=> spiPc = "capture"

\* What the place of the API process says about the rest of its state.
ApiPlace ==
  /\ apiPc \in {"wlock", "crit"} => call \in Bits
  /\ apiPc = "assign" => call \in Answered
  /\ apiPc = "stopping" => polls < MaxPolls
  /\ apiPc = "new" => worker = "none"
  /\ boardStatus = "QUIT" => apiPc \in {"stopping", "released", "deleted"}

\* What the place of the worker says about the rest of its state.
SpiPlace ==
  /\ worker # "running" => spiPc = "check"
  /\ spiPc \in {"check", "try", "capture"} => todo = {}

\* A flag is never up while the worker status would make proc_work drop it.
FlaggedMeansStart == mtype # {} => wstatus = "START"

Inv == TypeOK /\ LockHeld /\ ApiPlace /\ SpiPlace /\ FlaggedMeansStart /\ ExactlyOnce

-------------------------------------------------------------------------------
(* What the header says of Join *)

\* trader_xone_emulator.h: Join waits until the interface thread has ended.
JoinWaits ==
  (apiPc = "released" /\ closer = "Join" /\ ret = 0) => worker \in {"none", "exited"}
===============================================================================
