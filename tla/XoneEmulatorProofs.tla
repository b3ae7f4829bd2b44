-------------------------- MODULE XoneEmulatorProofs --------------------------
(****************************************************************************)
(* XoneEmulator for every set of accounts, request types and addresses and  *)
(* every bound: the inductive invariant behind ExactlyOnce, and the step    *)
(* simulation that makes the two processes one SpiMailbox.  Then its client *)
(* XoneSession, for any number of logins and waits of any length: it takes  *)
(* no old answer for a new one, and no response mixes two requests.         *)
(****************************************************************************)
EXTENDS XoneSession, TLAPS

(* The script of XoneSession *)

\* A Req* call is under way.
InFlight == apiPc \in {"assign", "wlock", "crit"}

\* Which call can be under way at each statement of the script.
Script ==
  /\ step \in {"init", "connect", "login", "logined", "standby", "logout",
               "clear", "end"}
  /\ InFlight => \/ step = "connect" /\ call = "Connected" /\ apiPc # "assign"
                 \/ step = "logined" /\ call = "Login"
                 \/ step = "clear" /\ call = "Logout"

\* A statement of the script before the logout has been sent.
BeforeLogout == step \notin {"clear", "end"} \/ (step = "clear" /\ InFlight)

\* Logins and logouts accepted and answered so far, by the place in the script.
Counted ==
  /\ round \in Nat
  /\ accepted["Login"] = round - (IF step = "logined" /\ InFlight THEN 1 ELSE 0)
  /\ step \in {"init", "connect"} => round = 0
  /\ step \in {"login", "standby", "logout"} => served["Login"] = round
  /\ step = "logined" => round - 1 <= served["Login"]
  /\ BeforeLogout => accepted["Logout"] = 0

\* SPI_LOGIN is not seen before the latest login is answered.
StatusFresh ==
  spiStatus = "LOGIN" =>
    /\ step \notin {"init", "connect", "login"}
    /\ step = "logined" => served["Login"] = round

\* The login just answered, and the record it answers.
AnswerFresh ==
  /\ step = "logined" /\ apiPc # "assign" => slot["Login"].id = requestId - 1
  /\ step = "logined" /\ served["Login"] = round => rsp["Login"] = slot["Login"]
  /\ step \in {"standby", "logout"} =>
       rsp["Login"] = slot["Login"] /\ slot["Login"].id = requestId - 1

\* A record whose flag is up, or about to be raised, has its id; the response
\* under construction is a copy of it.
Copied ==
  /\ \A b \in Answered : b \in mtype \cup todo => slot[b].id # NoId
  /\ apiPc \in {"wlock", "crit"} /\ call \in Answered => slot[call].id # NoId
  /\ \A b \in Answered :
       /\ spiPc = "account" /\ Turn(b) => rsp[b].id = slot[b].id
       /\ spiPc = "callback" /\ Turn(b) => rsp[b] = slot[b]

SessionInv == Inv /\ Script /\ Counted /\ StatusFresh /\ AnswerFresh /\ Copied

-------------------------------------------------------------------------------
\* The answered types are types, and apart from the others.
LEMMA BitsApart ==
  /\ "Connected" \in Bits
  /\ Reqs \subseteq Bits
  /\ Answered \subseteq Reqs
  /\ "Connected" \notin Reqs
  /\ Answered \cap OtherReqs = {}
  /\ "none" \notin Bits
BY XoneAssumption DEF Bits, Reqs, Answered

\* The initial states satisfy the invariant.
LEMMA InitInv == Init => Inv
<1> SUFFICES ASSUME Init PROVE Inv
  OBVIOUS
<1>1. Empty \in Record
  BY DEF Empty, Record
<1>2. slot \in [Reqs -> Record] /\ rsp \in [Answered -> Record]
  BY <1>1 DEF Init
<1>3. accepted \in [Bits -> Nat] /\ served \in [Bits -> Nat]
  BY DEF Init
<1>4. polls \in 0..MaxPolls
  BY XoneAssumption DEF Init
<1>5. TypeOK
  BY <1>2, <1>3, <1>4 DEF Init, TypeOK
<1>6. ExactlyOnce
  BY DEF Init, ExactlyOnce, In
<1>7. LockHeld /\ ApiPlace /\ SpiPlace /\ FlaggedMeansStart
  BY DEF Init, LockHeld, ApiPlace, SpiPlace, FlaggedMeansStart
<1> QED
  BY <1>5, <1>6, <1>7 DEF Inv

\* Every step keeps every variable in its type.
LEMMA StepType == Inv /\ [Next]_vars => TypeOK'
<1> SUFFICES ASSUME Inv, [Next]_vars PROVE TypeOK'
  OBVIOUS
<1> USE DEF Inv, vars, apiVars, workVars, ghostVars
<1>1. ASSUME NEW a \in Addresses, CreateWorker(a) PROVE TypeOK'
  <2>1. front' \in [tcp : BOOLEAN, ip : BOOLEAN, port : BOOLEAN]
    BY <1>1 DEF CreateWorker, TypeOK, ParsedFronts
  <2> QED
    BY <1>1, <2>1, BitsApart DEF CreateWorker, TypeOK
<1>2. ASSUME NEW a \in Addresses, NEW s \in BOOLEAN, InitRejected(a, s) PROVE TypeOK'
  <2>1. front' \in [tcp : BOOLEAN, ip : BOOLEAN, port : BOOLEAN]
    BY <1>2 DEF InitRejected, TypeOK, ParsedFronts
  <2> QED
    BY <1>2, <2>1 DEF InitRejected, TypeOK
<1>3. ASSUME NEW b \in Reqs, NEW a \in Accounts, ReqCopy(b, a) PROVE TypeOK'
  <2>1. [acct |-> a, id |-> NoId] \in Record
    BY DEF Record, NoId
  <2>2. slot' \in [Reqs -> Record]
    BY <1>3, <2>1 DEF ReqCopy, TypeOK
  <2>3. call' \in Bits \cup {"none"}
    BY <1>3, BitsApart DEF ReqCopy
  <2> QED
    BY <1>3, <2>2, <2>3 DEF ReqCopy, TypeOK
<1>4. ASSUME NEW how \in {"Release", "Join"}, Release(how) PROVE TypeOK'
  BY <1>4, XoneAssumption DEF Release, ReleaseStatus, TypeOK
<1>5. CASE Destroy
  BY <1>5 DEF Destroy, TypeOK
<1>6. CASE ClientStandby
  BY <1>6 DEF ClientStandby, TypeOK
<1>7. CASE AssignRequestId
  <2>1. slot[call] \in Record /\ call \in Reqs
    BY <1>7, BitsApart DEF AssignRequestId, TypeOK, ApiPlace
  <2>2. [slot[call] EXCEPT !.id = requestId] \in Record
    BY <2>1 DEF Record, TypeOK
  <2>3. slot' \in [Reqs -> Record]
    BY <1>7, <2>1, <2>2 DEF AssignRequestId, TypeOK
  <2> QED
    BY <1>7, <2>3 DEF AssignRequestId, TypeOK
<1>8. CASE StartWorkerLock
  BY <1>8 DEF StartWorkerLock, TypeOK
<1>9. CASE StartWorkerBusy
  BY <1>9 DEF StartWorkerBusy, TypeOK
<1>10. CASE StartWorker
  <2>1. call \in Bits
    BY <1>10 DEF StartWorker, ApiPlace
  <2>2. mtype' \in SUBSET Bits
    BY <1>10, <2>1 DEF StartWorker, TypeOK
  <2>3. accepted' \in [Bits -> Nat]
    BY <1>10, <2>1 DEF StartWorker, TypeOK
  <2> QED
    BY <1>10, <2>2, <2>3 DEF StartWorker, TypeOK
<1>11. CASE ReleasePoll
  BY <1>11, XoneAssumption DEF ReleasePoll, LastPoll, TypeOK, ApiPlace
<1>12. CASE WorkerLoop
  BY <1>12 DEF WorkerLoop, TypeOK
<1>13. CASE WorkerExit
  BY <1>13 DEF WorkerExit, TypeOK
<1>14. CASE ProcWorkTryLock
  BY <1>14 DEF ProcWorkTryLock, TypeOK
<1>15. CASE ProcWorkCapture
  BY <1>15 DEF ProcWorkCapture, Unflagged, TypeOK
<1>16. CASE ServeConnected
  BY <1>16, BitsApart DEF ServeConnected, OnFrontConnected, TypeOK
<1>17. ASSUME NEW b \in Answered, BuildRequestId(b) PROVE TypeOK'
  BY <1>17, BitsApart DEF BuildRequestId, TypeOK, Record
<1>18. ASSUME NEW b \in Answered, BuildAccount(b) PROVE TypeOK'
  BY <1>18, BitsApart DEF BuildAccount, TypeOK, Record
<1>19. ASSUME NEW b \in Answered, Callback(b) PROVE TypeOK'
  BY <1>19, BitsApart
     DEF Callback, AfterCallback, OnRspUserLogin, OnRspUserLogout, ErrorID, TypeOK
<1>20. CASE BatchDone
  BY <1>20 DEF BatchDone, TypeOK
<1>21. CASE UNCHANGED vars
  BY <1>21 DEF TypeOK, Record
<1> QED
  BY <1>1, <1>2, <1>3, <1>4, <1>5, <1>6, <1>7, <1>8, <1>9, <1>10, <1>11, <1>12,
     <1>13, <1>14, <1>15, <1>16, <1>17, <1>18, <1>19, <1>20, <1>21
     DEF Next, ClientCall, ApiRun, SpiRun, ProcWork, Finished

\* The lock, and what the two program counters say, survive every step.
LEMMA StepPlaces == Inv /\ [Next]_vars => LockHeld' /\ ApiPlace' /\ SpiPlace'
<1> SUFFICES ASSUME Inv, [Next]_vars PROVE LockHeld' /\ ApiPlace' /\ SpiPlace'
  OBVIOUS
<1> USE DEF Inv, LockHeld, ApiPlace, SpiPlace, vars, apiVars, workVars, ghostVars
<1> DEFINE Places == LockHeld /\ ApiPlace /\ SpiPlace
<1>1. ASSUME NEW a \in Addresses, CreateWorker(a) PROVE Places'
  BY <1>1, BitsApart DEF CreateWorker
<1>2. ASSUME NEW a \in Addresses, NEW s \in BOOLEAN, InitRejected(a, s) PROVE Places'
  BY <1>2 DEF InitRejected
<1>3. ASSUME NEW b \in Reqs, NEW a \in Accounts, ReqCopy(b, a) PROVE Places'
  BY <1>3, BitsApart DEF ReqCopy
<1>4. ASSUME NEW how \in {"Release", "Join"}, Release(how) PROVE Places'
  BY <1>4, XoneAssumption DEF Release, ReleaseStatus
<1>5. CASE Destroy
  BY <1>5 DEF Destroy
<1>6. CASE ClientStandby
  BY <1>6 DEF ClientStandby
<1>7. CASE AssignRequestId
  BY <1>7, BitsApart DEF AssignRequestId
<1>8. CASE StartWorkerLock
  BY <1>8 DEF StartWorkerLock
<1>9. CASE StartWorkerBusy
  BY <1>9 DEF StartWorkerBusy
<1>10. CASE StartWorker
  BY <1>10 DEF StartWorker
<1>11. CASE ReleasePoll
  BY <1>11, XoneAssumption DEF ReleasePoll, LastPoll, TypeOK
<1>12. CASE WorkerLoop
  BY <1>12 DEF WorkerLoop
<1>13. CASE WorkerExit
  BY <1>13 DEF WorkerExit
<1>14. CASE ProcWorkTryLock
  BY <1>14 DEF ProcWorkTryLock
<1>15. CASE ProcWorkCapture
  BY <1>15 DEF ProcWorkCapture
<1>16. CASE ServeConnected
  BY <1>16 DEF ServeConnected
<1>17. ASSUME NEW b \in Answered, BuildRequestId(b) PROVE Places'
  BY <1>17 DEF BuildRequestId
<1>18. ASSUME NEW b \in Answered, BuildAccount(b) PROVE Places'
  BY <1>18 DEF BuildAccount
<1>19. ASSUME NEW b \in Answered, Callback(b) PROVE Places'
  BY <1>19 DEF Callback, AfterCallback
<1>20. CASE BatchDone
  BY <1>20 DEF BatchDone
<1>21. CASE UNCHANGED vars
  BY <1>21
<1> QED
  BY <1>1, <1>2, <1>3, <1>4, <1>5, <1>6, <1>7, <1>8, <1>9, <1>10, <1>11, <1>12,
     <1>13, <1>14, <1>15, <1>16, <1>17, <1>18, <1>19, <1>20, <1>21
     DEF Next, ClientCall, ApiRun, SpiRun, ProcWork, Finished

\* Only start_worker raises a flag, and it sets the status with it; only
\* proc_work lowers the status, and it clears every flag with it.
LEMMA StepStatus == Inv /\ [Next]_vars => FlaggedMeansStart'
<1> SUFFICES ASSUME Inv, [Next]_vars PROVE FlaggedMeansStart'
  OBVIOUS
<1> USE DEF Inv, FlaggedMeansStart, vars
<1>1. CASE StartWorker \/ Destroy
  BY <1>1 DEF StartWorker, Destroy
<1>2. CASE ProcWorkCapture
  BY <1>2 DEF ProcWorkCapture, Unflagged
<1>3. CASE UNCHANGED <<mtype, wstatus>>
  BY <1>3
<1>4. StartWorker \/ Destroy \/ ProcWorkCapture \/ UNCHANGED <<mtype, wstatus>>
  BY DEF Next, ClientCall, ApiRun, SpiRun, ProcWork, Finished,
         CreateWorker, InitRejected, ReqCopy, Release, ClientStandby,
         AssignRequestId, StartWorkerLock, StartWorkerBusy, ReleasePoll,
         WorkerLoop, WorkerExit, ProcWorkTryLock, ServeConnected,
         BuildRequestId, BuildAccount, Callback, BatchDone
<1> QED
  BY <1>1, <1>2, <1>3, <1>4

\* A request moves from m_type to the batch to the callbacks, one place at a
\* time; the steps that touch none of the four variables are the rest.
LEMMA StepOnce == Inv /\ [Next]_vars => ExactlyOnce'
<1> SUFFICES ASSUME Inv, [Next]_vars PROVE ExactlyOnce'
  OBVIOUS
<1> DEFINE quiet == UNCHANGED <<accepted, served, mtype, todo>>
<1> USE DEF Inv, ExactlyOnce, In
<1>1. CASE StartWorker
  <2>1. call \in Bits /\ call \notin mtype
    BY <1>1 DEF StartWorker, ApiPlace
  <2>2. accepted' = [accepted EXCEPT ![call] = @ + 1] /\ mtype' = mtype \cup {call}
    BY <1>1 DEF StartWorker
  <2>3. UNCHANGED <<served, todo>>
    BY <1>1 DEF StartWorker, workVars
  <2>4. ASSUME NEW b \in Bits
        PROVE accepted'[b] = served'[b] + In(b, mtype') + In(b, todo')
    <3>1. accepted[b] \in Nat /\ served[b] \in Nat
      BY DEF TypeOK
    <3>2. accepted'[b] = IF b = call THEN accepted[b] + 1 ELSE accepted[b]
      BY <2>1, <2>2 DEF TypeOK
    <3>3. accepted[b] = served[b] + In(b, mtype) + In(b, todo)
      OBVIOUS
    <3> QED
      BY <2>1, <2>2, <2>3, <3>1, <3>2, <3>3
  <2> QED
    BY <2>4
<1>2. CASE ProcWorkCapture
  <2>1. todo = {}
    BY <1>2 DEF ProcWorkCapture, SpiPlace
  <2>4. \A b \in Bits : accepted[b] \in Nat /\ served[b] \in Nat
    BY DEF TypeOK
  <2>5. mtype' = {} /\ UNCHANGED <<accepted, served>>
    BY <1>2 DEF ProcWorkCapture, Unflagged, ghostVars
  <2>2. CASE wstatus = "START"
    <3>1. todo' = mtype
      BY <1>2, <2>2 DEF ProcWorkCapture
    <3> QED
      BY <2>1, <2>4, <2>5, <3>1
  <2>3. CASE wstatus # "START"
    <3>1. todo' = {} /\ mtype = {}
      BY <1>2, <2>1, <2>3 DEF ProcWorkCapture, FlaggedMeansStart
    <3> QED
      BY <2>1, <2>4, <2>5, <3>1
  <2> QED
    BY <2>2, <2>3
<1>3. CASE ServeConnected
  BY <1>3, BitsApart DEF ServeConnected, TypeOK
<1>4. ASSUME NEW b \in Answered, Callback(b) PROVE ExactlyOnce'
  BY <1>4, BitsApart DEF Callback, Turn, TypeOK
<1>5. CASE BatchDone
  BY <1>5 DEF BatchDone, TypeOK
<1>6. CASE quiet
  BY <1>6
<1>7. \/ StartWorker \/ ProcWorkCapture \/ ServeConnected \/ BatchDone \/ quiet
      \/ \E b \in Answered : Callback(b)
  BY DEF Next, ClientCall, ApiRun, SpiRun, ProcWork, Finished,
         vars, apiVars, workVars, ghostVars,
         CreateWorker, InitRejected, ReqCopy, Release, ClientStandby, Destroy,
         AssignRequestId, StartWorkerLock, StartWorkerBusy, ReleasePoll,
         WorkerLoop, WorkerExit, ProcWorkTryLock, BuildRequestId, BuildAccount
<1> QED
  BY <1>1, <1>2, <1>3, <1>4, <1>5, <1>6, <1>7

\* The inductive invariant holds in every reachable state.
THEOREM Invariance == XoneSpec => []Inv
<1>1. Inv /\ [Next]_vars => Inv'
  BY StepType, StepPlaces, StepStatus, StepOnce DEF Inv
<1> QED
  BY InitInv, <1>1, PTL DEF XoneSpec

\* Every variable keeps its type (trader_xone_emulator.cpp as a whole).
THEOREM TypeCorrect == XoneSpec => []TypeOK
<1>1. Inv => TypeOK
  BY DEF Inv
<1> QED
  BY Invariance, <1>1, PTL

\* No accepted request is lost or served twice between start_worker and
\* proc_work, for any client and however the two processes interleave.
THEOREM NothingLost == XoneSpec => []ExactlyOnce
<1>1. Inv => ExactlyOnce
  BY DEF Inv
<1> QED
  BY Invariance, <1>1, PTL

\* A worker that has left its loop had finished its batch and freed the lock.
THEOREM QuitIsClean == XoneSpec => []QuitFinishesBatch
<1>1. Inv => QuitFinishesBatch
  BY DEF Inv, QuitFinishesBatch, SpiPlace, LockHeld, TypeOK
<1> QED
  BY Invariance, <1>1, PTL

-------------------------------------------------------------------------------
(* The two processes implement SpiMailbox. *)

\* Before any call the mailbox is empty and open.
LEMMA InitMapped == Init => Mailbox!MailboxInit
BY DEF Init, Mailbox!MailboxInit

\* Each step is a step of the mailbox or changes nothing in it.
LEMMA StepMapped == Inv /\ [Next]_vars => [Mailbox!MailboxNext]_(Mailbox!mailboxVars)
<1> SUFFICES ASSUME Inv, [Next]_vars
             PROVE Mailbox!MailboxNext \/ UNCHANGED <<mtype, todo, boardStatus>>
  BY DEF Mailbox!mailboxVars
<1> USE DEF Inv
<1>1. CASE StartWorker
  <2>1. call \in Bits /\ boardStatus = "RUNNING"
    BY <1>1 DEF StartWorker, ApiPlace, TypeOK
  <2>2. Mailbox!Submit(call)
    BY <1>1, <2>1 DEF StartWorker, Mailbox!Submit, workVars
  <2> QED
    BY <2>1, <2>2 DEF Mailbox!MailboxNext
<1>2. CASE ProcWorkCapture
  <2>1. todo = {} /\ mtype' = {} /\ UNCHANGED boardStatus
    BY <1>2 DEF ProcWorkCapture, Unflagged, SpiPlace
  <2>2. CASE mtype = {}
    <3>1. todo' = mtype \/ todo' = todo
      BY <1>2 DEF ProcWorkCapture
    <3> QED
      BY <2>1, <2>2, <3>1
  <2>3. CASE mtype # {}
    <3>1. todo' = mtype
      BY <1>2, <2>3 DEF ProcWorkCapture, FlaggedMeansStart
    <3>2. Mailbox!Take
      BY <2>1, <2>3, <3>1 DEF Mailbox!Take
    <3> QED
      BY <3>2 DEF Mailbox!MailboxNext
  <2> QED
    BY <2>2, <2>3
<1>3. CASE ServeConnected
  <2>1. Mailbox!Answer("Connected")
    <3>1. \A c \in todo \ OtherReqs : Rank["Connected"] <= Rank[c]
      BY BitsApart DEF TypeOK, Rank
    <3> QED
      BY <1>3, <3>1, BitsApart DEF ServeConnected, Mailbox!Answer, TypeOK, Bits, Reqs
  <2> QED
    BY <2>1, BitsApart DEF Mailbox!MailboxNext
<1>4. ASSUME NEW b \in Answered, Callback(b) PROVE Mailbox!MailboxNext
  <2>1. ASSUME NEW c \in todo \ OtherReqs PROVE Rank[b] <= Rank[c]
    <3>1. c \in Answered \ (IF b = "Logout" THEN {"Login"} ELSE {})
      BY <1>4 DEF Callback, Turn, TypeOK, Bits, Reqs
    <3> QED
      BY <3>1, BitsApart DEF Rank, Answered
  <2>2. Mailbox!Answer(b)
    BY <1>4, <2>1, BitsApart DEF Callback, Turn, Mailbox!Answer
  <2> QED
    BY <2>2, BitsApart DEF Mailbox!MailboxNext
<1>5. CASE BatchDone
  <2>1. CASE todo = {}
    BY <1>5, <2>1 DEF BatchDone
  <2>2. CASE todo # {}
    <3>1. Mailbox!Discard
      BY <1>5, <2>2 DEF BatchDone, Mailbox!Discard
    <3> QED
      BY <3>1 DEF Mailbox!MailboxNext
  <2> QED
    BY <2>1, <2>2
<1>6. ASSUME NEW how \in {"Release", "Join"}, Release(how) PROVE Mailbox!MailboxNext
  <2>1. boardStatus = "RUNNING"
    BY <1>6 DEF Release, ApiPlace, TypeOK
  <2>2. Mailbox!Close
    BY <1>6, <2>1 DEF Release, ReleaseStatus, Mailbox!Close, workVars
  <2> QED
    BY <2>2 DEF Mailbox!MailboxNext
<1>7. \/ StartWorker \/ ProcWorkCapture \/ ServeConnected \/ BatchDone
      \/ \E b \in Answered : Callback(b)
      \/ \E how \in {"Release", "Join"} : Release(how)
      \/ UNCHANGED <<mtype, todo, boardStatus>>
  BY DEF Next, ClientCall, ApiRun, SpiRun, ProcWork, Finished,
         vars, apiVars, workVars, ghostVars,
         CreateWorker, InitRejected, ReqCopy, ClientStandby, Destroy,
         AssignRequestId, StartWorkerLock, StartWorkerBusy, ReleasePoll,
         WorkerLoop, WorkerExit, ProcWorkTryLock, BuildRequestId, BuildAccount
<1> QED
  BY <1>1, <1>2, <1>3, <1>4, <1>5, <1>6, <1>7

\* Two processes, a lock, a status word and a set of flags behave as one
\* mailbox emptied at once and served in order.
THEOREM ImplementsMailbox == XoneSpec => MailboxRefined
BY InitMapped, StepMapped, Invariance, PTL
   DEF XoneSpec, MailboxRefined, Mailbox!MailboxSpec

-------------------------------------------------------------------------------
(* The session *)

\* The statements of the script call what XoneEmulator lets its client call.
LEMMA SessionStep == SessionNext => [Next]_vars
<1> SUFFICES ASSUME SessionNext PROVE Next \/ UNCHANGED vars
  OBVIOUS
<1>1. CASE ClientInit
  BY <1>1 DEF ClientInit, Next, ClientCall
<1>2. CASE WaitConnected \/ WaitLogined
  BY <1>2 DEF WaitConnected, WaitLogined, Wait
<1>3. CASE ClientLogin \/ ClientLogout
  BY <1>3 DEF ClientLogin, ClientLogout, Next, ClientCall, Reqs, Answered
<1>4. CASE ClientReset \/ ClientRelease
  BY <1>4 DEF ClientReset, ClientRelease, Next, ClientCall
<1>5. CASE ApiRun \/ StartWorkerLock \/ SpiRun
  BY <1>5 DEF Next
<1>6. CASE SessionFinished
  BY <1>6 DEF SessionFinished, sessionVars
<1> QED
  BY <1>1, <1>2, <1>3, <1>4, <1>5, <1>6 DEF SessionNext, Client

\* A session begins with nothing sent and nothing answered.
LEMMA InitSession == SessionInit => SessionInv
<1> SUFFICES ASSUME SessionInit PROVE SessionInv
  OBVIOUS
<1>1. Init /\ step = "init" /\ round = 0
  BY DEF SessionInit
<1>2. accepted["Login"] = 0 /\ accepted["Logout"] = 0 /\ ~InFlight
  BY <1>1 DEF Init, InFlight, Bits, Reqs, Answered
<1>3. Script /\ Counted /\ StatusFresh /\ AnswerFresh
  BY <1>1, <1>2 DEF Script, Counted, StatusFresh, AnswerFresh, Init
<1>4. Copied
  BY <1>1 DEF Copied, Init
<1> QED
  BY <1>1, <1>3, <1>4, InitInv DEF SessionInv

\* Where a login or a logout can be pending: only while the script waits for
\* it, and not before start_worker has accepted it.
LEMMA Pending ==
  ASSUME SessionInv
  PROVE  /\ step \in {"init", "connect", "login", "standby", "logout"} =>
              "Login" \notin mtype \cup todo
         /\ step = "logined" /\ InFlight =>
              "Login" \notin mtype \cup todo /\ served["Login"] = round - 1
         /\ step = "logined" /\ served["Login"] = round =>
              "Login" \notin mtype \cup todo /\ ~InFlight
         /\ BeforeLogout => "Logout" \notin mtype \cup todo
<1>1. /\ accepted["Login"] = served["Login"] + In("Login", mtype) + In("Login", todo)
      /\ accepted["Logout"] = served["Logout"] + In("Logout", mtype) + In("Logout", todo)
      /\ \A b \in {"Login", "Logout"} : accepted[b] \in Nat /\ served[b] \in Nat
  BY DEF SessionInv, Inv, ExactlyOnce, TypeOK, Bits, Reqs, Answered
<1>2. Counted
  BY DEF SessionInv
<1> QED
  BY <1>1, <1>2 DEF In, Counted

\* At most one answered request is at its turn.
LEMMA OneTurn ==
  ASSUME NEW b \in Answered, NEW c \in Answered, Turn(b), Turn(c)
  PROVE  b = c
BY DEF Turn, Answered

\* The script waits for each call to return before it goes on.
LEMMA ScriptStep ==
  ASSUME SessionInv, [SessionNext]_sessionVars
  PROVE  Script'
<1> USE DEF SessionInv, Script, InFlight
<1>1. CASE ClientInit
  BY <1>1 DEF ClientInit, InitRejected, CreateWorker
<1>2. CASE WaitConnected \/ WaitLogined
  BY <1>2 DEF WaitConnected, WaitLogined, Wait, vars, apiVars
<1>3. CASE ClientLogin \/ ClientLogout
  BY <1>3 DEF ClientLogin, ClientLogout, ReqCopy
<1>4. CASE ClientReset \/ ClientRelease
  BY <1>4 DEF ClientReset, ClientRelease, ClientStandby, Release, apiVars
<1>5. CASE (ApiRun \/ StartWorkerLock) /\ UNCHANGED clientVars
  BY <1>5 DEF ApiRun, AssignRequestId, StartWorkerBusy, StartWorker, ReleasePoll,
              StartWorkerLock, clientVars
<1>6. CASE SpiRun /\ UNCHANGED clientVars
  <2>1. UNCHANGED apiVars
    BY <1>6 DEF SpiRun, ProcWork, WorkerLoop, WorkerExit, ProcWorkTryLock,
                ProcWorkCapture, ServeConnected, BuildRequestId, BuildAccount,
                Callback, BatchDone
  <2> QED
    BY <1>6, <2>1 DEF apiVars, clientVars
<1>7. CASE UNCHANGED sessionVars
  BY <1>7 DEF sessionVars, clientVars, vars, apiVars
<1> QED
  BY <1>1, <1>2, <1>3, <1>4, <1>5, <1>6, <1>7 DEF SessionNext, Client, SessionFinished

\* Logins are accepted one at a time, each after the answer to the one before;
\* the logout is accepted last.
LEMMA CountedStep ==
  ASSUME SessionInv, [SessionNext]_sessionVars
  PROVE  Counted'
<1> USE DEF SessionInv, Counted, BeforeLogout, InFlight, Script
<1>a. /\ \A b \in {"Login", "Logout"} : accepted[b] \in Nat /\ served[b] \in Nat
      /\ "Login" \in Bits /\ "Logout" \in Bits
      /\ accepted \in [Bits -> Nat] /\ served \in [Bits -> Nat]
  BY DEF Inv, TypeOK, Bits, Reqs, Answered
<1>1. CASE ClientInit
  BY <1>1 DEF ClientInit, InitRejected, CreateWorker
<1>2. CASE WaitConnected \/ WaitLogined
  <2>1. CASE WaitConnected
    <3>1. /\ step = "connect" /\ step' \in {"login", "clear", "connect"}
          /\ apiPc = "idle" /\ UNCHANGED <<accepted, served, apiPc, round>>
      BY <2>1 DEF WaitConnected, Wait, vars, apiVars, ghostVars
    <3>2. served["Login"] = 0
      BY <1>a, <3>1 DEF Inv, ExactlyOnce, In
    <3> QED
      BY <3>1, <3>2
  <2>2. CASE WaitLogined
    <3>1. /\ step = "logined" /\ step' \in {"logout", "standby", "clear", "logined"}
          /\ step' \in {"logout", "standby"} => spiStatus = "LOGIN"
          /\ apiPc = "idle" /\ UNCHANGED <<accepted, served, apiPc, round>>
      BY <2>2 DEF WaitLogined, Wait, vars, apiVars, ghostVars
    <3>2. step' \in {"logout", "standby"} => served["Login"] = round
      BY <3>1 DEF StatusFresh
    <3> QED
      BY <3>1, <3>2
  <2> QED
    BY <1>2, <2>1, <2>2
<1>3. CASE ClientLogin
  <2>1. /\ step = "login" /\ step' = "logined" /\ apiPc' = "assign" /\ apiPc = "idle"
        /\ round' = round + 1 /\ UNCHANGED <<accepted, served>>
    BY <1>3 DEF ClientLogin, ReqCopy, Answered
  <2> QED
    BY <2>1, <1>a
<1>4. CASE ClientReset \/ ClientRelease
  BY <1>4 DEF ClientReset, ClientRelease, ClientStandby, Release, apiVars, ghostVars
<1>5. CASE ClientLogout
  BY <1>5 DEF ClientLogout, ReqCopy, Answered
<1>6. CASE StartWorker /\ UNCHANGED clientVars
  <2>1. /\ apiPc = "crit" /\ apiPc' = "idle" /\ call \in Bits
        /\ UNCHANGED <<step, round, served>>
        /\ accepted' = [accepted EXCEPT ![call] = @ + 1]
    BY <1>6 DEF StartWorker, clientVars, Inv, ApiPlace
  <2>2. CASE step = "connect"
    BY <1>a, <2>1, <2>2
  <2>3. CASE step = "logined"
    BY <1>a, <2>1, <2>3
  <2>4. CASE step = "clear"
    BY <1>a, <2>1, <2>4
  <2> QED
    BY <2>1, <2>2, <2>3, <2>4
<1>7. CASE StartWorkerBusy /\ UNCHANGED clientVars
  <2>1. /\ apiPc = "crit" /\ apiPc' = "idle" /\ call \in mtype
        /\ UNCHANGED <<step, round, served, accepted>>
    BY <1>7 DEF StartWorkerBusy, clientVars, ghostVars
  <2>2. step # "logined"
    BY <2>1, Pending
  <2> QED
    BY <2>1, <2>2
<1>8. CASE (AssignRequestId \/ StartWorkerLock \/ ReleasePoll) /\ UNCHANGED clientVars
  BY <1>8 DEF AssignRequestId, StartWorkerLock, ReleasePoll, clientVars, ghostVars
<1>9. ASSUME NEW b \in Answered, Callback(b), UNCHANGED clientVars PROVE Counted'
  <2>1. /\ b \in todo /\ UNCHANGED <<accepted, step, round, apiPc>>
        /\ served' = [served EXCEPT ![b] = @ + 1] /\ b \in {"Login", "Logout"}
    BY <1>9 DEF Callback, Turn, clientVars, apiVars, Answered
  <2>2. CASE b = "Login"
    <3>1. served'["Login"] = served["Login"] + 1 /\ step \notin {"login", "standby", "logout"}
      BY <1>a, <2>1, <2>2, Pending
    <3> QED
      BY <1>a, <2>1, <3>1
  <2>3. CASE b = "Logout"
    BY <1>a, <2>1, <2>3
  <2> QED
    BY <2>1, <2>2, <2>3
<1>10. CASE BatchDone /\ UNCHANGED clientVars
  <2>1. /\ UNCHANGED <<accepted, step, round, apiPc>>
        /\ todo \subseteq OtherReqs
        /\ served' = [b \in Bits |-> served[b] + IF b \in todo THEN 1 ELSE 0]
    BY <1>10 DEF BatchDone, clientVars, apiVars
  <2>2. served'["Login"] = served["Login"]
    BY <1>a, <2>1, XoneAssumption
  <2> QED
    BY <2>1, <2>2
<1>11. CASE ServeConnected /\ UNCHANGED clientVars
  BY <1>11, <1>a DEF ServeConnected, clientVars, apiVars
<1>12. CASE UNCHANGED <<clientVars, accepted, served, apiPc>>
  BY <1>12 DEF clientVars
<1>13. \/ ClientInit \/ WaitConnected \/ WaitLogined \/ ClientLogin \/ ClientReset
       \/ ClientRelease \/ ClientLogout
       \/ UNCHANGED clientVars /\ (\/ StartWorker \/ StartWorkerBusy \/ AssignRequestId
                                   \/ StartWorkerLock \/ ReleasePoll \/ ServeConnected
                                   \/ BatchDone \/ \E b \in Answered : Callback(b))
       \/ UNCHANGED <<clientVars, accepted, served, apiPc>>
  BY DEF SessionNext, Client, SessionFinished, sessionVars, ApiRun, SpiRun, ProcWork,
         WorkerLoop, WorkerExit, ProcWorkTryLock, ProcWorkCapture, BuildRequestId,
         BuildAccount, vars, apiVars, ghostVars
<1> QED
  BY <1>1, <1>2, <1>3, <1>4, <1>5, <1>6, <1>7, <1>8, <1>9, <1>10, <1>11, <1>12, <1>13

\* m_status says SPI_LOGIN only after the callback for the latest login.
LEMMA StatusStep ==
  ASSUME SessionInv, [SessionNext]_sessionVars
  PROVE  StatusFresh'
<1> USE DEF SessionInv, StatusFresh
<1>1. CASE ClientInit
  BY <1>1 DEF ClientInit, InitRejected, CreateWorker
<1>2. CASE WaitConnected
  BY <1>2 DEF WaitConnected, Wait, vars
<1>3. CASE WaitLogined
  BY <1>3 DEF WaitLogined, Wait, vars, ghostVars
<1>4. CASE ClientLogin
  BY <1>4 DEF ClientLogin, ReqCopy
<1>5. CASE ClientReset
  BY <1>5 DEF ClientReset, ClientStandby
<1>6. CASE ClientLogout
  BY <1>6 DEF ClientLogout, ReqCopy
<1>7. CASE ClientRelease
  BY <1>7 DEF ClientRelease, Release
<1>8. ASSUME NEW b \in Answered, Callback(b), UNCHANGED clientVars PROVE StatusFresh'
  <2>1. /\ b \in todo /\ UNCHANGED <<step, round, accepted, mtype>>
        /\ todo' = todo \ {b} /\ b \in {"Login", "Logout"}
        /\ served' = [served EXCEPT ![b] = @ + 1]
        /\ b = "Logout" => spiStatus' # "LOGIN"
    BY <1>8 DEF Callback, Turn, clientVars, OnRspUserLogout, ErrorID, Answered
  <2>2. CASE b = "Login"
    <3>1. step \notin {"init", "connect", "login", "standby", "logout"}
      BY <2>1, <2>2, Pending
    <3>2. step = "logined" => ~InFlight /\ served["Login"] # round
      BY <2>1, <2>2, Pending
    <3>3. /\ served \in [Bits -> Nat] /\ "Login" \in Bits
          /\ accepted["Login"] = served["Login"] + In("Login", mtype) + 1
          /\ accepted["Login"] \in Nat
      BY <2>1, <2>2 DEF Inv, ExactlyOnce, In, TypeOK, Bits, Reqs, Answered
    <3>4. step = "logined" => round = accepted["Login"] /\ round - 1 <= served["Login"]
      BY <3>2, <3>3 DEF Counted
    <3>5. step = "logined" => served'["Login"] = round
      <4>1. served'["Login"] = served["Login"] + 1 /\ served["Login"] \in Nat
        BY <2>1, <2>2, <3>3
      <4> QED
        BY <3>3, <3>4, <4>1 DEF In
    <3> QED
      BY <2>1, <3>1, <3>5
  <2> QED
    BY <2>1, <2>2
<1>9. CASE BatchDone /\ UNCHANGED clientVars
  <2>1. UNCHANGED <<spiStatus, step, round>> /\ served'["Login"] = served["Login"]
    BY <1>9, XoneAssumption
       DEF BatchDone, clientVars, Inv, TypeOK, Bits, Reqs, Answered
  <2> QED
    BY <2>1
<1>10. CASE ServeConnected /\ UNCHANGED clientVars
  BY <1>10 DEF ServeConnected, OnFrontConnected
<1>11. CASE UNCHANGED <<clientVars, spiStatus, served>>
  BY <1>11 DEF clientVars
<1>12. \/ ClientInit \/ WaitConnected \/ WaitLogined \/ ClientLogin \/ ClientReset
       \/ ClientRelease \/ ClientLogout
       \/ UNCHANGED clientVars /\ (\/ ServeConnected
                                   \/ BatchDone \/ \E b \in Answered : Callback(b))
       \/ UNCHANGED <<clientVars, spiStatus, served>>
  BY DEF SessionNext, Client, SessionFinished, sessionVars, ApiRun, SpiRun, ProcWork,
         AssignRequestId, StartWorkerLock, ReleasePoll, StartWorker, StartWorkerBusy,
         WorkerLoop, WorkerExit, ProcWorkTryLock, ProcWorkCapture, BuildRequestId,
         BuildAccount, vars, apiVars, ghostVars
<1> QED
  BY <1>1, <1>2, <1>3, <1>4, <1>5, <1>6, <1>7, <1>8, <1>9, <1>10, <1>11, <1>12

\* The response of an answered login stays what the worker handed over, and its
\* id stays the latest, until the next request is copied.
LEMMA AnswerStep ==
  ASSUME SessionInv, [SessionNext]_sessionVars
  PROVE  AnswerFresh'
<1> USE DEF SessionInv, AnswerFresh
<1>a. /\ \A b \in {"Login", "Logout"} : b \in Bits /\ b \in Reqs /\ b \in Answered
      /\ slot \in [Reqs -> Record] /\ rsp \in [Answered -> Record]
      /\ served \in [Bits -> Nat] /\ requestId \in Nat /\ round \in Nat
  BY DEF Inv, TypeOK, Bits, Reqs, Answered, Counted
<1>1. CASE ClientInit
  BY <1>1 DEF ClientInit, InitRejected, CreateWorker
<1>2. CASE WaitConnected
  BY <1>2 DEF WaitConnected, Wait, vars
<1>3. CASE WaitLogined
  <2>1. /\ step = "logined" /\ step' \in {"logout", "standby", "clear", "logined"}
        /\ step' \in {"logout", "standby"} => spiStatus = "LOGIN"
        /\ apiPc = "idle" /\ UNCHANGED <<slot, rsp, requestId, apiPc, served, round>>
    BY <1>3 DEF WaitLogined, Wait, vars, apiVars, ghostVars
  <2>2. step' \in {"logout", "standby"} => served["Login"] = round
    BY <2>1 DEF StatusFresh
  <2> QED
    BY <2>1, <2>2
<1>4. CASE ClientLogin
  <2>1. step = "login" /\ step' = "logined" /\ apiPc' = "assign" /\ round' = round + 1
        /\ UNCHANGED <<served>>
    BY <1>4 DEF ClientLogin, ReqCopy, Answered
  <2>2. served'["Login"] # round'
    BY <1>a, <2>1 DEF Counted
  <2> QED
    BY <2>1, <2>2
<1>5. CASE ClientReset
  BY <1>5 DEF ClientReset, ClientStandby
<1>6. CASE ClientLogout
  BY <1>6 DEF ClientLogout, ReqCopy
<1>7. CASE ClientRelease
  BY <1>7 DEF ClientRelease, Release
<1>8. CASE AssignRequestId /\ UNCHANGED clientVars
  <2>1. /\ apiPc = "assign" /\ apiPc' = "wlock" /\ requestId' = requestId + 1
        /\ slot' = [slot EXCEPT ![call].id = requestId]
        /\ UNCHANGED <<step, round, served>>
    BY <1>8 DEF AssignRequestId, clientVars, ghostVars
  <2>2. (step = "logined" /\ call = "Login") \/ step = "clear"
    BY <2>1 DEF Script, InFlight
  <2>3. CASE step = "logined"
    <3>1. slot'["Login"].id = requestId
      BY <1>a, <2>1, <2>2, <2>3 DEF Record
    <3>2. served["Login"] # round
      BY <1>a, <2>1, <2>3, Pending DEF InFlight
    <3> QED
      BY <1>a, <2>1, <2>3, <3>1, <3>2
  <2> QED
    BY <2>1, <2>2, <2>3
<1>9. CASE (StartWorker \/ StartWorkerBusy \/ StartWorkerLock) /\ UNCHANGED clientVars
  BY <1>9 DEF StartWorker, StartWorkerBusy, StartWorkerLock, clientVars, ghostVars
<1>10. CASE ReleasePoll /\ UNCHANGED clientVars
  <2>1. /\ apiPc = "stopping" /\ UNCHANGED <<slot, rsp, requestId, step, round, served>>
    BY <1>10 DEF ReleasePoll, clientVars, ghostVars
  <2> QED
    BY <2>1
<1>11. ASSUME NEW b \in Answered, BuildRequestId(b) \/ BuildAccount(b), UNCHANGED clientVars
       PROVE AnswerFresh'
  <2>1. /\ b \in todo /\ UNCHANGED <<slot, requestId, step, round, served, apiPc>>
        /\ \A c \in Answered : c # b => rsp'[c] = rsp[c]
    BY <1>11, <1>a DEF BuildRequestId, BuildAccount, Turn, clientVars, apiVars, ghostVars
  <2>2. b = "Login" => /\ step \notin {"standby", "logout"}
                       /\ step = "logined" => served["Login"] # round
    BY <2>1, Pending
  <2> QED
    BY <1>a, <2>1, <2>2
<1>12. ASSUME NEW b \in Answered, Callback(b), UNCHANGED clientVars PROVE AnswerFresh'
  <2>1. /\ UNCHANGED <<slot, rsp, requestId, step, round, apiPc>>
        /\ served' = [served EXCEPT ![b] = @ + 1]
        /\ rsp[b] = slot[b]
    BY <1>12 DEF Callback, clientVars, apiVars, Copied
  <2> QED
    BY <1>a, <2>1
<1>13. CASE BatchDone /\ UNCHANGED clientVars
  <2>1. /\ UNCHANGED <<slot, rsp, requestId, step, round, apiPc>>
        /\ served'["Login"] = served["Login"]
    BY <1>13, XoneAssumption
       DEF BatchDone, clientVars, apiVars, Inv, TypeOK, Bits, Reqs, Answered
  <2> QED
    BY <2>1
<1>14. CASE ServeConnected /\ UNCHANGED clientVars
  <2>1. /\ UNCHANGED <<slot, rsp, requestId, step, round, apiPc>>
        /\ served'["Login"] = served["Login"]
    BY <1>14, <1>a DEF ServeConnected, clientVars, apiVars
  <2> QED
    BY <2>1
<1>15. CASE UNCHANGED <<clientVars, slot, rsp, requestId, apiPc, served>>
  BY <1>15 DEF clientVars
<1>16. \/ ClientInit \/ WaitConnected \/ WaitLogined \/ ClientLogin \/ ClientReset
       \/ ClientRelease \/ ClientLogout
       \/ UNCHANGED clientVars
          /\ (\/ AssignRequestId \/ StartWorker \/ StartWorkerBusy \/ StartWorkerLock
              \/ ReleasePoll \/ ServeConnected \/ BatchDone
              \/ \E b \in Answered : BuildRequestId(b) \/ BuildAccount(b) \/ Callback(b))
       \/ UNCHANGED <<clientVars, slot, rsp, requestId, apiPc, served>>
  BY DEF SessionNext, Client, SessionFinished, sessionVars, ApiRun, SpiRun, ProcWork,
         WorkerLoop, WorkerExit, ProcWorkTryLock, ProcWorkCapture,
         vars, apiVars, ghostVars
<1> QED
  BY <1>1, <1>2, <1>3, <1>4, <1>5, <1>6, <1>7, <1>8, <1>9, <1>10, <1>11, <1>12, <1>13,
     <1>14, <1>15, <1>16

\* A request is not rewritten between the acceptance and the callback, so that
\* the response is a copy of all of it.
LEMMA CopiedStep ==
  ASSUME SessionInv, [SessionNext]_sessionVars
  PROVE  Copied'
<1> USE DEF SessionInv, Copied
<1>a. /\ \A b \in Answered : b \in Bits /\ b \in Reqs
      /\ slot \in [Reqs -> Record] /\ rsp \in [Answered -> Record]
      /\ Answered = {"Login", "Logout"} /\ requestId \in Nat
  BY BitsApart DEF Inv, TypeOK, Answered
<1>1. CASE ClientInit
  <2>1. /\ UNCHANGED <<slot, rsp, mtype, todo, spiPc>>
        /\ apiPc' \in {"wlock", "crit"} => call' = "Connected"
    BY <1>1 DEF ClientInit, InitRejected, CreateWorker, workVars
  <2> QED
    BY <2>1, BitsApart DEF Turn
<1>2. ASSUME NEW b \in Answered, NEW a \in Accounts, ReqCopy(b, a), b \notin mtype \cup todo
      PROVE Copied'
  <2>1. /\ UNCHANGED <<rsp, mtype, todo, spiPc>> /\ apiPc' = "assign"
        /\ \A c \in Answered : c # b => slot'[c] = slot[c]
    BY <1>2, <1>a DEF ReqCopy, workVars
  <2> QED
    BY <1>2, <2>1 DEF Turn
<1>3. CASE ClientLogin \/ ClientLogout
  <2>1. CASE ClientLogin
    BY <2>1, <1>2, <1>a, Pending DEF ClientLogin
  <2>2. CASE ClientLogout
    BY <2>2, <1>2, <1>a, Pending DEF ClientLogout, BeforeLogout
  <2> QED
    BY <1>3, <2>1, <2>2
<1>4. CASE AssignRequestId /\ UNCHANGED clientVars
  <2>1. /\ apiPc = "assign" /\ call \in Answered
        /\ UNCHANGED <<rsp, mtype, todo, spiPc, call>>
        /\ slot' = [slot EXCEPT ![call].id = requestId]
    BY <1>4 DEF AssignRequestId, Inv, ApiPlace, workVars
  <2>2. call \notin mtype \cup todo
    BY <1>a, <2>1, Pending DEF Script, InFlight, BeforeLogout
  <2>3. \A c \in Answered : c # call => slot'[c] = slot[c]
    BY <1>a, <2>1
  <2>4. slot'[call].id # NoId
    BY <1>a, <2>1 DEF Record, NoId
  <2> QED
    BY <2>1, <2>2, <2>3, <2>4 DEF Turn
<1>5. CASE StartWorker /\ UNCHANGED clientVars
  <2>1. /\ apiPc = "crit" /\ mtype' = mtype \cup {call} /\ apiPc' = "idle"
        /\ UNCHANGED <<slot, rsp, todo, spiPc>>
    BY <1>5 DEF StartWorker, workVars
  <2> QED
    BY <2>1 DEF Turn
<1>6. CASE (StartWorkerBusy \/ ReleasePoll \/ StartWorkerLock) /\ UNCHANGED clientVars
  <2>1. /\ UNCHANGED <<slot, rsp, mtype, todo, spiPc, call>>
        /\ apiPc' \in {"wlock", "crit"} => apiPc \in {"wlock", "crit"}
    BY <1>6 DEF StartWorkerBusy, ReleasePoll, StartWorkerLock, workVars
  <2> QED
    BY <2>1 DEF Turn
<1>7. CASE ClientRelease
  <2>1. UNCHANGED <<slot, rsp, mtype, todo, spiPc, call>> /\ apiPc' = "stopping"
    BY <1>7 DEF ClientRelease, Release, workVars
  <2> QED
    BY <2>1 DEF Turn
<1>8. CASE ProcWorkCapture
  <2>1. /\ UNCHANGED <<slot, rsp, apiPc, call>> /\ mtype' \subseteq mtype
        /\ todo' = mtype \/ todo' = todo
        /\ spiPc' \in {"serve", "check"}
    BY <1>8 DEF ProcWorkCapture, Unflagged, apiVars
  <2> QED
    BY <2>1
<1>9. ASSUME NEW b \in Answered, BuildRequestId(b) PROVE Copied'
  <2>1. /\ UNCHANGED <<slot, mtype, todo, apiPc, call>> /\ spiPc' = "account"
        /\ Turn(b) /\ rsp'[b].id = slot[b].id
    BY <1>9, <1>a DEF BuildRequestId, apiVars
  <2>2. \A c \in Answered : Turn(c)' => c = b
    BY <2>1, OneTurn DEF Turn
  <2> QED
    BY <2>1, <2>2
<1>10. ASSUME NEW b \in Answered, BuildAccount(b) PROVE Copied'
  <2>1. /\ UNCHANGED <<slot, mtype, todo, apiPc, call>> /\ spiPc' = "callback"
        /\ spiPc = "account" /\ Turn(b)
        /\ rsp' = [rsp EXCEPT ![b].acct = slot[b].acct]
    BY <1>10 DEF BuildAccount, apiVars
  <2>2. rsp[b] \in Record /\ slot[b] \in Record /\ rsp[b].id = slot[b].id
    BY <1>a, <2>1
  <2>3. rsp'[b] = slot[b]
    BY <1>a, <2>1, <2>2 DEF Record
  <2>4. \A c \in Answered : Turn(c)' => c = b
    BY <2>1, OneTurn DEF Turn
  <2> QED
    BY <2>1, <2>3, <2>4
<1>11. ASSUME NEW b \in Answered, Callback(b) PROVE Copied'
  <2>1. /\ UNCHANGED <<slot, rsp, mtype, apiPc, call>> /\ spiPc' = "serve"
        /\ todo' \subseteq todo
    BY <1>11 DEF Callback, AfterCallback, apiVars
  <2> QED
    BY <2>1
<1>12. CASE ServeConnected \/ BatchDone
  <2>1. /\ UNCHANGED <<slot, rsp, mtype, apiPc, call>> /\ todo' \subseteq todo
        /\ spiPc' \in {"serve", "check"}
    BY <1>12 DEF ServeConnected, BatchDone, apiVars
  <2> QED
    BY <2>1
<1>13. CASE WorkerLoop \/ WorkerExit \/ ProcWorkTryLock
  <2>1. /\ UNCHANGED <<slot, rsp, mtype, todo, apiPc, call>>
        /\ spiPc' \in {"try", "capture", "check"} \/ spiPc' = spiPc
    BY <1>13 DEF WorkerLoop, WorkerExit, ProcWorkTryLock, apiVars
  <2> QED
    BY <2>1 DEF Turn
<1>14. CASE UNCHANGED <<slot, rsp, mtype, todo, spiPc, apiPc, call>>
  BY <1>14 DEF Turn
<1>15. WaitConnected \/ WaitLogined \/ ClientReset =>
         UNCHANGED <<slot, rsp, mtype, todo, spiPc, apiPc, call>>
  BY DEF WaitConnected, WaitLogined, Wait, ClientReset, ClientStandby, vars, apiVars, workVars
<1>16. UNCHANGED sessionVars => UNCHANGED <<slot, rsp, mtype, todo, spiPc, apiPc, call>>
  BY DEF sessionVars, vars, apiVars, workVars
<1> QED
  BY <1>1, <1>2, <1>3, <1>4, <1>5, <1>6, <1>7, <1>8, <1>9, <1>10, <1>11, <1>12, <1>13,
     <1>14, <1>15, <1>16
     DEF SessionNext, Client, SessionFinished, ApiRun, SpiRun, ProcWork

\* The invariant of the script, on top of that of the emulator.
THEOREM SessionInvariance == SessionSpec => []SessionInv
<1>1. Inv /\ [SessionNext]_sessionVars => Inv'
  <2>1. [SessionNext]_sessionVars => [Next]_vars
    BY SessionStep DEF sessionVars
  <2> QED
    BY <2>1, StepType, StepPlaces, StepStatus, StepOnce DEF Inv
<1>2. SessionInv /\ [SessionNext]_sessionVars => SessionInv'
  BY <1>1, ScriptStep, CountedStep, StatusStep, AnswerStep, CopiedStep DEF SessionInv
<1> QED
  BY InitSession, <1>2, PTL DEF SessionSpec

\* When wait_logined has returned SPI_LOGIN, that is the answer to the login
\* just sent, for any number of rounds, any wait count and any interleaving.
THEOREM LoginAnswered == SessionSpec => []LoginIsFresh
<1>1. SessionInv => LoginIsFresh
  BY DEF SessionInv, LoginIsFresh, Counted, AnswerFresh
<1> QED
  BY SessionInvariance, <1>1, PTL

\* What the worker hands to the client's callback is one whole request.
THEOREM ResponseOfOneRequest == SessionSpec => []ResponsesAreWhole
<1>1. SessionInv => ResponsesAreWhole
  BY DEF SessionInv, ResponsesAreWhole, Copied, Turn
<1> QED
  BY SessionInvariance, <1>1, PTL

===============================================================================
