------------------------------ MODULE XoneSession ------------------------------
(****************************************************************************)
(* test/testxoneemulator.cpp: the client the emulator is written for, with  *)
(* the two wait loops of trader/include/trader_xone_spi.h.  It is the free  *)
(* client of XoneEmulator restricted to one script:                         *)
(*                                                                          *)
(*   Init; wait_connected; LoginRounds times ReqUserLogin; wait_logined,    *)
(*   with m_status put back to SPI_STANDBY in between; ReqUserLogout;       *)
(*   Release.  Any wait that does not see the status it wants goes straight *)
(*   to Release.                                                            *)
(****************************************************************************)
EXTENDS XoneEmulator

CONSTANTS
  LoginRounds,   (* logins of the script: 3 in the test                      *)
  WaitCount      (* SPI_WAIT_COUNT, the polls of a wait loop: 100            *)

ASSUME SessionAssumption ==
  /\ LoginRounds \in Nat \ {0}
  /\ WaitCount \in Nat \ {0}

VARIABLES
  step,          (* the statement the client is at                           *)
  round,         (* logins sent so far                                       *)
  tries          (* i of the wait loop                                       *)

clientVars == <<step, round, tries>>
sessionVars == <<vars, clientVars>>

SessionInit ==
  /\ Init
  /\ step = "init"
  /\ round = 0
  /\ tries = 0

ClientInit ==
  /\ step = "init"
  /\ \E a \in Addresses :
       \/ /\ InitRejected(a, TRUE)
          /\ step' = "end"
       \/ /\ CreateWorker(a)
          /\ step' = "connect"
  /\ UNCHANGED <<round, tries>>

\* Defect for mutation: the loop counter does not advance.
WaitForever(at, good, bad, next) ==
  /\ step = at
  /\ apiPc = "idle"
  /\ IF spiStatus = good
       THEN step' = next
       ELSE IF spiStatus = bad THEN step' = "clear" ELSE UNCHANGED step
  /\ UNCHANGED <<vars, round, tries>>

\* One pass of a wait loop: the status is `good', it is `bad', or the loop goes
\* round again until it has run WaitCount times.
Wait(at, good, bad, next) ==
  /\ step = at
  /\ apiPc = "idle"
  /\ IF spiStatus = good
       THEN step' = next /\ tries' = 0
       ELSE IF spiStatus = bad \/ tries + 1 = WaitCount
              THEN step' = "clear" /\ tries' = 0
              ELSE tries' = tries + 1 /\ UNCHANGED step
  /\ UNCHANGED <<vars, round>>

WaitConnected == Wait("connect", "CONNECT", "DISCONNECT", "login")

WaitLogined ==
  Wait("logined", "LOGIN", "LOGIN_FAIL",
       IF round = LoginRounds THEN "logout" ELSE "standby")

ClientLogin ==
  /\ step = "login"
  /\ \E a \in Accounts : ReqCopy("Login", a)
  /\ step' = "logined"
  /\ round' = round + 1
  /\ UNCHANGED tries

\* Defect for mutation: the status is not reset.
NoReset ==
  /\ step = "standby"
  /\ apiPc = "idle"
  /\ step' = "login"
  /\ UNCHANGED <<vars, round, tries>>

ClientReset ==
  /\ step = "standby"
  /\ ClientStandby
  /\ step' = "login"
  /\ UNCHANGED <<round, tries>>

ClientLogout ==
  /\ step = "logout"
  /\ \E a \in Accounts : ReqCopy("Logout", a)
  /\ step' = "clear"
  /\ UNCHANGED <<round, tries>>

ClientRelease ==
  /\ step = "clear"
  /\ Release("Release")
  /\ step' = "end"
  /\ UNCHANGED <<round, tries>>

Client ==
  \/ ClientInit
  \/ WaitConnected
  \/ ClientLogin
  \/ WaitLogined
  \/ ClientReset
  \/ ClientLogout
  \/ ClientRelease

SessionFinished ==
  /\ step = "end"
  /\ apiPc \in {"new", "released"}
  /\ worker \in {"none", "exited"}
  /\ UNCHANGED sessionVars

SessionNext ==
  \/ Client
  \/ (ApiRun \/ StartWorkerLock \/ SpiRun) /\ UNCHANGED clientVars
  \/ SessionFinished

SessionFairness ==
  /\ WF_sessionVars(Client)
  /\ WF_sessionVars(ApiRun /\ UNCHANGED clientVars)
  /\ SF_sessionVars(StartWorkerLock /\ UNCHANGED clientVars)
  /\ WF_sessionVars(SpiRun /\ UNCHANGED clientVars)

SessionSpec == SessionInit /\ [][SessionNext]_sessionVars /\ SessionFairness

-------------------------------------------------------------------------------
(* Properties *)

\* When wait_logined has returned SPI_LOGIN, that is the answer to the login
\* just sent: the worker has answered every login, the response carries the
\* latest request id, and its account is the one that was asked for.  Setting
\* m_status to SPI_STANDBY before each new login is what makes this so.
LoginIsFresh ==
  step \in {"standby", "logout"} =>
    /\ served["Login"] = round
    /\ rsp["Login"].id = requestId - 1
    /\ rsp["Login"] = slot["Login"]

\* No response is put together from two requests: while the worker copies a
\* request record nobody rewrites it, and what it hands to the callback is the
\* whole request.
ResponsesAreWhole ==
  \A b \in Answered :
    spiPc = "callback" /\ Turn(b) => rsp[b] = slot[b] /\ rsp[b].id # NoId

\* The script always ends, whether or not the worker exists and answers.
SessionEnds == <>(step = "end" /\ apiPc \in {"new", "released"})

\* A session on an API whose worker was forked leaves no worker behind.
WorkerIsGone == (step = "connect") ~> (worker \in {"none", "exited"})

===============================================================================
