---------------------------- MODULE Femas2Emulator ----------------------------
(****************************************************************************)
(* trader/trader_femas2_emulator.cpp and trader_femas2_spi.cpp on the board *)
(* of WorkerBoard, set up as in test/testfemas2emulator.cpp.                *)
(*                                                                          *)
(* A request sets the bits of its type in m_type; no worker takes them, so  *)
(* they are never cleared.  A type is its ordinal in trader_femas2_data.h,  *)
(* and the ordinal serves as the mask.  The request records are left out:   *)
(* they are written whether the request is accepted or not, and no code     *)
(* reads them.  The callbacks belong to whatever library drives the SPI:    *)
(* its front end is external, after what USTPFtdcTraderApi.h says of them.  *)
(****************************************************************************)
EXTENDS WorkerBoard, Sequences

CONSTANTS
  Areas,         (* sizes of the SPI object, its data and the API's data,     *)
                 (* which are among the sizes the program asks for            *)
  Types,         (* types of request the client makes                         *)
  LocalIDs,      (* values of MaxOrderLocalID                                 *)
  MaxQueue       (* bound on the callbacks that are due                       *)

ASSUME FemasAssumption ==
  /\ Areas \in Seq(Sizes) /\ Len(Areas) = 3
  /\ Types \subseteq 0 .. 16
  /\ LocalIDs \subseteq Nat
  /\ MaxQueue \in Nat

VARIABLES
  areas,         (* the bulks the three objects were put on                   *)
  phase,         (* "setup", "ready" after Init, "released", "gone" after     *)
                 (* destroy, or "crashed": an object was put on no bulk, or   *)
                 (* on no board                                               *)
  mtype,         (* m_type, as its set of bits                                *)
  status,        (* m_status of the board and of its worker                   *)
  spiStatus,     (* m_spi_data->m_status                                      *)
  requestId,     (* m_spi_data->m_request_id                                  *)
  answering,     (* OnRspUserLogin is between its two assignments             *)
  link,          (* the front end: "down", "up", or "in" while logged in      *)
  localID,       (* what it said at the latest login                          *)
  due            (* callbacks it has to make                                  *)

api == <<areas, phase, mtype, status>>
spi == <<spiStatus, requestId, answering>>
front == <<link, localID, due>>
femasVars == <<vars, api, spi, front>>

FemasInit ==
  /\ Init
  /\ areas = <<>>
  /\ phase = "setup"
  /\ mtype = {}
  /\ status = [board |-> "idle", worker |-> "idle"]
  /\ spiStatus = "zero"
  /\ requestId = 0
  /\ answering = FALSE
  /\ link = "down"
  /\ localID = 0
  /\ due = <<>>

-------------------------------------------------------------------------------
(* The program *)

SetUp == phase = "setup" /\ Len(areas) < Len(Areas)
NextArea == Areas[Len(areas) + 1]

\* main creates the board and puts the objects on bulks of their size.
MakeBoard == SetUp /\ Create /\ UNCHANGED <<api, spi, front>>

\* main does not look at what create returns, and takes for the board's address
\* what happens to be in shm_board.
MakeNoBoard ==
  /\ SetUp
  /\ CreateFails
  /\ phase' = "crashed"
  /\ UNCHANGED <<areas, mtype, status, spi, front>>

PlaceArea ==
  /\ SetUp
  /\ CreateBulk(NextArea)
  /\ areas' = Append(areas, lastFd')
  /\ UNCHANGED <<phase, mtype, status, spi, front>>

\* create_bulk fails: get_bulk gives NULL, and the object is constructed there.
PlaceNowhere ==
  /\ SetUp
  /\ CreateBulkFails(NextArea)
  /\ phase' = "crashed"
  /\ UNCHANGED <<areas, mtype, status, spi, front>>

\* Another part of the program carves bulks of its own out of the board.
CarveOther ==
  /\ SetUp
  /\ \E size \in Sizes : CreateBulk(size) \/ CreateBulkFails(size)
  /\ UNCHANGED <<api, spi, front>>

\* The data areas are zeroed and handed over; Init and the calls before it do
\* nothing.
FrontInit ==
  /\ phase = "setup" /\ Len(areas) = Len(Areas)
  /\ phase' = "ready"
  /\ UNCHANGED <<vars, areas, mtype, status, spi, front>>

\* The bits of a number below 32.
Mask(type) == {b \in 0 .. 4 : (type \div 2^b) % 2 = 1}

\* Whether start_worker finds the request "too fast".
Busy(type) == mtype \cap Mask(type) # {}

\* Req*: start_worker decides, and the call returns 0 in either case.
Request(type) ==
  /\ phase \in {"ready", "released"}
  /\ IF Busy(type)
       THEN UNCHANGED <<mtype, status>>
       ELSE /\ mtype' = mtype \cup Mask(type)
            /\ status' = [status EXCEPT !.worker = "start"]
  /\ UNCHANGED <<vars, areas, phase, spi, front>>

Release ==
  /\ phase \in {"ready", "released"}
  /\ phase' = "released"
  /\ status' = [status EXCEPT !.board = "quit"]
  /\ UNCHANGED <<vars, areas, mtype, spi, front>>

\* The end of main.
DestroyBoard ==
  /\ phase = "released"
  /\ Destroy
  /\ phase' = "gone"
  /\ UNCHANGED <<areas, mtype, status, spi, front>>

-------------------------------------------------------------------------------
(* The front end and the SPI *)

\* Callbacks that print and no more: answers to orders and queries, and what
\* the exchange reports unasked.
Silent == {"answer", "return"}
Names == {"connected", "disconnected", "login", "login refused", "logout",
          "logout refused"} \cup Silent
Callbacks == [name : Names, id : Nat]
Callback(name) == [name |-> name, id |-> 0]

FrontSays(callback) ==
  /\ phase \in {"ready", "released"}
  /\ Len(due) < MaxQueue
  /\ due' = Append(due, callback)
  /\ UNCHANGED <<vars, api, spi>>

\* The link comes up, or breaks and takes the session with it.
LinkUp ==
  /\ link = "down" /\ link' = "up"
  /\ FrontSays(Callback("connected"))
  /\ UNCHANGED localID

LinkBreaks ==
  /\ link # "down" /\ link' = "down"
  /\ FrontSays(Callback("disconnected"))
  /\ UNCHANGED localID

\* A login is answered, or refused; also when there is a session already.
AnswerLogin ==
  /\ link # "down" /\ link' = "in"
  /\ \E id \in LocalIDs :
       FrontSays([name |-> "login", id |-> id]) /\ localID' = id

RefuseLogin ==
  /\ link # "down"
  /\ FrontSays(Callback("login refused"))
  /\ UNCHANGED <<link, localID>>

\* So is a logout.
AnswerLogout ==
  /\ link = "in" /\ link' = "up"
  /\ FrontSays(Callback("logout"))
  /\ UNCHANGED localID

RefuseLogout ==
  /\ link # "down"
  /\ FrontSays(Callback("logout refused"))
  /\ UNCHANGED <<link, localID>>

\* The other requests are answered, or refused; orders and trades are returned
\* to a session.
AnswerOther ==
  /\ link # "down"
  /\ FrontSays(Callback("answer"))
  /\ UNCHANGED <<link, localID>>

ReturnOther ==
  /\ link = "in"
  /\ FrontSays(Callback("return"))
  /\ UNCHANGED <<link, localID>>

\* Defect for mutation: a broken link is only logged.
StatusIfLinked(callback) ==
  CASE callback.name = "connected"      -> "connect"
    [] callback.name = "disconnected"   -> spiStatus
    [] callback.name = "login"          -> "login"
    [] callback.name = "login refused"  -> "connect"
    [] callback.name = "logout"         -> "connect"
    [] callback.name = "logout refused" -> "release"
    [] OTHER                            -> spiStatus

\* The status a callback leaves: OnFrontConnected, OnFrontDisconnected,
\* OnRspUserLogin and OnRspUserLogout set one, the others do not.
StatusAfter(callback) ==
  CASE callback.name = "connected"      -> "connect"
    [] callback.name = "disconnected"   -> "disconnect"
    [] callback.name = "login"          -> "login"
    [] callback.name = "login refused"  -> "connect"
    [] callback.name = "logout"         -> "connect"
    [] callback.name = "logout refused" -> "release"
    [] OTHER                            -> spiStatus

\* The library makes the next call.
Deliver ==
  /\ phase \in {"ready", "released"}
  /\ due # <<>> /\ ~answering
  /\ spiStatus' = StatusAfter(Head(due))
  /\ IF Head(due).name = "login" THEN answering' = TRUE /\ due' = due
                                 ELSE answering' = FALSE /\ due' = Tail(due)
  /\ UNCHANGED <<vars, api, requestId, link, localID>>

\* Only when it has set the status does OnRspUserLogin give the next request id.
GiveRequestId ==
  /\ phase \in {"ready", "released"}
  /\ answering
  /\ requestId' = Head(due).id + 1
  /\ answering' = FALSE
  /\ due' = Tail(due)
  /\ UNCHANGED <<vars, api, spiStatus, link, localID>>

FemasNext ==
  \/ MakeBoard \/ MakeNoBoard
  \/ PlaceArea
  \/ PlaceNowhere
  \/ CarveOther
  \/ FrontInit
  \/ \E type \in Types : Request(type)
  \/ Release
  \/ DestroyBoard
  \/ LinkUp \/ LinkBreaks
  \/ AnswerLogin \/ RefuseLogin
  \/ AnswerLogout \/ RefuseLogout
  \/ AnswerOther \/ ReturnOther
  \/ Deliver \/ GiveRequestId

FemasSpec == FemasInit /\ [][FemasNext]_femasVars

-------------------------------------------------------------------------------
(* Properties *)

\* Types.
FemasTypeOK ==
  /\ areas \in Seq(0 .. BulkEnd)
  /\ phase \in {"setup", "ready", "released", "gone", "crashed"}
  /\ mtype \subseteq 0 .. 4
  /\ status \in [board : {"idle", "quit"}, worker : {"idle", "start"}]
  /\ spiStatus \in {"zero", "connect", "disconnect", "login", "release"}
  /\ requestId \in Nat
  /\ answering \in BOOLEAN
  /\ link \in {"down", "up", "in"}
  /\ localID \in Nat
  /\ due \in Seq(Callbacks)

\* The three objects live on three bulks, each with room for its object and
\* apart from the others, however the rest of the program uses the board.
ObjectsApart ==
  mapped =>
    \A i, j \in DOMAIN areas :
      /\ GetBulk(areas[i]) + Areas[i] <= boardSize
      /\ i < j => GetBulk(areas[i]) + Areas[i] <= GetBulk(areas[j])

\* The SPI never believes in a session that is over: when no callback is due or
\* running, a status of SPI_LOGIN means that the front end has a session, and the
\* request id is the one that follows from its login, after any number of refused
\* logins, broken links, new sessions, and answers and returns in between.
SessionBelieved ==
  due = <<>> /\ spiStatus = "login" => link = "in" /\ requestId = localID + 1
===============================================================================
