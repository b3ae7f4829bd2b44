------------------------------ MODULE WindowCalls ------------------------------
(****************************************************************************)
(* How a Python program of the IDE calls the window it was typed into:      *)
(* ide/windowproxy.c (the type lmice.Window), PythonHelper::windowCall and  *)
(* registerClassCall, and CandleStickSetting::call, the only function that  *)
(* is registered.  Windows come and go with the menu of graphicsview.cpp.   *)
(*                                                                          *)
(* A window is its address: a proxy and the table of functions know it by   *)
(* that number only, and the allocator may hand it out again.               *)
(****************************************************************************)
EXTENDS Integers, Sequences

CONSTANTS
  Addrs,         (* addresses a CandleStickSetting may be allocated at       *)
  NullWindow,    (* the window of the helper main makes                      *)
  Stray,         (* any number that never was such an address                *)
  MaxProxies     (* bound on the proxies that are made; none is ever freed,  *)
                 (* for m_call holds the proxy that holds it                 *)

ASSUME WindowAssumption ==
  /\ NullWindow \notin Addrs
  /\ Stray \notin Addrs \cup {NullWindow}
  /\ MaxProxies \in Nat \ {0}

\* Attribute names: GetColor, for which call throws, and any other that is not
\* "windowid".
Methods == {"GetColor", "other"}
NoName == ""                \* m_method after init
Numbers == Addrs \cup {NullWindow, Stray}

VARIABLES
  open,          (* addresses with a window that has not been deleted        *)
  funcs,         (* number -> functions m_classfuncs has for it              *)
  proxies,       (* sequence of proxies [win, slot]: m_window and m_method   *)
  err,           (* whether the interpreter has an error pending             *)
  defined        (* FALSE once the IDE works on, or crashed at, memory that  *)
                 (* is not what it is taken for; nothing is modelled then    *)

registry == <<open, funcs>>

Proxies == DOMAIN proxies
Proxy(win) == [win |-> win, slot |-> NoName]

\* The main helper exists, and its program has a proxy of no window.
WindowInit ==
  /\ open = {}
  /\ funcs = [n \in Numbers |-> 0]
  /\ proxies = <<Proxy(NullWindow)>>
  /\ err = FALSE
  /\ defined = TRUE

-------------------------------------------------------------------------------
(* Windows *)

\* CandleStickSetting's constructor, as far as this module goes: the helper
\* makes the proxy `window', then call is registered behind what an earlier
\* window at this address left.
OpenWindow(a) ==
  /\ a \notin open
  /\ Len(proxies) < MaxProxies
  /\ open' = open \cup {a}
  /\ funcs' = [funcs EXCEPT ![a] = @ + 1]
  /\ proxies' = Append(proxies, Proxy(a))

\* Its destructor; neither the table nor the proxies hear of it.
CloseWindow(a) ==
  /\ a \in open
  /\ open' = open \ {a}
  /\ UNCHANGED <<funcs, proxies>>

-------------------------------------------------------------------------------
(* What a program does *)

\* lmice.Window(n) takes any number.
MakeProxy(n) ==
  /\ Len(proxies) < MaxProxies
  /\ proxies' = Append(proxies, Proxy(n))

\* getattro of any name but windowid, also for hasattr: all look-ups of a proxy
\* return the same bound method and leave the name in the same slot.
LookUp(p, name) == proxies' = [proxies EXCEPT ![p].slot = name]

\* windowid is a plain number: a program may write any.
WriteId(p, n) == proxies' = [proxies EXCEPT ![p].win = n]

\* windowCall casts the number to a widget and looks at it: memory of a window,
\* or no window.
Safe(n) == n \in open \cup {NullWindow}

\* Window_call with the name in the slot: call runs once for every time it was
\* registered at the address.  GetColor throws, in the first of them: the error
\* is set, but the call returns a number, and the program goes on.  What is at
\* any other number may look enough like a window for the cast to go well.
WindowCall(n, name) ==
  /\ err' = (err \/ (name = "GetColor" /\ funcs[n] > 0))
  /\ defined' \in IF Safe(n) THEN {TRUE} ELSE BOOLEAN

\* window.name(...).
Call(p, name) ==
  /\ LookUp(p, name)
  /\ WindowCall(proxies[p].win, name)

\* A call of a method that was looked up before, and kept, or whose arguments
\* looked up others of the same proxy: it goes out under the latest name.
CallKept(p) ==
  /\ proxies[p].slot # NoName
  /\ WindowCall(proxies[p].win, proxies[p].slot)
  /\ UNCHANGED proxies

\* One statement of a program.
Statement ==
  /\ \/ /\ \/ \E n \in Numbers : MakeProxy(n)
           \/ \E p \in Proxies, name \in Methods : LookUp(p, name)
           \/ \E p \in Proxies, n \in Numbers : WriteId(p, n)
        /\ UNCHANGED <<err, defined>>
     \/ \E p \in Proxies, name \in Methods : Call(p, name)
     \/ \E p \in Proxies : CallKept(p)
  /\ UNCHANGED registry
===============================================================================
