-------------------------- MODULE ConnectionProofs --------------------------
(* The WebSocket and the two threads that use it: what Connection promises of the
   thread's end, and that Trade's three-state Link is what it sees of all this.  *)
EXTENDS Connection, TLAPS

\* Which WebSocket the two threads mean, and how far its handshake has come.
Handshake ==
  /\ run \in {"new", "null", "done"} => ~ alive
  /\ run \in {"publish", "start"} => ~ hdl /\ state = "none"
  /\ run = "loop" => (state = "connecting" => ~ hdl) /\ (state = "open" => hdl)
  /\ run = "onOpen" => ~ hdl /\ state = "open"
  /\ run \in {"reset", "callback"} => hdl

\* doclose has marked what it is about to close, unless that was deleted.
Doclose ==
  /\ ~ alive => held # "live"
  /\ main \in {"manual", "close"} /\ held = "live" => ~ valid

Joins == joined => run = "done"

IInv == TypeOK /\ Handshake /\ Doclose /\ Joins /\ ApiOutlivesThread

\* TypeOK without its one number.
Labels ==
  /\ run \in {"new", "publish", "start", "loop", "onOpen", "reset", "callback",
              "read", "delete", "null", "done"}
  /\ state \in {"none", "connecting", "open", "closing", "closed"}
  /\ main \in {"running", "remove", "removeCall", "send", "check", "call", "valid",
               "manual", "close", "join", "ended", "aborted"}
  /\ held \in {"none", "live", "deleted"}

Flags ==
  /\ present \in BOOLEAN /\ alive \in BOOLEAN /\ hdl \in BOOLEAN
  /\ manual \in BOOLEAN /\ valid \in BOOLEAN /\ wasManual \in BOOLEAN
  /\ joined \in BOOLEAN /\ sent \in BOOLEAN /\ undone \in BOOLEAN /\ ready \in BOOLEAN

LEMMA Types == TypeOK <=> Labels /\ Flags /\ pass \in 0 .. 2
  BY Zenon DEF TypeOK, Labels, Flags

LEMMA InitInv == Init => IInv
<1> SUFFICES ASSUME Init PROVE IInv
  OBVIOUS
<1>1. TypeOK
  <2>1. Labels /\ pass \in 0 .. 2
    BY DEF Init, Labels
  <2>2. Flags
    BY DEF Init, Flags
  <2> QED
    BY <2>1, <2>2, Types
<1>2. Handshake
  BY DEF Init, Handshake
<1>3. Doclose /\ Joins /\ ApiOutlivesThread
  BY DEF Init, Doclose, Joins, ApiOutlivesThread
<1> QED
  BY <1>1, <1>2, <1>3 DEF IInv

\* The steps that change the WebSocket leave main where it is.
LEMMA RunStep ==
  ASSUME IInv, RunThread \/ Network
  PROVE  IInv' /\ main' = main
<1> USE DEF wsVars, mainVars, history, At, Go
<1>0. Labels /\ Flags /\ pass \in 0 .. 2
  BY Types DEF IInv
<1>1. TypeOK' /\ main' = main /\ joined' = joined /\ run # "done"
  <2>1. Labels' /\ pass' = pass /\ main' = main /\ joined' = joined /\ run # "done"
    BY <1>0 DEF Labels, RunThread, RunNew, RunPublish, RunStart, OnOpenHdl, OnOpenReset,
       OnOpenCallback, RunRead, RunDelete, RunNull, Network, HandshakeDone, OnFail, Lost,
       OnClose, Ends
  <2>2. Flags'
    BY <1>0 DEF Flags, RunThread, RunNew, RunPublish, RunStart, OnOpenHdl, OnOpenReset,
       OnOpenCallback, RunRead, RunDelete, RunNull, Network, HandshakeDone, OnFail, Lost,
       OnClose, Ends
  <2>3. pass' \in 0 .. 2
    BY <1>0, <2>1
  <2>4. TypeOK'
    BY <2>1, <2>2, <2>3, Zenon DEF TypeOK, Labels, Flags
  <2> QED
    BY <2>1, <2>4
<1>2. Handshake'
  <2>1. Handshake
    BY DEF IInv
  <2>2. CASE RunNew \/ RunPublish \/ RunStart \/ OnOpenHdl
    BY <2>1, <2>2 DEF Handshake, RunNew, RunPublish, RunStart, OnOpenHdl
  <2>3. CASE OnOpenReset \/ OnOpenCallback
    BY <2>1, <2>3 DEF Handshake, OnOpenReset, OnOpenCallback
  <2>4. CASE RunRead \/ RunDelete \/ RunNull
    BY <2>1, <2>4 DEF Handshake, RunRead, RunDelete, RunNull
  <2>5. CASE Network
    BY <2>1, <2>5 DEF Handshake, Network, HandshakeDone, OnFail, Lost, OnClose, Ends
  <2> QED
    BY <2>2, <2>3, <2>4, <2>5 DEF RunThread
<1>3. Doclose'
  BY DEF IInv, TypeOK, Handshake, Doclose, RunThread, RunNew, RunPublish, RunStart,
     OnOpenHdl, OnOpenReset, OnOpenCallback, RunRead, RunDelete, RunNull, Network,
     HandshakeDone, OnFail, Lost, OnClose, Ends
<1> QED
  BY <1>1, <1>2, <1>3 DEF IInv, Joins, ApiOutlivesThread, Over

LEMMA MainStep ==
  ASSUME IInv, MainInput \/ Remove \/ Close
  PROVE  IInv' /\ UNCHANGED <<run, alive, hdl>>
<1> USE DEF wsVars, mainVars, history, MainGo
<1>0. Labels /\ Flags /\ pass \in 0 .. 2
  BY Types DEF IInv
<1>1. TypeOK' /\ UNCHANGED <<run, alive, hdl>>
  <2>1. Labels' /\ UNCHANGED <<run, alive, hdl>> /\ pass' \in {pass, 1, 2}
    BY <1>0 DEF Labels, MainInput, OutLoop, Remove, RemoveCheck, RemoveCall, RemoveSend,
       Close, MainCheck, MainCall, DocloseValid, DocloseManual, DocloseClose,
       DocloseDeleted, MainJoin, AfterClose
  <2>2. Flags'
    <3>1. CASE MainInput
      <4>1. ready' \in BOOLEAN
        BY <3>1 DEF MainInput
      <4> QED
        BY <1>0, <3>1, <4>1 DEF Flags, MainInput
    <3>2. CASE Remove
      BY <1>0, <3>2 DEF Flags, Remove, RemoveCheck, RemoveCall, RemoveSend
    <3>3. CASE DocloseDeleted
      <4>1. undone' \in BOOLEAN
        BY <1>0, <3>3 DEF Flags, DocloseDeleted
      <4> QED
        BY <1>0, <3>3, <4>1 DEF Flags, DocloseDeleted
    <3>4. CASE Close /\ ~ DocloseDeleted
      BY <1>0, <3>4 DEF Flags, Close, MainCheck, MainCall, DocloseValid, DocloseManual,
         DocloseClose, MainJoin
    <3> QED
      BY <3>1, <3>2, <3>3, <3>4
  <2>3. pass' \in 0 .. 2
    BY <1>0, <2>1
  <2>4. TypeOK'
    BY <2>1, <2>2, <2>3, Zenon DEF TypeOK, Labels, Flags
  <2> QED
    BY <2>1, <2>4
<1>2. Handshake'
  BY <1>1 DEF IInv, Handshake, MainInput, Remove, RemoveCheck, RemoveCall, RemoveSend,
     Close, MainCheck, MainCall, DocloseValid, DocloseManual, DocloseClose,
     DocloseDeleted, MainJoin
<1>3. Doclose'
  BY <1>1 DEF IInv, Doclose, MainInput, OutLoop, Remove, RemoveCheck, RemoveCall,
     RemoveSend, Close, MainCheck, MainCall, DocloseValid, DocloseManual, DocloseClose,
     DocloseDeleted, MainJoin, AfterClose
<1>4. Joins' /\ ApiOutlivesThread'
  BY <1>1 DEF IInv, Joins, ApiOutlivesThread, MainInput, OutLoop, Remove, RemoveCheck,
     RemoveCall, RemoveSend, Close, MainCheck, MainCall, DocloseValid, DocloseManual,
     DocloseClose, DocloseDeleted, MainJoin, AfterClose
<1> QED
  BY <1>1, <1>2, <1>3, <1>4 DEF IInv

\* Every state satisfies IInv: the types, and where main, the thread and the callbacks
\* are with the WebSocket and its flags.
THEOREM Invariance == Spec => []IInv
<1>1. IInv /\ [Next]_vars => IInv'
  <2> SUFFICES ASSUME IInv, [Next]_vars PROVE IInv'
    OBVIOUS
  <2>1. CASE UNCHANGED vars
    BY <2>1 DEF vars, wsVars, mainVars, history, IInv, TypeOK, Handshake, Doclose, Joins,
       ApiOutlivesThread
  <2> QED
    BY <2>1, RunStep, MainStep DEF Next, Terminated
<1> QED
  BY InitInv, <1>1, PTL DEF Spec

\* Every variable keeps its type.
THEOREM TypeCorrect == Spec => []TypeOK
<1>1. IInv => TypeOK
  BY DEF IInv
<1> QED
  BY <1>1, Invariance, PTL

\* The API object is freed only after the thread that works with it has ended: the
\* second Close() returns without a join only when the first one has joined.
THEOREM ThreadEndsFirst == Spec => []ApiOutlivesThread
<1>1. IInv => ApiOutlivesThread
  BY DEF IInv
<1> QED
  BY <1>1, Invariance, PTL
-----------------------------------------------------------------------------
(* The refinement of Link. *)
LEMMA RunLink ==
  ASSUME IInv, RunThread \/ Network
  PROVE  [Trades!LinkNext]_link
<1> USE DEF wsVars, At, Go, Trades!LinkNext, Trades!Reconnect, Trades!OnOpen,
        Trades!OnFail, Trades!Lose, link
<1>1. CASE RunNew
  BY <1>1 DEF IInv, Handshake, RunNew
<1>2. CASE RunPublish
  BY <1>2 DEF IInv, Handshake, RunPublish
<1>3. CASE RunStart
  BY <1>3 DEF IInv, Handshake, RunStart
<1>4. CASE HandshakeDone
  BY <1>4 DEF IInv, Handshake, HandshakeDone
<1>5. CASE OnOpenHdl
  BY <1>5 DEF IInv, Handshake, OnOpenHdl
<1>6. CASE OnOpenReset \/ OnOpenCallback \/ RunRead
  BY <1>6 DEF OnOpenReset, OnOpenCallback, RunRead
<1>7. CASE Network /\ ~ HandshakeDone
  BY <1>7 DEF IInv, Handshake, Network, OnFail, Lost, OnClose, Ends
<1>8. CASE RunDelete \/ RunNull
  BY <1>8 DEF RunDelete, RunNull
<1> QED
  BY <1>1, <1>2, <1>3, <1>4, <1>5, <1>6, <1>7, <1>8 DEF RunThread

LEMMA MainLink ==
  ASSUME IInv, MainInput \/ Remove \/ Close
  PROVE  [Trades!LinkNext]_link
<1> USE DEF wsVars, MainGo, Trades!LinkNext, Trades!OnFail, Trades!Lose, link
<1>1. CASE DocloseValid
  BY <1>1 DEF DocloseValid
<1>2. CASE DocloseClose
  BY <1>2 DEF IInv, Doclose, DocloseClose
<1>3. CASE MainInput \/ Remove \/ (Close /\ ~ DocloseValid /\ ~ DocloseClose)
  <2>1. UNCHANGED <<run, alive, hdl, valid, state>>
    BY <1>3 DEF MainInput, Remove, RemoveCheck, RemoveCall, RemoveSend, Close, MainCheck,
       MainCall, DocloseManual, DocloseDeleted, MainJoin
  <2> QED
    BY <2>1
<1> QED
  BY <1>1, <1>2, <1>3

\* Whatever RunThread, the network and main's Close() do, to Trade the connection is
\* the three-state link it is modelled with.
THEOREM LinkImplemented == Spec => ImplementsLink
<1>1. Init => Trades!LinkInit
  BY DEF Init, link, Trades!LinkInit
<1>2. IInv /\ [Next]_vars => [Trades!LinkNext]_link
  <2> SUFFICES ASSUME IInv, [Next]_vars PROVE [Trades!LinkNext]_link
    OBVIOUS
  <2>1. CASE UNCHANGED vars
    BY <2>1 DEF vars, wsVars, link
  <2> QED
    BY <2>1, RunLink, MainLink DEF Next, Terminated
<1> QED
  BY <1>1, <1>2, Invariance, PTL DEF Spec, ImplementsLink, Trades!LinkSpec
=============================================================================
