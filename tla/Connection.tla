----------------------------- MODULE Connection -----------------------------
(* OKCoinWebSocketApi's thread and the WebSocket it makes, runs and deletes over
   and over (RunThread and WebSocket), against main, which closes the connection
   at the end: Close(), then Close() again from the destructor.

   RunThread's next pass finds pWebsocket null, so its own doclose never runs and
   which of the four passes of its inner loop it is in does not matter.          *)
EXTENDS Naturals

VARIABLES
  run,        \* RunThread: the step it is about to take
  present,    \* pWebsocket # 0
  alive,      \* the latest WebSocket has not been deleted
  state,      \* its session::state
  hdl,        \* its m_hdl names the connection
  manual,     \* its m_manual_close
  valid,      \* its is_valid
  wasManual,  \* RunThread's local bManualClose
  main,       \* main: the step it is about to take
  held,       \* the WebSocket main has called: "none", "live", "deleted"
  joined,     \* hThread has been joined
  pass,       \* the calls of Close() begun
  sent,       \* history: doclose has closed an open connection
  undone,     \* history: a close asked for was forgotten
  ready       \* history: main quits on an open connection, not lost since

wsVars   == <<run, present, alive, state, hdl, manual, valid, wasManual>>
mainVars == <<main, joined, pass, sent>>
history  == <<undone, ready>>
vars     == <<wsVars, mainVars, held, history>>

TypeOK ==
  /\ run \in {"new", "publish", "start", "loop", "onOpen", "reset", "callback",
              "read", "delete", "null", "done"}
  /\ state \in {"none", "connecting", "open", "closing", "closed"}
  /\ present \in BOOLEAN /\ alive \in BOOLEAN /\ hdl \in BOOLEAN
  /\ manual \in BOOLEAN /\ valid \in BOOLEAN /\ wasManual \in BOOLEAN
  /\ joined \in BOOLEAN /\ sent \in BOOLEAN /\ undone \in BOOLEAN /\ ready \in BOOLEAN
  /\ main \in {"running", "remove", "removeCall", "send", "check", "call", "valid",
               "manual", "close", "join", "ended", "aborted"}
  /\ held \in {"none", "live", "deleted"} /\ pass \in 0 .. 2

Init ==
  /\ run = "new" /\ present = FALSE /\ alive = FALSE /\ state = "none"
  /\ hdl = FALSE /\ manual = FALSE /\ valid = FALSE /\ wasManual = FALSE
  /\ main = "running" /\ held = "none" /\ joined = FALSE /\ pass = 0
  /\ sent = FALSE /\ undone = FALSE /\ ready = FALSE

Asked == main # "running"
Over  == main \in {"ended", "aborted"}
-----------------------------------------------------------------------------
(* RunThread. *)
At(l) == run = l /\ ~ Over
Go(l) == run' = l

\* pWebsocket = new WebSocket()
RunNew ==
  /\ At("new") /\ Go("publish") /\ present' = TRUE /\ alive' = TRUE
  /\ state' = "none" /\ hdl' = FALSE /\ manual' = FALSE /\ valid' = TRUE
  /\ UNCHANGED <<wasManual, mainVars, held, history>>

\* set_websocket and the callbacks
RunPublish ==
  /\ At("publish") /\ Go("start")
  /\ UNCHANGED <<present, alive, state, hdl, manual, valid, wasManual, mainVars, held,
                 history>>

\* run(): connect, and into the loop of the endpoint.
RunStart ==
  /\ At("start") /\ Go("loop") /\ state' = "connecting"
  /\ UNCHANGED <<present, alive, hdl, manual, valid, wasManual, mainVars, held, history>>

\* The handshake ends; on_open sets m_hdl, ...
HandshakeDone ==
  /\ At("loop") /\ state = "connecting" /\ state' = "open" /\ Go("onOpen")
  /\ UNCHANGED <<present, alive, hdl, manual, valid, wasManual, mainVars, held, history>>

\* Mutant: m_hdl is not kept.
OnOpenNoHdl ==
  /\ At("onOpen") /\ Go("reset")
  /\ UNCHANGED <<present, alive, state, hdl, manual, valid, wasManual, mainVars, held,
                 history>>

OnOpenHdl ==
  /\ At("onOpen") /\ Go("reset") /\ hdl' = TRUE
  /\ UNCHANGED <<present, alive, state, manual, valid, wasManual, mainVars, held, history>>

\* ... takes the connection for one nobody has asked to close, ...
OnOpenReset ==
  /\ At("reset") /\ Go("callback") /\ manual' = FALSE /\ undone' = (undone \/ manual)
  /\ UNCHANGED <<present, alive, state, hdl, valid, wasManual, mainVars, held, ready>>

\* ... and calls cn_callbak_open, whose subscription throws out of the loop when
\* the connection is being closed already.
OnOpenCallback ==
  /\ At("callback") /\ Go(IF state = "open" THEN "loop" ELSE "read")
  /\ UNCHANGED <<present, alive, state, hdl, manual, valid, wasManual, mainVars, held,
                 history>>

\* on_fail and on_close: the connection is gone and the loop returns.
Ends(from) ==
  /\ At("loop") /\ state = from /\ state' = "closed" /\ valid' = FALSE /\ Go("read")
  /\ ready' = (ready /\ from # "open")
  /\ UNCHANGED <<present, alive, hdl, manual, wasManual, mainVars, held, undone>>

OnFail  == Ends("connecting")
Lost    == Ends("open")
OnClose == Ends("closing")

\* Mutant: any connection that has become invalid ends the thread.
ReadInvalid ==
  /\ At("read") /\ Go("delete") /\ wasManual' = (manual \/ ~ valid)
  /\ UNCHANGED <<present, alive, state, hdl, manual, valid, mainVars, held, history>>

RunRead ==
  /\ At("read") /\ Go("delete") /\ wasManual' = manual
  /\ UNCHANGED <<present, alive, state, hdl, manual, valid, mainVars, held, history>>

RunDelete ==
  /\ At("delete") /\ Go("null") /\ alive' = FALSE
  /\ held' = (IF held = "live" THEN "deleted" ELSE held)
  /\ UNCHANGED <<present, state, hdl, manual, valid, wasManual, mainVars, history>>

\* Mutant: reconnects whatever was asked.
NullAgain ==
  /\ At("null") /\ present' = FALSE /\ Go("new")
  /\ UNCHANGED <<alive, state, hdl, manual, valid, wasManual, mainVars, held, history>>

RunNull ==
  /\ At("null") /\ present' = FALSE /\ Go(IF wasManual THEN "done" ELSE "new")
  /\ UNCHANGED <<alive, state, hdl, manual, valid, wasManual, mainVars, held, history>>

RunThread ==
  \/ RunNew \/ RunPublish \/ RunStart \/ OnOpenHdl \/ OnOpenReset \/ OnOpenCallback
  \/ RunRead \/ RunDelete \/ RunNull

Network == HandshakeDone \/ OnFail \/ Lost \/ OnClose
-----------------------------------------------------------------------------
(* main. *)
MainGo(l) == main' = l

\* out_loop, and the strategy has been joined.
OutLoop == MainGo("check") /\ pass' = 1

\* The user enters 0, or 3, which unsubscribes and falls through to 0.
MainInput ==
  /\ main = "running"
  /\ \/ OutLoop
     \/ MainGo("remove") /\ UNCHANGED pass
  /\ ready' = (run = "loop" /\ state = "open")
  /\ UNCHANGED <<wsVars, joined, sent, held, undone>>

\* if(pWebsocket != 0)
RemoveCheck ==
  /\ main = "remove"
  /\ IF present THEN MainGo("removeCall") /\ UNCHANGED pass ELSE OutLoop
  /\ UNCHANGED <<wsVars, joined, sent, held, history>>

\* pWebsocket is read again for the call of remove, ...
RemoveCall ==
  /\ main = "removeCall"
  /\ IF present THEN MainGo("send") /\ held' = (IF alive THEN "live" ELSE "deleted")
                ELSE MainGo("aborted") /\ UNCHANGED held
  /\ UNCHANGED <<wsVars, joined, pass, sent, history>>

\* ... whose send throws, out of main, unless m_hdl names an open connection.
RemoveSend ==
  /\ main = "send" /\ held' = "none"
  /\ \/ /\ held = "deleted" \/ (hdl /\ state = "open")
        /\ OutLoop
     \/ /\ held = "deleted" \/ ~ (hdl /\ state = "open")
        /\ MainGo("aborted") /\ UNCHANGED pass
  /\ UNCHANGED <<wsVars, joined, sent, history>>

Remove == RemoveCheck \/ RemoveCall \/ RemoveSend

\* Mutant: one Close() too many.
AfterCloseAgain(hasJoined) ==
  IF pass <= 2 THEN MainGo("check") /\ pass' = pass + 1
  ELSE MainGo(IF hasJoined THEN "ended" ELSE "aborted") /\ UNCHANGED pass

\* After Close() comes the destructor's; after that hThread is destroyed, which
\* ends the program by std::terminate if nobody has joined it.
AfterClose(hasJoined) ==
  IF pass = 1 THEN MainGo("check") /\ pass' = 2
  ELSE MainGo(IF hasJoined THEN "ended" ELSE "aborted") /\ UNCHANGED pass

\* if(pWebsocket != 0)
MainCheck ==
  /\ main = "check"
  /\ \/ present /\ MainGo("call") /\ UNCHANGED pass
     \/ ~ present /\ AfterClose(joined)
  /\ UNCHANGED <<wsVars, joined, sent, held, history>>

\* pWebsocket is read again for the call of doclose: a null one crashes.
MainCall ==
  /\ main = "call"
  /\ IF present THEN MainGo("valid") /\ held' = (IF alive THEN "live" ELSE "deleted")
                ELSE MainGo("aborted") /\ UNCHANGED held
  /\ UNCHANGED <<wsVars, joined, pass, sent, history>>

\* Mutant: doclose leaves is_valid alone.
DocloseStaysValid ==
  /\ main = "valid" /\ held = "live" /\ MainGo("manual")
  /\ UNCHANGED <<wsVars, joined, pass, sent, held, history>>

DocloseValid ==
  /\ main = "valid" /\ held = "live" /\ MainGo("manual") /\ valid' = FALSE
  /\ UNCHANGED <<run, present, alive, state, hdl, manual, wasManual, joined, pass,
                 sent, held, history>>

DocloseManual ==
  /\ main = "manual" /\ held = "live" /\ MainGo("close") /\ manual' = TRUE
  /\ UNCHANGED <<run, present, alive, state, hdl, valid, wasManual, joined, pass,
                 sent, held, history>>

\* m_endpoint.close throws, out of main, unless m_hdl names an open connection.
DocloseClose ==
  /\ main = "close" /\ held = "live"
  /\ IF hdl /\ state = "open"
     THEN MainGo("join") /\ state' = "closing" /\ sent' = TRUE
     ELSE MainGo("aborted") /\ UNCHANGED <<state, sent>>
  /\ UNCHANGED <<run, present, alive, hdl, manual, valid, wasManual, joined, pass,
                 held, history>>

\* doclose in an object deleted meanwhile: a crash, or nothing the program notices.
DocloseDeleted ==
  /\ main \in {"valid", "manual", "close"} /\ held = "deleted"
  /\ \/ MainGo("aborted") /\ UNCHANGED undone
     \/ MainGo("join") /\ undone' = (undone \/ ~ wasManual)
  /\ UNCHANGED <<wsVars, joined, pass, sent, held, ready>>

\* Mutant: the thread is detached.
MainDetach ==
  /\ main = "join" /\ joined' = TRUE /\ held' = "none"
  /\ AfterClose(TRUE)
  /\ UNCHANGED <<wsVars, sent, history>>

\* hThread.join()
MainJoin ==
  /\ main = "join" /\ run = "done" /\ joined' = TRUE /\ held' = "none"
  /\ AfterClose(TRUE)
  /\ UNCHANGED <<wsVars, sent, history>>

Close ==
  \/ MainCheck \/ MainCall \/ DocloseValid \/ DocloseManual \/ DocloseClose
  \/ DocloseDeleted \/ MainJoin

Terminated == Over /\ UNCHANGED vars

Next == RunThread \/ Network \/ MainInput \/ Remove \/ Close \/ Terminated

Spec == Init /\ [][Next]_vars

\* Both threads are scheduled; a close handshake is answered or times out after
\* three seconds; and a handshake that can always be tried again succeeds.
Fairness ==
  /\ WF_vars(RunThread) /\ WF_vars(Remove \/ Close) /\ WF_vars(OnClose)
  /\ SF_vars(HandshakeDone) /\ WF_vars(Network /\ state = "connecting")

FairSpec == Spec /\ Fairness
-----------------------------------------------------------------------------
\* The API object is freed only when the thread that works with it has ended,
\* whichever of the two calls of Close() found a WebSocket to close.
ApiOutlivesThread == main = "ended" => run = "done"

\* Trade's view of the connection: until it is published, once it is not valid,
\* and after it is deleted, the WebSocket does not carry a request.
link ==
  IF ~ alive \/ ~ valid \/ run = "publish" THEN "closed"
  ELSE IF hdl /\ state = "open" THEN "open" ELSE "connecting"

\* While nobody asks for a close, a connection that is not there comes back.
Reconnects == link # "open" /\ ~ Asked ~> link = "open" \/ Asked

\* Close() returns, unless on_open took back what doclose had asked for, or the
\* WebSocket that was asked had been deleted.
CloseReturns == main = "join" ~> main # "join" \/ undone

\* Closing a connection that is up, and stays up until it is closed, ends both
\* threads and the program.
CleanClose == ready ~> main = "ended" \/ ~ ready

\* To Trade the connection is the three-state link it is modelled with.
Trades == INSTANCE Link WITH conn <- link
ImplementsLink == Trades!LinkSpec

\* okcoinwebsocketapi.cpp:97: only a connection that the user has not closed is
\* made again.
ReconnectsOnlyIfNotClosed == [][ RunNew => ~ sent ]_vars
=============================================================================
