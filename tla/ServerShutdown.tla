--------------------------- MODULE ServerShutdown ---------------------------
(***************************************************************************)
(* Start and end of the server: main, the console handler, the dispatchers *)
(* that wait on the completion port, the tick thread, the statistics       *)
(* thread, and the worker pool inside the tick loop, which the tick thread *)
(* uses and which is destroyed with the globals when main has returned.    *)
(*                                                                         *)
(* Ctrl-C makes the operating system run the handler in a thread of its    *)
(* own; it clears g_running and posts a fixed number of quit packets, each *)
(* of which ends one dispatcher.  The port takes packets only once it has  *)
(* been made; what is posted earlier is lost.  A dispatcher's I/O          *)
(* completions do not matter here: the port hands packets out in order.    *)
(***************************************************************************)
EXTENDS TickWorkerPool

CONSTANTS
  Dispatcher,    \* the threads that run IoDispatchLoop
  QuitPackets,   \* how many the handler posts: 64
  MaxSignals     \* bound on the times Ctrl-C is pressed

\* Nothing in the code makes this so: the number of dispatchers grows with
\* that of the cores, and passes 64 at 98 of them.
ASSUME EnoughPackets ==
  /\ IsFiniteSet(Dispatcher) /\ Dispatcher # {}
  /\ QuitPackets \in Nat /\ Cardinality(Dispatcher) <= QuitPackets

VARIABLES
  running,   \* g_running
  main,      \* where the main thread is
  ticker,    \* where Run is: "off", "loop", "tick", "ended"
  stats,     \* where StatsLoop is: "off", "loop", "report", "ended"
  alive,     \* the dispatchers that have not left their loop
  toPost,    \* packets the console handlers still have to post
  queue,     \* quit packets in the completion port
  signals,   \* history: how often Ctrl-C was pressed
  heard      \* history: it was pressed when the port existed

server     == <<running, main, ticker, stats, alive, toPost, queue, signals, heard>>
serverVars == <<vars, server>>

ServerInit ==
  /\ Init
  /\ running = TRUE /\ main = "setup"
  /\ ticker = "off" /\ stats = "off"
  /\ alive = {} /\ toPost = 0 /\ queue = 0
  /\ signals = 0 /\ heard = FALSE

-----------------------------------------------------------------------------
(* main, up to the completion port.                                        *)
MakePort ==
  /\ main = "setup"
  /\ main' = "port"
  /\ UNCHANGED <<vars, running, ticker, stats, alive, toPost, queue, signals, heard>>

(* The rest of the preparations; then all threads are started.             *)
StartThreads ==
  /\ main = "port"
  /\ main' = "join"
  /\ ticker' = "loop" /\ stats' = "loop" /\ alive' = Dispatcher
  /\ UNCHANGED <<vars, running, toPost, queue, signals, heard>>

JoinDispatchers ==
  /\ main = "join" /\ alive = {}
  /\ running' = FALSE
  /\ main' = "joinRest"
  /\ UNCHANGED <<vars, ticker, stats, alive, toPost, queue, signals, heard>>

JoinRest ==
  /\ main = "joinRest" /\ ticker = "ended" /\ stats = "ended"
  /\ main' = "exit"
  /\ UNCHANGED <<vars, running, ticker, stats, alive, toPost, queue, signals, heard>>

(* g_tick_loop and its pool go with the other globals.                     *)
Destroy ==
  /\ main = "exit" /\ DestroyStep
  /\ UNCHANGED server

-----------------------------------------------------------------------------
(* (Mistake to test the properties: a packet for one dispatcher only.)     *)
CtrlCOnePacket ==
  /\ signals < MaxSignals
  /\ signals' = signals + 1
  /\ running' = FALSE
  /\ toPost' = toPost + 1
  /\ heard' = (heard \/ main # "setup")
  /\ UNCHANGED <<vars, main, ticker, stats, alive, queue>>

(* ConsoleHandler, for CTRL_C_EVENT.                                       *)
CtrlC ==
  /\ signals < MaxSignals
  /\ signals' = signals + 1
  /\ running' = FALSE
  /\ toPost' = toPost + QuitPackets
  /\ heard' = (heard \/ main # "setup")
  /\ UNCHANGED <<vars, main, ticker, stats, alive, queue>>

PostQuit ==
  /\ toPost > 0
  /\ toPost' = toPost - 1
  /\ queue' = IF main = "setup" THEN queue ELSE queue + 1
  /\ UNCHANGED <<vars, running, main, ticker, stats, alive, signals, heard>>

(* IoDispatchLoop takes a packet with the key -1.                          *)
TakeQuit(d) ==
  /\ d \in alive /\ queue > 0
  /\ queue' = queue - 1
  /\ alive' = alive \ {d}
  /\ UNCHANGED <<vars, running, main, ticker, stats, toPost, signals, heard>>

-----------------------------------------------------------------------------
(* GameTickLoop::Run.  A tick makes any number of calls of the pool.       *)
TickBegin ==
  /\ ticker = "loop" /\ running
  /\ ticker' = "tick"
  /\ UNCHANGED <<vars, running, main, stats, alive, toPost, queue, signals, heard>>

PoolCall ==
  /\ ticker = "tick" /\ CallStep
  /\ UNCHANGED server

TickEnd ==
  /\ ticker = "tick" /\ caller = "idle"
  /\ ticker' = "loop"
  /\ UNCHANGED <<vars, running, main, stats, alive, toPost, queue, signals, heard>>

TickQuit ==
  /\ ticker = "loop" /\ ~running
  /\ ticker' = "ended"
  /\ UNCHANGED <<vars, running, main, stats, alive, toPost, queue, signals, heard>>

(* StatsLoop sleeps, reports and looks at g_running again.                 *)
StatsStep ==
  /\ \/ stats = "loop" /\ stats' = (IF running THEN "report" ELSE "ended")
     \/ stats = "report" /\ stats' = "loop"
  /\ UNCHANGED <<vars, running, main, ticker, alive, toPost, queue, signals, heard>>

-----------------------------------------------------------------------------
MainStep == MakePort \/ StartThreads \/ JoinDispatchers \/ JoinRest \/ Destroy
TickStep == TickBegin \/ PoolCall \/ TickEnd \/ TickQuit
Worker(h) == HelperStep(h) /\ UNCHANGED server

ServerNext ==
  \/ MainStep \/ TickStep \/ StatsStep \/ CtrlC \/ PostQuit
  \/ \E d \in Dispatcher : TakeQuit(d)
  \/ \E h \in Helper : Worker(h)
  \/ /\ CallerSpurious \/ \E h \in Helper : HelperSpurious(h)
     /\ UNCHANGED server

(* Every thread runs; nobody has to press Ctrl-C.                          *)
ServerSpec ==
  /\ ServerInit /\ [][ServerNext]_serverVars
  /\ WF_serverVars(MainStep) /\ WF_serverVars(TickStep) /\ WF_serverVars(StatsStep)
  /\ WF_serverVars(PostQuit)
  /\ \A d \in Dispatcher : WF_serverVars(TakeQuit(d))
  /\ \A h \in Helper : WF_serverVars(Worker(h))

-----------------------------------------------------------------------------
(* Once Ctrl-C has been pressed with the port in place the whole server    *)
(* stops: the dispatchers find a packet each, the tick in progress is      *)
(* finished, every thread is joined and the destructor of the pool, which  *)
(* needs all its helpers to end, returns.                                  *)
ServerStops == heard ~> caller = "gone"
=============================================================================
