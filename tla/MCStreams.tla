------------------------------ MODULE MCStreams ------------------------------
(***************************************************************************)
(* The process, and the two ways to the server, on small instances: the    *)
(* configuration (server.websocket, main.cpp:260) has the gateway use one  *)
(* of them.  The three models are independent, so a behaviour exercises    *)
(* one and leaves the others at rest.                                      *)
(***************************************************************************)
EXTENDS CommandStream

CONSTANTS Lengths, MaxFrame, TwoFrames, Optional

ASSUME FramesAssumption == Lengths \in Seq(Nat \ {0}) /\ MaxFrame \in Nat

VARIABLES
  exercised, \* the part
  nextMessage, rest, frameSock, frames, reading, buffer, leftover, stale, frameDrops, received,
  enabled, readable, todo, made, thread, callable, quit

Process == INSTANCE ProcessLife
Frames == INSTANCE WebSocketFrames
            WITH next <- nextMessage, sock <- frameSock, drops <- frameDrops

frameVars == <<nextMessage, rest, frameSock, frames, reading, buffer, leftover, stale, frameDrops, received>>
processVars == <<enabled, readable, todo, made, thread, callable, quit>>

\* Four messages, short and long.
FourMessages == <<2, 1, 3, 1>>

NoProcess ==
  /\ enabled = {} /\ readable = {} /\ todo = <<>> /\ made = {}
  /\ thread = [t \in Process!Threads |-> "none"] /\ callable = FALSE /\ quit = FALSE

OverTcp(step) ==
  exercised = "tcp" /\ step /\ UNCHANGED <<exercised, frameVars, processVars>>
OverWebSocket(step) ==
  exercised = "websocket" /\ step /\ UNCHANGED <<exercised, vars, processVars>>
OfProcess(step) ==
  exercised = "process" /\ step /\ UNCHANGED <<exercised, vars, frameVars>>

StreamsInit ==
  /\ exercised \in {"tcp", "websocket", "process"}
  /\ Init /\ Frames!Init
  /\ IF exercised = "process" THEN Process!ProcessInit ELSE NoProcess

StreamsNext ==
  OverTcp(Next) \/ OverWebSocket(Frames!Next) \/ OfProcess(Process!ProcessNext)

StreamsSpec ==
  /\ StreamsInit /\ [][StreamsNext]_<<exercised, vars, frameVars, processVars>>
  /\ WF_vars(OverTcp(Receiver)) /\ WF_vars(OverTcp(Dispatcher))
  /\ Process!ProcessFairness

\* On either way messages are handled in the order the server sent them, each once,
\* and over a WebSocket all that have come (TCP.cpp:216-232,
\* WebSocketServerConnection.cpp:184-210).
ArriveInOrder == InOrder /\ Frames!InOrder /\ Frames!AllArrive

\* A torn message is the first one of a TCP connection, after init has swallowed its
\* beginning (TCP.cpp:117), or one in front of which m_data_leftover of an earlier
\* connection stands (WebSocketServerConnection.cpp:194-202).
TornHasCause == OnlyFirstIsTorn /\ Frames!OnlyStaleIsTorn

\* main gives the Aggregator all of its parts before anybody calls it; and when it
\* returns, all threads have ended but for the dispatcher's and the button's, and those of
\* the LEDs and of Jablotron, which it could have stopped and does not (main.cpp:252-421).
StopIsClean == Process!StopIsClean

\* main returns after SIGTERM, unless it waits for a thread that was never started.
Stops == Process!Stops
==============================================================================
