----------------------------- MODULE ProcessLife -----------------------------
(***************************************************************************)
(* Start and end of the process (src/main.cpp, src/ModuleADT.cpp): which   *)
(* objects main creates and gives to the Aggregator, which threads it      *)
(* starts and joins, and those that the Aggregator and the TCP connection  *)
(* start by themselves.  What a thread does in its loop is left out, but   *)
(* for calls that need the other parts; each loop looks at                 *)
(* quit_global_flag once in every round.                                   *)
(***************************************************************************)
EXTENDS Naturals, Sequences

CONSTANT Optional \* what the configuration files of the instance may enable

VARIABLES
  enabled,  \* what they do enable
  readable, \* the modules for which ModuleADT could read its own file, too
  todo,     \* the steps of main, from the next one
  made,     \* what the Aggregator has been given
  thread,   \* a state for each thread
  callable, \* MosqClient's agg is set
  quit      \* quit_global_flag

processVars == <<enabled, readable, todo, made, thread, callable, quit>>

\* Poco::Runnables, and the children of ModuleADT.
Runnables == {"mqtt", "aggregator", "connection", "vpt", "virtual"}
Children  == {"pressure", "leds", "jablotron", "mqttdata", "bluetooth", "belkin"}
Helpers   == {"distributor", "button", "dispatcher"}
Threads   == {"main"} \cup Runnables \cup Children \cup Helpers
Given     == {"connection", "pan", "vpt", "virtual"} \cup Children

ProcessTypeOK ==
  /\ enabled \subseteq Optional /\ readable \subseteq enabled \cap Children
  /\ made \subseteq Given /\ callable \in BOOLEAN /\ quit \in BOOLEAN
  /\ thread \in [Threads -> {"none", "idle", "runs", "waits", "ended"}]

-----------------------------------------------------------------------------
(* main, as a sequence of steps. *)

Each(deed, parts) == [i \in 1..Len(parts) |-> <<deed, parts[i]>>]

Gives == <<"connection", "pan", "vpt", "pressure", "leds", "virtual", "jablotron", "mqttdata",
           "bluetooth", "belkin">>
Starts == <<"aggregator", "connection", "vpt", "pressure", "leds", "virtual", "jablotron",
            "mqttdata", "bluetooth", "belkin">>

\* leds is not among them.
Joins == <<"virtual", "jablotron", "pressure", "vpt", "mqtt", "mqttdata", "bluetooth", "belkin",
           "connection", "aggregator">>

\* Faulty variant: the connection's thread starts as soon as there is a connection.
SetupConnected ==
  Each("start", <<"mqtt">>)
  \o Each("give", <<Head(Gives)>>) \o Each("start", SubSeq(Starts, 1, 2))
  \o Each("give", Tail(Gives)) \o Each("start", SubSeq(Starts, 3, Len(Starts)))

\* The MQTT client runs before there is an Aggregator; everything else after all parts exist.
Setup == Each("start", <<"mqtt">>) \o Each("give", Gives) \o Each("start", Starts)

Steps == Setup \o Each("wait", <<"main">>) \o Each("join", Joins)

Present(part) == part \in enabled \cup {"main", "aggregator", "connection"}

ProcessInit ==
  /\ enabled \in SUBSET Optional /\ readable \in SUBSET (enabled \cap Children)
  /\ todo = Steps /\ made = {} /\ callable = FALSE /\ quit = FALSE
  /\ thread = [t \in Threads |-> IF t = "main" THEN "runs" ELSE "none"]

\* The i-th step is main's next one: those for parts that are not enabled are skipped.
Comes(i) ==
  /\ thread["main"] = "runs"
  /\ Present(todo[i][2]) /\ \A j \in 1..(i - 1) : ~Present(todo[j][2])

Does(i, deed, part) == todo[i] = <<deed, part>> /\ todo' = SubSeq(todo, i + 1, Len(todo))

\* setTCP, setVPT, ...
Give(i, part) ==
  /\ Does(i, "give", part) /\ made' = made \cup {part}
  /\ UNCHANGED <<enabled, readable, thread, callable, quit>>

\* Poco::Thread::start, or ModuleADT::start.
Start(i, part) ==
  /\ Does(i, "start", part)
  /\ thread' = IF part \in Children \ readable THEN thread ELSE [thread EXCEPT ![part] = "runs"]
  /\ UNCHANGED <<enabled, readable, made, callable, quit>>

WaitForQuit(i) ==
  /\ quit /\ Does(i, "wait", "main")
  /\ UNCHANGED <<enabled, readable, made, thread, callable, quit>>

\* Poco::Thread::join or ModuleADT::stop, which joins only what it could start.
Join(i, part) ==
  /\ Does(i, "join", part)
  /\ part # "jablotron" /\ (part \in Children \ readable \/ thread[part] = "ended")
  /\ UNCHANGED <<enabled, readable, made, thread, callable, quit>>

\* jablotron_thread is another thread than the module's, and was never started:
\* some versions of Poco return, some wait for ever.
JoinJablotron(i) ==
  /\ Does(i, "join", "jablotron")
  /\ UNCHANGED thread \/ thread' = [thread EXCEPT !["main"] = "waits"]
  /\ UNCHANGED <<enabled, readable, made, callable, quit>>

\* The Aggregator and its modules hold one another, so nothing is destroyed.
Return ==
  /\ thread["main"] = "runs" /\ \A i \in DOMAIN todo : ~Present(todo[i][2])
  /\ thread' = [thread EXCEPT !["main"] = "ended"]
  /\ UNCHANGED <<enabled, readable, todo, made, callable, quit>>

\* SIGINT or SIGTERM.
KillMe ==
  /\ ~quit /\ thread["main"] = "runs" /\ quit' = TRUE
  /\ UNCHANGED <<enabled, readable, todo, made, thread, callable>>

-----------------------------------------------------------------------------
(* The other threads, until the process is gone. *)

Alive(t) == thread["main"] # "ended" /\ thread[t] = "runs"
Becomes(t, state) == thread' = [thread EXCEPT ![t] = state]

\* Faulty variant: a loop that does not look at the flag.
HeedsAlmost(t) == quit /\ t # "pressure"

\* while (!quit_global_flag)
Heeds(t) == quit

End(t) ==
  /\ t \in (Runnables \cup Children) \ {"aggregator", "connection"}
  /\ Alive(t) /\ Heeds(t) /\ Becomes(t, "ended")
  /\ UNCHANGED <<enabled, readable, todo, made, callable, quit>>

\* Aggregator::run starts the distributor, if there is one, and the button's thread.
StartHelpers ==
  /\ Alive("aggregator") /\ thread["button"] = "none"
  /\ thread' = [thread EXCEPT !["button"] = "runs",
                  !["distributor"] = IF "distributor" \in enabled THEN "runs" ELSE "none"]
  /\ UNCHANGED <<enabled, readable, todo, made, callable, quit>>

\* It joins distThread at the end, even if that was never started.
EndAggregator ==
  /\ Alive("aggregator") /\ Heeds("aggregator") /\ thread["button"] # "none"
  /\ \/ Becomes("aggregator", "ended") /\ thread["distributor"] \in {"ended", "none"}
     \/ Becomes("aggregator", "waits") /\ thread["distributor"] = "none"
  /\ UNCHANGED <<enabled, readable, todo, made, callable, quit>>

\* Distributor::run, before its loop.
SetAgg ==
  /\ Alive("distributor") /\ "mqtt" \in enabled /\ ~callable /\ callable' = TRUE
  /\ UNCHANGED <<enabled, readable, todo, made, thread, quit>>

EndDistributor ==
  /\ Alive("distributor") /\ Heeds("distributor") /\ ("mqtt" \in enabled => callable)
  /\ Becomes("distributor", "ended")
  /\ UNCHANGED <<enabled, readable, todo, made, callable, quit>>

\* waitForEvent gives up without a device.
EndButton ==
  /\ Alive("button") /\ Becomes("button", "ended")
  /\ UNCHANGED <<enabled, readable, todo, made, callable, quit>>

\* IOTReceiver::run starts send_thread.
StartDispatcher ==
  /\ Alive("connection") /\ thread["dispatcher"] = "none" /\ Becomes("dispatcher", "idle")
  /\ UNCHANGED <<enabled, readable, todo, made, callable, quit>>

EndConnection ==
  /\ Alive("connection") /\ Heeds("connection") /\ thread["dispatcher"] # "none"
  /\ Becomes("connection", "ended")
  /\ UNCHANGED <<enabled, readable, todo, made, callable, quit>>

\* A command from the server: parseCmd, unless the flag is set by now.
Wake ==
  /\ Alive("connection") /\ thread["dispatcher"] = "idle"
  /\ Becomes("dispatcher", IF quit THEN "ended" ELSE "runs")
  /\ UNCHANGED <<enabled, readable, todo, made, callable, quit>>

EndCommand ==
  /\ Alive("dispatcher") /\ Becomes("dispatcher", IF quit THEN "ended" ELSE "idle")
  /\ UNCHANGED <<enabled, readable, todo, made, callable, quit>>

Step(i, part) == Give(i, part) \/ Start(i, part) \/ Join(i, part) \/ WaitForQuit(i) \/ JoinJablotron(i)
MainNext == (\E i \in DOMAIN todo : Comes(i) /\ Step(i, todo[i][2])) \/ Return
HelperNext == StartHelpers \/ SetAgg \/ EndDistributor \/ StartDispatcher
ThreadNext == HelperNext \/ EndAggregator \/ EndConnection \/ (\E t \in Threads : End(t))
              \/ EndButton \/ Wake \/ EndCommand
ProcessNext == MainNext \/ KillMe \/ ThreadNext

\* main and each of the threads run.  Each of these steps brings the process nearer to
\* its end, so one condition for all of them is enough.
ProcessFairness ==
  WF_processVars(\/ MainNext \/ HelperNext \/ EndAggregator \/ EndConnection
                 \/ \E t \in Threads : End(t))

ProcessSpec == ProcessInit /\ [][ProcessNext]_processVars /\ ProcessFairness

-----------------------------------------------------------------------------
\* Who may call the Aggregator: the modules' threads, the dispatcher, and the MQTT
\* client once it knows of it.
Calls(t) ==
  /\ thread[t] = "runs" /\ t # "main"
  /\ t = "mqtt" => callable

\* Nobody calls the Aggregator before it has its connection and all modules, though the
\* MQTT client is connected before it exists (main.cpp:248, 252-322; Distributor.cpp:22).
CalledWhenWhole ==
  (\E t \in Threads : Calls(t)) => {p \in Given : Present(p)} \subseteq made

\* When main returns, while the process's globals are destroyed, only these threads still
\* run.  The dispatcher's and the button's are never joined by anybody (TCP.cpp:138,
\* Aggregator.cpp:139).  Those of leds and jablotron main could have joined by
\* ModuleADT::stop: it never stops the first (main.cpp:340-343), and for the second it
\* joins a thread object that was never started (main.cpp:352, 384).
OutlivesMain ==
  thread["main"] = "ended"
  => {t \in Threads : thread[t] \in {"runs", "idle"}} \subseteq {"leds", "jablotron", "dispatcher", "button"}

StopIsClean == CalledWhenWhole /\ OutlivesMain

\* After SIGTERM main returns, or a thread waits for one that was never started:
\* main for Jablotron's (line 382), the Aggregator for a distributor that the
\* configuration does not have (Aggregator.cpp:214).
Stops ==
  quit ~> \/ thread["main"] = "ended"
          \/ thread["main"] = "waits" /\ "jablotron" \in enabled
          \/ thread["aggregator"] = "waits" /\ "distributor" \notin enabled
==============================================================================
