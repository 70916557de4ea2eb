------------------------------ MODULE Lifecycle ------------------------------
(***************************************************************************)
(* The life of netmon: main() of src/src/main.c builds the subsystems one  *)
(* after the other, captures until it is told to stop, and tears them      *)
(* down; SIGINT and SIGTERM interrupt it anywhere.  handle_signal may run  *)
(* on the main thread, which it suspends, or on a worker thread, beside    *)
(* the main thread.                                                        *)
(***************************************************************************)
EXTENDS CommandLine, Sequences

CONSTANTS
  Threads,    \* the controllers that run a worker thread
  MaxSignals  \* bound: signals sent

ASSUME LifecycleAssumption == Threads \subseteq {"led", "display"} /\ MaxSignals \in Nat

VARIABLES
  config,    \* the options read so far, until they are accepted
  devices,   \* the GPIO lines main() passes to each controller
  main,      \* where main() is
  alive,     \* the subsystems that exist
  todo,      \* those still to be torn down, in order
  status,    \* the exit status so far
  handlers,  \* the signals handle_signal is installed for
  stop,      \* g_stop_requested
  handle,    \* g_capture_handle: "null" or "capture"
  capture,   \* what it points to: "none", "open" or "closed"
  breaking,  \* libpcap was asked to leave its loop, external
  on, handler,  \* the thread handle_signal runs on, and where it is
  misused,   \* history: a closed capture was asked to leave its loop
  signals    \* counter behind the bound

mainVars == <<main, alive, todo, status>>
captureVars == <<handle, capture, breaking, misused>>
signalVars == <<stop, on, handler, signals>>
configVars == <<config, devices>>
vars == <<configVars, mainVars, captureVars, signalVars, handlers>>

Signals == {"SIGINT", "SIGTERM"}
Order == <<"logger", "scan", "rules", "led", "display">>
Subsystems == {"logger", "scan", "rules", "led", "display"}
Stages == {"arguments", "logger", "scan", "rules", "led", "display", "SIGINT", "SIGTERM", "open"}

TypeOK ==
  /\ config \in Configs
  /\ devices \in [{"led", "display"} -> SUBSET Lines]
  /\ main \in Stages \cup {"loop", "close", "forget", "cleanup", "exited", "killed"}
  /\ alive \subseteq Subsystems /\ todo \in Seq(Subsystems)
  /\ status \in {"success", "failure"}
  /\ handlers \subseteq Signals /\ stop \in BOOLEAN
  /\ handle \in {"null", "capture"} /\ capture \in {"none", "open", "closed"}
  /\ breaking \in BOOLEAN /\ misused \in BOOLEAN
  /\ on \in {"nobody", "main", "led", "display"} /\ handler \in {"idle", "test", "break"}
  /\ signals \in 0..MaxSignals

Init ==
  /\ config = DefaultConfig /\ devices = Granted(DefaultConfig)
  /\ main = "arguments" /\ alive = {} /\ todo = <<>> /\ status = "success"
  /\ handlers = {} /\ stop = FALSE
  /\ handle = "null" /\ capture = "none" /\ breaking = FALSE /\ misused = FALSE
  /\ on = "nobody" /\ handler = "idle" /\ signals = 0

-----------------------------------------------------------------------------
(* A step of main(), possible unless the handler has suspended it.         *)
MainAt(place) == main = place /\ on # "main"

Following ==
  [arguments |-> "logger", logger |-> "scan", scan |-> "rules", rules |-> "led",
   led |-> "display", display |-> "SIGINT", SIGINT |-> "SIGTERM", SIGTERM |-> "open",
   open |-> "loop"]

CleanupForgetsLogger(stage) ==
  IF stage = "open" THEN <<"display", "led", "rules", "scan">> ELSE <<>>

CleanupForward(stage) ==
  IF stage = "loop" THEN <<"logger", "scan", "rules", "led", "display">> ELSE <<>>

(* What the failure path of a stage, or the end of main(), tears down.     *)
Cleanup(stage) ==
  CASE stage \in {"arguments", "logger"} -> <<>>
    [] stage = "scan" -> <<"logger">>
    [] stage = "rules" -> <<"scan", "logger">>
    [] stage = "led" -> <<"rules", "scan", "logger">>
    [] stage \in {"SIGINT", "SIGTERM", "open", "loop"} -> <<"display", "led", "rules", "scan", "logger">>

Optional == {"display"}

(* Without a display controller main() goes on.                            *)
MainBuilds ==
  \E stage \in {"logger", "scan", "rules", "led", "display"} :
    /\ MainAt(stage)
    /\ \/ alive' = alive \cup {stage}
       \/ stage \in Optional /\ UNCHANGED alive
    /\ main' = Following[stage]
    /\ UNCHANGED <<configVars, todo, status, captureVars, signalVars, handlers>>

MainReadsOption ==
  /\ MainAt("arguments")
  /\ config' \in WithOption(config)
  /\ UNCHANGED <<devices, mainVars, captureVars, signalVars, handlers>>

(* Afterwards only the granted lines matter.                               *)
MainParses ==
  /\ MainAt("arguments")
  /\ Accepted(config)
  /\ devices' = Granted(config) /\ config' = DefaultConfig
  /\ main' = Following["arguments"]
  /\ UNCHANGED <<alive, todo, status, captureVars, signalVars, handlers>>

(* --help: exit(EXIT_SUCCESS) in the middle of parse_arguments.            *)
MainHelps ==
  /\ MainAt("arguments")
  /\ main' = "exited"
  /\ UNCHANGED <<configVars, alive, todo, status, captureVars, signalVars, handlers>>

MainFails ==
  \E stage \in Stages \ Optional :
    /\ MainAt(stage)
    /\ todo' = Cleanup(stage)
    /\ status' = "failure"
    /\ main' = "cleanup"
    /\ UNCHANGED <<configVars, alive, captureVars, signalVars, handlers>>

MainInstalls ==
  \E s \in Signals :
    /\ MainAt(s)
    /\ handlers' = handlers \cup {s}
    /\ main' = Following[s]
    /\ UNCHANGED <<configVars, alive, todo, status, captureVars, signalVars>>

(* capture_open, and the assignment of g_capture_handle.                   *)
MainOpens ==
  /\ MainAt("open")
  /\ capture' = "open"
  /\ handle' = "capture"
  /\ main' = "loop"
  /\ UNCHANGED <<configVars, alive, todo, status, breaking, misused, signalVars, handlers>>

StatusOf(failed) == IF failed THEN "failure" ELSE "success"

LoopResumed == "loop"
LoopLeft == "close"

(* capture_loop returns when libpcap fails, or has seen the break request; *)
(* until then it hands packets to process_packet.                          *)
MainLeavesLoop ==
  /\ MainAt("loop")
  /\ \/ breaking /\ breaking' = FALSE /\ status' = StatusOf(FALSE)
     \/ breaking' = breaking /\ status' = StatusOf(TRUE)
  /\ main' = LoopLeft
  /\ UNCHANGED <<configVars, alive, todo, handle, capture, misused, signalVars, handlers>>

MainCloses ==
  /\ MainAt("close")
  /\ capture' = "closed"
  /\ main' = "forget"
  /\ UNCHANGED <<configVars, alive, todo, status, handle, breaking, misused, signalVars, handlers>>

MainForgets ==
  /\ MainAt("forget")
  /\ handle' = "null"
  /\ todo' = Cleanup("loop")
  /\ main' = "cleanup"
  /\ UNCHANGED <<configVars, alive, status, capture, breaking, misused, signalVars, handlers>>

(* Destroying a controller waits for its worker thread, and so for a       *)
(* handler that runs on it.                                                *)
MainTearsDown ==
  /\ MainAt("cleanup")
  /\ todo # <<>> /\ on # Head(todo)
  /\ alive' = alive \ {Head(todo)}
  /\ todo' = Tail(todo)
  /\ UNCHANGED <<configVars, main, status, captureVars, signalVars, handlers>>

MainExits ==
  /\ MainAt("cleanup")
  /\ todo = <<>>
  /\ main' = "exited"
  /\ UNCHANGED <<configVars, alive, todo, status, captureVars, signalVars, handlers>>

-----------------------------------------------------------------------------
Ended == main \in {"exited", "killed"}

(* A signal without a handler ends the process.                            *)
SignalKills ==
  /\ ~Ended
  /\ signals < MaxSignals /\ signals' = signals + 1
  /\ handlers # Signals
  /\ main' = "killed"
  /\ UNCHANGED <<configVars, alive, todo, status, captureVars, stop, on, handler, handlers>>

(* handle_signal notes the request ...                                     *)
SignalArrives ==
  /\ ~Ended /\ on = "nobody"
  /\ signals < MaxSignals /\ signals' = signals + 1
  /\ handlers # {}
  /\ stop' = TRUE
  /\ on' \in {"main"} \cup {c \in Threads \cap alive : devices[c] # {}}
  /\ handler' = "test"
  /\ UNCHANGED <<configVars, mainVars, captureVars, handlers>>

(* ... looks whether there is a capture ...                                *)
HandlerTests ==
  /\ handler = "test" /\ ~Ended
  /\ IF handle = "null"
     THEN handler' = "idle" /\ on' = "nobody"
     ELSE handler' = "break" /\ UNCHANGED on
  /\ UNCHANGED <<configVars, mainVars, captureVars, stop, signals, handlers>>

(* ... and asks it to leave its loop.  g_capture_handle is read twice, and *)
(* the compiler may keep the first value.                                  *)
HandlerBreaks ==
  /\ handler = "break" /\ ~Ended
  /\ \E target \in {"capture", handle} :
       \/ target = "null" /\ UNCHANGED <<breaking, misused>>
       \/ target # "null" /\ capture = "open" /\ breaking' = TRUE /\ UNCHANGED misused
       \/ target # "null" /\ capture # "open" /\ misused' = TRUE /\ UNCHANGED breaking
  /\ handler' = "idle" /\ on' = "nobody"
  /\ UNCHANGED <<configVars, mainVars, handle, capture, stop, signals, handlers>>

Stopped == Ended /\ UNCHANGED vars

-----------------------------------------------------------------------------
MainSteps ==
  \/ MainReadsOption \/ MainParses \/ MainHelps
  \/ MainBuilds \/ MainFails \/ MainInstalls \/ MainOpens
  \/ MainCloses \/ MainForgets \/ MainTearsDown \/ MainExits

HandlerSteps == HandlerTests \/ HandlerBreaks

LoopBreaks == breaking /\ MainLeavesLoop

Next == MainSteps \/ MainLeavesLoop \/ SignalKills \/ SignalArrives \/ HandlerSteps \/ Stopped

Spec == Init /\ [][Next]_vars

(* Both threads are scheduled, and libpcap looks at the break request; it  *)
(* need not ever fail.                                                     *)
FairSpec == Spec /\ WF_vars(MainSteps) /\ WF_vars(HandlerSteps) /\ WF_vars(LoopBreaks)
=============================================================================
