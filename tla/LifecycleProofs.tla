--------------------------- MODULE LifecycleProofs ---------------------------
(***************************************************************************)
(* Start and stop for every set of GPIO lines, any options, and any number *)
(* of signals at any time.                                                 *)
(***************************************************************************)
EXTENDS LifecycleProperties, FiniteSetTheorems, TLAPS

(* What has been built when main() is at a stage.                          *)
BuiltInv ==
  /\ main \in {"arguments", "logger"} => alive = {}
  /\ main = "scan" => alive = {"logger"}
  /\ main = "rules" => alive = {"logger", "scan"}
  /\ main = "led" => alive = {"logger", "scan", "rules"}
  /\ main = "display" => alive = {"logger", "scan", "rules", "led"}
  /\ main \in {"SIGINT", "SIGTERM", "open", "loop", "close", "forget"} =>
       /\ {"logger", "scan", "rules", "led"} \subseteq alive
       /\ alive \subseteq {"logger", "scan", "rules", "led", "display"}

(* What is left to tear down covers what exists, the newest first.         *)
LeftInv ==
  \/ todo = <<>> /\ alive = {}
  \/ todo = <<"logger">> /\ alive \subseteq {"logger"}
  \/ todo = <<"scan", "logger">> /\ alive \subseteq {"logger", "scan"}
  \/ todo = <<"rules", "scan", "logger">> /\ alive \subseteq {"logger", "scan", "rules"}
  \/ /\ todo = <<"led", "rules", "scan", "logger">>
     /\ alive \subseteq {"logger", "scan", "rules", "led"}
  \/ /\ todo = <<"display", "led", "rules", "scan", "logger">>
     /\ alive \subseteq {"logger", "scan", "rules", "led", "display"}

CaptureInv == main \notin {"loop", "close", "killed"} => capture # "open"

StopInv ==
  /\ BuiltInv /\ CaptureInv
  /\ main = "cleanup" => LeftInv
  /\ main = "exited" => alive = {}

(* No line was granted twice.                                              *)
Apart(granted) ==
  /\ granted.led \cap granted.display = {}
  /\ Cardinality(granted.display) \in {0, 2}

-----------------------------------------------------------------------------
(* Lines of an accepted configuration never coincide.                      *)
LEMMA AcceptedIsApart ==
  ASSUME NEW c \in Configs, Accepted(c)
  PROVE  Apart(Granted(c))
<1> USE DEF Configs
<1>1. CASE ~c.display
  <2>1. Granted(c).display = {}
    BY <1>1 DEF Granted
  <2> QED
    BY <2>1, FS_EmptySet DEF Apart
<1>2. CASE c.display
  <2>1. PICK clk, dio : c.clkLine = {clk} /\ c.dioLine = {dio}
    BY <1>2 DEF Accepted, Provided
  <2>2. clk # dio /\ Granted(c).display = {clk, dio}
    BY <1>2, <2>1 DEF Accepted, Granted
  <2>3. Cardinality({clk, dio}) = 2
    <3>1. IsFiniteSet({clk}) /\ Cardinality({clk}) = 1
      BY FS_Singleton
    <3>2. {clk, dio} = {clk} \cup {dio}
      OBVIOUS
    <3> QED
      BY <2>2, <3>1, <3>2, FS_AddElement
  <2>4. Granted(c).led \cap {clk, dio} = {}
    BY <1>2, <2>1 DEF Accepted, LedApart, Granted
  <2> QED
    BY <2>2, <2>3, <2>4 DEF Apart
<1> QED
  BY <1>1, <1>2

(* Reading an option, and granting lines, keep the types.                  *)
LEMMA ConfigTypes ==
  /\ DefaultConfig \in Configs
  /\ \A c \in Configs : WithOption(c) \subseteq Configs
  /\ \A c \in Configs : Granted(c) \in [{"led", "display"} -> SUBSET Lines]
<1>1. DefaultConfig \in Configs
  BY DEF DefaultConfig, Configs, Provided
<1>2. ASSUME NEW c \in Configs PROVE WithOption(c) \subseteq Configs
  <2> SUFFICES ASSUME NEW d \in WithOption(c) PROVE d \in Configs
    OBVIOUS
  <2>1. CASE d = c
    BY <2>1
  <2>2. CASE d = [c EXCEPT !.interface = TRUE] \/ d = [c EXCEPT !.enableLed = FALSE]
    BY <2>2 DEF Configs
  <2>3. CASE \E shown \in BOOLEAN : d = [c EXCEPT !.display = shown]
    BY <2>3 DEF Configs
  <2>4. ASSUME NEW option \in LineOptions, NEW line \in Lines, d = [c EXCEPT ![option] = {line}]
        PROVE  d \in Configs
    <3>1. {line} \in Provided
      BY DEF Provided
    <3>2. option = "gpioLine" \/ option = "clkLine" \/ option = "dioLine"
      BY DEF LineOptions
    <3> QED
      BY <2>4, <3>1, <3>2 DEF Configs
  <2> QED
    BY <2>1, <2>2, <2>3, <2>4 DEF WithOption
<1>3. ASSUME NEW c \in Configs PROVE Granted(c) \in [{"led", "display"} -> SUBSET Lines]
  <2>1. c.gpioLine \subseteq Lines /\ c.clkLine \subseteq Lines /\ c.dioLine \subseteq Lines
    BY DEF Configs, Provided
  <2> QED
    BY <2>1 DEF Granted
<1> QED
  BY <1>1, <1>2, <1>3

-----------------------------------------------------------------------------
LifecycleInv == TypeOK /\ StopInv /\ Apart(devices)

(* Steps of the handler, and signals, leave alone what main() builds.      *)
builtVars == <<configVars, main, alive, todo, capture>>

LEMMA NothingBuilt ==
  ASSUME StopInv, Apart(devices), UNCHANGED builtVars
  PROVE  StopInv' /\ Apart(devices)'
BY DEF builtVars, configVars, StopInv, BuiltInv, CaptureInv, LeftInv, Apart

(* The lists of Cleanup name subsystems.                                   *)
LEMMA CleanupTypes ==
  ASSUME NEW stage \in (Stages \ Optional) \cup {"loop"}
  PROVE  Cleanup(stage) \in Seq(Subsystems)
<1>1. \A a, b, c, d, e \in Subsystems :
        /\ <<>> \in Seq(Subsystems)
        /\ <<a>> \in Seq(Subsystems)
        /\ <<a, b>> \in Seq(Subsystems)
        /\ <<a, b, c>> \in Seq(Subsystems)
        /\ <<a, b, c, d, e>> \in Seq(Subsystems)
  OBVIOUS
<1>2. {"logger", "scan", "rules", "led", "display"} \subseteq Subsystems
  BY DEF Subsystems
<1>3. CASE stage \in {"arguments", "logger"}
  BY <1>1, <1>2, <1>3 DEF Cleanup
<1>4. CASE stage = "scan"
  BY <1>1, <1>2, <1>4 DEF Cleanup
<1>5. CASE stage = "rules"
  BY <1>1, <1>2, <1>5 DEF Cleanup
<1>6. CASE stage = "led"
  BY <1>1, <1>2, <1>6 DEF Cleanup
<1>7. CASE stage \in {"SIGINT", "SIGTERM", "open", "loop"}
  BY <1>1, <1>2, <1>7 DEF Cleanup
<1> QED
  BY <1>3, <1>4, <1>5, <1>6, <1>7 DEF Stages, Optional

LEMMA InitInv == Init => LifecycleInv
<1> SUFFICES ASSUME Init PROVE LifecycleInv
  OBVIOUS
<1>1. TypeOK
  <2>1. config \in Configs /\ devices \in [{"led", "display"} -> SUBSET Lines]
    BY ConfigTypes DEF Init
  <2>2. todo \in Seq(Subsystems) /\ signals \in 0..MaxSignals
    BY LifecycleAssumption DEF Init
  <2> QED
    BY <2>1, <2>2 DEF Init, TypeOK, Stages
<1>2. StopInv
  BY DEF Init, StopInv, BuiltInv, CaptureInv
<1>3. Apart(devices)
  BY FS_EmptySet DEF Init, Granted, DefaultConfig, Apart
<1> QED
  BY <1>1, <1>2, <1>3 DEF LifecycleInv

(* Tearing down one subsystem leaves the rest of the list to do.           *)
LEMMA TearDown ==
  ASSUME LeftInv, todo # <<>>, todo' = Tail(todo), alive' = alive \ {Head(todo)}
  PROVE  LeftInv'
<1>1. CASE todo = <<"logger">>
  BY <1>1 DEF LeftInv
<1>2. CASE todo = <<"scan", "logger">>
  BY <1>2 DEF LeftInv
<1>3. CASE todo = <<"rules", "scan", "logger">>
  BY <1>3 DEF LeftInv
<1>4. CASE todo = <<"led", "rules", "scan", "logger">>
  BY <1>4 DEF LeftInv
<1>5. CASE todo = <<"display", "led", "rules", "scan", "logger">>
  BY <1>5 DEF LeftInv
<1> QED
  BY <1>1, <1>2, <1>3, <1>4, <1>5 DEF LeftInv

(* Types are kept by every step.                                           *)
LEMMA TypeStep == TypeOK /\ [Next]_vars => TypeOK'
<1> SUFFICES ASSUME TypeOK, [Next]_vars PROVE TypeOK'
  OBVIOUS
<1> USE DEF TypeOK, vars, configVars, mainVars, captureVars, signalVars, Stages
<1>1. CASE MainReadsOption
  BY <1>1, ConfigTypes DEF MainReadsOption
<1>2. CASE MainParses
  <2>1. devices' \in [{"led", "display"} -> SUBSET Lines] /\ config' \in Configs
    BY <1>2, ConfigTypes DEF MainParses
  <2> QED
    BY <1>2, <2>1 DEF MainParses, Following
<1>3. CASE MainHelps
  BY <1>3 DEF MainHelps
<1>4. CASE MainBuilds
  <2> PICK stage \in {"logger", "scan", "rules", "led", "display"} :
        /\ alive' = alive \cup {stage} \/ UNCHANGED alive
        /\ main' = Following[stage]
    BY <1>4 DEF MainBuilds
  <2>1. main' \in Stages
    BY DEF Following
  <2>2. alive' \subseteq Subsystems
    BY DEF Subsystems
  <2> QED
    BY <1>4, <2>1, <2>2 DEF MainBuilds
<1>5. CASE MainFails
  BY <1>5, CleanupTypes DEF MainFails
<1>6. CASE MainInstalls
  BY <1>6 DEF MainInstalls, Signals, Following
<1>7. CASE MainOpens
  BY <1>7 DEF MainOpens
<1>8. CASE MainLeavesLoop
  BY <1>8 DEF MainLeavesLoop, LoopLeft, StatusOf
<1>9. CASE MainCloses
  BY <1>9 DEF MainCloses
<1>10. CASE MainForgets
  BY <1>10, CleanupTypes DEF MainForgets
<1>11. CASE MainTearsDown
  <2>1. Tail(todo) \in Seq(Subsystems)
    BY <1>11 DEF MainTearsDown
  <2> QED
    BY <1>11, <2>1 DEF MainTearsDown
<1>12. CASE MainExits
  BY <1>12 DEF MainExits
<1>13. CASE SignalKills
  BY <1>13, LifecycleAssumption DEF SignalKills
<1>14. CASE SignalArrives
  BY <1>14, LifecycleAssumption DEF SignalArrives
<1>15. CASE HandlerTests
  BY <1>15 DEF HandlerTests
<1>16. CASE HandlerBreaks
  <2>1. breaking' \in BOOLEAN /\ misused' \in BOOLEAN
    BY <1>16 DEF HandlerBreaks
  <2>2. UNCHANGED <<configVars, mainVars, handle, capture, signals, handlers>>
    BY <1>16 DEF HandlerBreaks
  <2>3. on' = "nobody" /\ handler' = "idle" /\ UNCHANGED stop
    BY <1>16 DEF HandlerBreaks
  <2> QED
    BY <2>1, <2>2, <2>3
<1>17. CASE UNCHANGED vars
  BY <1>17
<1> QED
  BY <1>1, <1>2, <1>3, <1>4, <1>5, <1>6, <1>7, <1>8, <1>9, <1>10, <1>11, <1>12, <1>13,
     <1>14, <1>15, <1>16, <1>17 DEF Next, MainSteps, HandlerSteps, Stopped

(* Only main() builds and tears down, in its own order.                    *)
LEMMA StopStep == TypeOK /\ StopInv /\ [Next]_vars => StopInv'
<1> SUFFICES ASSUME TypeOK, StopInv, [Next]_vars PROVE StopInv'
  OBVIOUS
<1> USE DEF MainAt, StopInv, BuiltInv, CaptureInv
<1>1. CASE MainParses \/ MainHelps \/ MainReadsOption
  BY <1>1 DEF MainParses, MainHelps, MainReadsOption, Following, captureVars, mainVars
<1>2. CASE MainBuilds
  BY <1>2 DEF MainBuilds, Optional, Following, captureVars
<1>3. CASE MainFails
  <2> PICK stage \in Stages \ Optional : main = stage /\ todo' = Cleanup(stage)
    BY <1>3 DEF MainFails
  <2>1. LeftInv'
    BY <1>3 DEF MainFails, Stages, Optional, Cleanup, LeftInv
  <2>2. capture' # "open"
    BY <1>3 DEF MainFails, captureVars, Stages
  <2> QED
    BY <1>3, <2>1, <2>2 DEF MainFails
<1>4. CASE MainInstalls
  BY <1>4 DEF MainInstalls, Signals, Following, captureVars
<1>5. CASE MainOpens
  BY <1>5 DEF MainOpens
<1>6. CASE MainLeavesLoop
  BY <1>6 DEF MainLeavesLoop, LoopLeft
<1>7. CASE MainCloses
  BY <1>7 DEF MainCloses
<1>8. CASE MainForgets
  <2>1. LeftInv'
    BY <1>8 DEF MainForgets, Cleanup, LeftInv
  <2> QED
    BY <1>8, <2>1 DEF MainForgets
<1>9. CASE MainTearsDown
  <2>1. LeftInv'
    BY <1>9, TearDown DEF MainTearsDown
  <2> QED
    BY <1>9, <2>1 DEF MainTearsDown, captureVars
<1>10. CASE MainExits
  BY <1>10 DEF MainExits, LeftInv, captureVars
<1>11. CASE SignalKills
  BY <1>11 DEF SignalKills
<1>12. CASE UNCHANGED builtVars
  BY <1>12 DEF builtVars, LeftInv
<1>13. SignalArrives \/ HandlerSteps \/ UNCHANGED vars => UNCHANGED builtVars
  BY DEF SignalArrives, HandlerSteps, HandlerTests, HandlerBreaks, builtVars, vars,
         configVars, mainVars, captureVars, signalVars
<1> QED
  BY <1>1, <1>2, <1>3, <1>4, <1>5, <1>6, <1>7, <1>8, <1>9, <1>10, <1>11, <1>12, <1>13
  DEF Next, MainSteps, Stopped

(* Only an accepted configuration grants lines.                            *)
LEMMA ApartStep == TypeOK /\ Apart(devices) /\ [Next]_vars => Apart(devices)'
<1> SUFFICES ASSUME TypeOK, Apart(devices), [Next]_vars PROVE Apart(devices)'
  OBVIOUS
<1>1. CASE MainParses
  BY <1>1, AcceptedIsApart DEF MainParses, TypeOK
<1>2. ~MainParses => UNCHANGED devices
  BY DEF Next, MainSteps, HandlerSteps, Stopped, vars, configVars, MainReadsOption, MainHelps,
         MainBuilds, MainFails, MainInstalls, MainOpens, MainLeavesLoop, MainCloses,
         MainForgets, MainTearsDown, MainExits, SignalKills, SignalArrives, HandlerTests,
         HandlerBreaks
<1> QED
  BY <1>1, <1>2 DEF Apart

LEMMA Inductive == LifecycleInv /\ [Next]_vars => LifecycleInv'
BY TypeStep, StopStep, ApartStep DEF LifecycleInv

-----------------------------------------------------------------------------
(* For any lines and options, any failures and any number of signals, the  *)
(* invariant holds, and with it the types.                                 *)
THEOREM LifecycleInvAlways == Spec => []LifecycleInv
<1>1. Init => LifecycleInv
  BY InitInv
<1>2. LifecycleInv /\ [Next]_vars => LifecycleInv'
  BY Inductive
<1> QED
  BY <1>1, <1>2, PTL DEF Spec

(* While packets may arrive, everything process_packet needs exists.       *)
THEOREM CallbackSafeAlways == Spec => []CallbackSafe
<1>1. LifecycleInv => CallbackSafe
  BY DEF LifecycleInv, StopInv, BuiltInv, CallbackSafe
<1> QED
  BY <1>1, LifecycleInvAlways, PTL

(* Every exit leaves nothing behind.                                       *)
THEOREM ExitsCleanAlways == Spec => []ExitsClean
<1>1. LifecycleInv => ExitsClean
  BY DEF LifecycleInv, StopInv, CaptureInv, ExitsClean
<1> QED
  BY <1>1, LifecycleInvAlways, PTL

(* No options give two controllers one GPIO line.                          *)
THEOREM DevicesApartAlways == Spec => []DevicesApart
<1>1. LifecycleInv => DevicesApart
  BY DEF LifecycleInv, Apart, DevicesApart
<1> QED
  BY <1>1, LifecycleInvAlways, PTL

(* Only the teardown makes a subsystem disappear, and it takes the newest. *)
LEMMA ReverseStep ==
  LifecycleInv /\ [Next]_vars =>
    [\A i \in 1..5 :
       Order[i] \in alive \ alive' => \A j \in i..5 : Order[j] \notin alive']_vars
<1> SUFFICES ASSUME LifecycleInv, [Next]_vars, NEW i \in 1..5,
                    Order[i] \in alive \ alive', NEW j \in i..5
             PROVE  Order[j] \notin alive'
  OBVIOUS
<1>1. MainTearsDown
  BY DEF Next, MainSteps, HandlerSteps, Stopped, vars, mainVars, MainParses, MainReadsOption,
         MainHelps, MainBuilds, MainFails, MainInstalls, MainOpens, MainLeavesLoop, MainCloses,
         MainForgets, MainExits, SignalKills, SignalArrives, HandlerTests, HandlerBreaks
<1>2. LeftInv /\ todo # <<>> /\ alive' = alive \ {Head(todo)}
  BY <1>1 DEF MainTearsDown, MainAt, LifecycleInv, StopInv
<1>3. j \in 1..5 /\ i <= j
  OBVIOUS
<1>4. /\ Order[1] = "logger" /\ Order[2] = "scan" /\ Order[3] = "rules"
      /\ Order[4] = "led" /\ Order[5] = "display"
  BY DEF Order
<1>5. /\ i = 1 \/ i = 2 \/ i = 3 \/ i = 4 \/ i = 5
      /\ j = 1 \/ j = 2 \/ j = 3 \/ j = 4 \/ j = 5
  BY <1>3
<1>6. Order[i] = Head(todo)
  BY <1>2
<1> QED
  BY <1>2, <1>3, <1>4, <1>5, <1>6 DEF LeftInv

(* Nothing is torn down before what was built on it.                       *)
THEOREM ReverseOrderAlways == Spec => ReverseOrder
<1>1. LifecycleInv /\ [Next]_vars =>
        [\A i \in 1..5 :
           Order[i] \in alive \ alive' => \A j \in i..5 : Order[j] \notin alive']_vars
  BY ReverseStep
<1> QED
  BY <1>1, LifecycleInvAlways, PTL DEF Spec, ReverseOrder
=============================================================================
