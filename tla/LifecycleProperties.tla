------------------------ MODULE LifecycleProperties ------------------------
(* What netmon's start, stop and signals keep true together.               *)
EXTENDS Lifecycle

(* process_packet and the worker threads find every subsystem they use: as *)
(* long as packets are handled, and until the capture is closed, only the  *)
(* optional display may be missing.                                        *)
CallbackSafe == main \in {"loop", "close", "forget"} => {"logger", "scan", "rules", "led"} \subseteq alive

(* Whatever failed, and whenever the stop came, netmon exits with nothing  *)
(* left and the capture closed.                                            *)
ExitsClean == main = "exited" => alive = {} /\ capture # "open"

(* main.c:214 "distinct CLK/DIO lines, separate from the enabled LED":     *)
(* whatever the options, repeated and in any order, no two controllers     *)
(* ever hold the same GPIO line, nor the display one line twice.           *)
DevicesApart ==
  /\ devices.led # {} /\ "led" \in alive /\ "display" \in alive
       => devices.led \cap devices.display = {}
  /\ "display" \in alive => Cardinality(devices.display) \in {0, 2}

(* main.c:359 "Cleanup runs in reverse order of initialization", on every  *)
(* failure path too: nothing is torn down before what was built on it.     *)
ReverseOrder ==
  [][\A i \in 1..5 :
       Order[i] \in alive \ alive' => \A j \in i..5 : Order[j] \notin alive']_vars

(* A stop request that reached libpcap ends the process, whatever signals  *)
(* still arrive and whichever thread they interrupt.                       *)
BreakExits == breaking ~> main = "exited"

(* main.c:318 "SIGINT/SIGTERM provide a clean Ctrl+C path": a noted stop   *)
(* request ends the process.                                               *)
StopExits == stop ~> Ended

(* main.c:318 again: the handler never works on a capture that is closed.  *)
HandlerUsesOpenCapture == ~misused
=============================================================================
