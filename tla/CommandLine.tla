----------------------------- MODULE CommandLine -----------------------------
(***************************************************************************)
(* parse_arguments of src/src/main.c: each option overrides one default,   *)
(* in any order and any number of times, and what they amount to together  *)
(* is judged when all are read.  Kept of AppConfig is what decides which   *)
(* controllers run and which GPIO lines they drive; paths, the scan's      *)
(* numbers and the brightness are accepted or refused on their own.        *)
(***************************************************************************)
EXTENDS Integers, FiniteSets

CONSTANT Lines  \* GPIO line numbers

(* A line is {} until its option has provided one.                         *)
Provided == {{}} \cup {{line} : line \in Lines}
Configs ==
  [interface : BOOLEAN, enableLed : BOOLEAN, gpioLine : Provided,
   display : BOOLEAN, clkLine : Provided, dioLine : Provided]

DefaultConfig ==
  [interface |-> FALSE, enableLed |-> TRUE, gpioLine |-> {},
   display |-> FALSE, clkLine |-> {}, dioLine |-> {}]

LineOptions == {"gpioLine", "clkLine", "dioLine"}

(* What config may become by one more well-formed option.                  *)
WithOption(config) ==
  {config, [config EXCEPT !.interface = TRUE], [config EXCEPT !.enableLed = FALSE]}
    \cup {[config EXCEPT !.display = shown] : shown \in BOOLEAN}
    \cup {[config EXCEPT ![option] = {line}] : option \in LineOptions, line \in Lines}

LedApartFromClk(config) == config.enableLed => config.gpioLine \cap config.clkLine = {}

LedApart(config) ==
  config.enableLed => config.gpioLine \cap (config.clkLine \cup config.dioLine) = {}

Accepted(config) ==
  /\ config.interface
  /\ config.display =>
       /\ config.clkLine # {} /\ config.dioLine # {}
       /\ config.clkLine # config.dioLine
       /\ LedApart(config)

(* The lines each controller will be given; without any it runs nothing.   *)
Granted(config) ==
  [led |-> IF config.enableLed THEN config.gpioLine ELSE {},
   display |-> IF config.display THEN config.clkLine \cup config.dioLine ELSE {}]
=============================================================================
