---------------------------- MODULE DedupPromise ----------------------------
(***************************************************************************)
(* What the SSH de-duplication of rules.c promises (src/README.md:42 "2XXX:*)
(* the count after de-duplication", rules.c:110): an attempt is an ALERT   *)
(* unless it was seen in the last DedupSeconds; when in doubt, an ALERT.   *)
(***************************************************************************)
EXTENDS Integers

CONSTANTS Attempts, DedupSeconds

VARIABLES
  now,         \* the wall clock
  remembered,  \* remembered[k]: when attempt k was last seen and noted
  judged,      \* the attempt the last packet carried: {} or one attempt
  repeat       \* whether it was judged a repeat

dedupVars == <<now, remembered, judged, repeat>>

Never == -1

Recent(k) == remembered[k] # Never /\ now - remembered[k] <= DedupSeconds

DedupInit ==
  /\ now \in Nat
  /\ remembered = [k \in Attempts |-> Never]
  /\ judged = {}
  /\ repeat = FALSE

(* A recent attempt is a repeat, and its time is refreshed.                *)
Repeat(k) ==
  /\ Recent(k)
  /\ judged' = {k}
  /\ repeat' = TRUE
  /\ remembered' = [remembered EXCEPT ![k] = now]
  /\ UNCHANGED now

(* Any other is an alert, noted unless memory is exhausted.                *)
First(k) ==
  /\ ~Recent(k)
  /\ judged' = {k}
  /\ repeat' = FALSE
  /\ remembered' \in {remembered, [remembered EXCEPT ![k] = now]}
  /\ UNCHANGED now

(* Without a clock every attempt is an alert.                              *)
Doubt(k) ==
  /\ judged' = {k}
  /\ repeat' = FALSE
  /\ UNCHANGED <<now, remembered>>

Unrelated ==
  /\ judged' = {}
  /\ repeat' = FALSE
  /\ UNCHANGED <<now, remembered>>

PassTime ==
  /\ now' \in Nat
  /\ now' >= now
  /\ UNCHANGED <<remembered, judged, repeat>>

DedupNext ==
  \/ \E k \in Attempts : Repeat(k) \/ First(k) \/ Doubt(k)
  \/ Unrelated
  \/ PassTime

DedupSpec == DedupInit /\ [][DedupNext]_dedupVars
=============================================================================
