---------------------------- MODULE RulesHistory ----------------------------
(***************************************************************************)
(* The rules engine with history variables, to say what its attempt list   *)
(* must agree with:                                                        *)
(*   remembered[k]  when attempt k was last entered or refreshed           *)
(*   alertedAt[k]   when attempt k was last alerted and entered            *)
(*   judged         the attempt the last packet carried                    *)
(*   doubted        whether time() failed when it was judged               *)
(***************************************************************************)
EXTENDS RulesEngine

VARIABLES remembered, alertedAt, judged, doubted

hvars == <<now, attempts, evaluated, event, remembered, alertedAt, judged,
           doubted>>

Dedup == INSTANCE DedupPromise WITH repeat <- (judged # {} /\ event = {SshRepeat})

Never == Dedup!Never

HInit ==
  /\ Init
  /\ remembered = [k \in Attempts |-> Never]
  /\ alertedAt = [k \in Attempts |-> Never]
  /\ judged = {} /\ doubted = FALSE

HTick == Tick /\ UNCHANGED <<remembered, alertedAt, judged, doubted>>

HPlain ==
  /\ EvaluatePlain
  /\ judged' = {} /\ doubted' = FALSE
  /\ UNCHANGED <<remembered, alertedAt>>

HNoClock(k) ==
  /\ EvaluateNoClock
  /\ judged' = {k} /\ doubted' = TRUE
  /\ UNCHANGED <<remembered, alertedAt>>

HRepeat(k) ==
  /\ EvaluateRepeat(k)
  /\ judged' = {k} /\ doubted' = FALSE
  /\ remembered' = [remembered EXCEPT ![k] = now]
  /\ UNCHANGED alertedAt

HFirst(k) ==
  /\ EvaluateFirst(k)
  /\ judged' = {k} /\ doubted' = FALSE
  /\ remembered' = [remembered EXCEPT ![k] = now]
  /\ alertedAt' = [alertedAt EXCEPT ![k] = now]

HUntracked(k) ==
  /\ EvaluateUntracked(k)
  /\ judged' = {k} /\ doubted' = FALSE
  /\ UNCHANGED <<remembered, alertedAt>>

HNext ==
  \/ HTick
  \/ HPlain
  \/ \E k \in Attempts : HNoClock(k) \/ HRepeat(k) \/ HFirst(k) \/ HUntracked(k)

HSpec == HInit /\ [][HNext]_hvars

-----------------------------------------------------------------------------
HTypeOK ==
  /\ TypeOK
  /\ remembered \in [Attempts -> Time \cup {Never}]
  /\ alertedAt \in [Attempts -> Time \cup {Never}]
  /\ judged \subseteq Attempts /\ doubted \in BOOLEAN

(* The list holds, for each attempt, the time it was last seen: a duplicate*)
(* refreshes its own entry and no other.  Holds whatever the clock does.   *)
AttemptsTruthful ==
  \A k \in DOMAIN attempts : attempts[k] = remembered[k]

(* No SYN is silenced unless its very attempt has already been alerted,    *)
(* whatever the clock, the allocator and other attempts do (rules.c:110    *)
(* "keep the alert rather than missing it").                               *)
SilencedWasAlerted ==
  \A k \in judged : event = {SshRepeat} => alertedAt[k] # Never

(* Pruning is invisible: an attempt seen in the last DedupSeconds is still *)
(* in the list.                                                            *)
NoRecentAttemptForgotten ==
  \A k \in Attempts :
    remembered[k] # Never /\ now - remembered[k] <= DedupSeconds
      => k \in DOMAIN attempts

(* Capture duplicates are not counted twice (src/README.md:42): a packet   *)
(* is an ALERT only when no alert of its own attempt was raised and noted  *)
(* in the last DedupSeconds, not in this very second either, however many  *)
(* repeats came in between.  Without a clock every attempt is an ALERT.    *)
SshAlertSpacing ==
  [][evaluated' # evaluated /\ ~doubted' /\ event' = {SshAlert} =>
       \A k \in judged' :
         alertedAt[k] = Never \/ now - alertedAt[k] > DedupSeconds]_hvars

(* The engine, seen through its history, is the de-duplication promise.    *)
ImplementsDedup == Dedup!DedupSpec
=============================================================================
