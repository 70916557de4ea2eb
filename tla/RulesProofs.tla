---------------------------- MODULE RulesProofs ----------------------------
(***************************************************************************)
(* Proofs about the SSH de-duplication, for every set of attempts, every   *)
(* length of the de-duplication window and every bound.                    *)
(***************************************************************************)
EXTENDS RulesHistory, TLAPS

LEMMA TypeFacts ==
  ASSUME HTypeOK
  PROVE  /\ now \in Nat /\ DedupSeconds \in Nat /\ Never = -1
         /\ \A k \in Attempts : remembered[k] \in Int /\ alertedAt[k] \in Int
         /\ \A k \in Attempts : remembered[k] >= -1 /\ alertedAt[k] >= -1
         /\ \A k \in DOMAIN attempts : k \in Attempts /\ attempts[k] \in Nat
  BY RulesAssumption DEF HTypeOK, TypeOK, Time, Never, Dedup!Never

(* Pruning keeps entries unchanged; tracking adds or refreshes one entry.  *)
LEMMA PrunedAttempts ==
  ASSUME NEW t, NEW c
  PROVE  /\ \A k : k \in DOMAIN PruneSshAttempts(t, c)
                 <=> k \in DOMAIN attempts /\ ~Expired(t, attempts[k], c)
         /\ \A k \in DOMAIN PruneSshAttempts(t, c) :
              PruneSshAttempts(t, c)[k] = attempts[k]
  BY DEF PruneSshAttempts, Restrict

LEMMA TrackedAttempts ==
  ASSUME NEW f, NEW k, NEW t
  PROVE  /\ \A x : x \in DOMAIN Track(f, k, t) <=> x \in DOMAIN f \/ x = k
         /\ Track(f, k, t)[k] = t
         /\ \A x \in DOMAIN f : x # k => Track(f, k, t)[x] = f[x]
  BY DEF Track

LEMMA StoredAttempts ==
  ASSUME TypeOK, NEW c, NEW k \in Attempts
  PROVE  LET kept == PruneSshAttempts(now, c)
         IN  /\ DOMAIN kept \subseteq Attempts
             /\ kept \in [DOMAIN kept -> Time]
             /\ DOMAIN Track(kept, k, now) \subseteq Attempts
             /\ Track(kept, k, now) \in [DOMAIN Track(kept, k, now) -> Time]
  <1>1. /\ DOMAIN PruneSshAttempts(now, c) \subseteq Attempts
        /\ PruneSshAttempts(now, c) \in [DOMAIN PruneSshAttempts(now, c) -> Time]
    BY DEF TypeOK, PruneSshAttempts, Restrict
  <1> QED BY <1>1 DEF TypeOK, Track

-----------------------------------------------------------------------------
(* What holds whatever the clock does.                                     *)
ListInv ==
  /\ HTypeOK
  /\ AttemptsTruthful
  /\ \A k \in DOMAIN attempts : alertedAt[k] # Never
  /\ SilencedWasAlerted

LEMMA ListInit == HInit => ListInv
  <1> SUFFICES ASSUME HInit PROVE ListInv
    OBVIOUS
  <1>1. HTypeOK
    <2>1. doubted \in BOOLEAN
      BY DEF HInit
    <2> QED BY <2>1, RulesAssumption DEF HInit, Init, HTypeOK, TypeOK, Time
  <1> QED BY <1>1 DEF HInit, Init, ListInv, AttemptsTruthful, SilencedWasAlerted

LEMMA EventTypes == SshAlert \in Events /\ SshRepeat \in Events
  BY DEF SshAlert, SshRepeat, Events, PlainClasses

LEMMA AlertIsNoRepeat == {SshAlert} # {SshRepeat}
  <1>1. SshAlert.severity # SshRepeat.severity
    BY DEF SshAlert, SshRepeat
  <1> QED BY <1>1

LEMMA PlainEventType ==
  ASSUME NEW class \in PlainClasses
  PROVE  \A a, b \in PlainEvent(class) : a \in Events /\ a = b
  BY DEF PlainEvent, Events, PlainClasses

LEMMA ListStep == ListInv /\ [HNext]_hvars => ListInv'
  <1> SUFFICES ASSUME ListInv, [HNext]_hvars PROVE ListInv'
    OBVIOUS
  <1> USE DEF ListInv, HTypeOK
  <1>b. doubted' \in BOOLEAN
    BY DEF HNext, HTick, HPlain, HNoClock, HRepeat, HFirst, HUntracked, hvars
  <1>a. ASSUME Evaluate PROVE evaluated' \in 0..MaxPackets /\ now' = now
    BY <1>a, RulesAssumption DEF Evaluate, TypeOK
  <1>1. CASE HTick
    BY <1>1, <1>b DEF HTick, Tick, TypeOK, Time, AttemptsTruthful, SilencedWasAlerted
  <1>2. CASE HPlain
    <2>1. PICK class \in PlainClasses : event' = PlainEvent(class)
      BY <1>2 DEF HPlain, EvaluatePlain
    <2>2. \A a, b \in event' : a \in Events /\ a = b
      BY <2>1, PlainEventType
    <2> QED BY <1>2, <1>a, <1>b, <2>2
            DEF HPlain, EvaluatePlain, TypeOK, Time, AttemptsTruthful, SilencedWasAlerted
  <1>3. ASSUME NEW k \in Attempts, HNoClock(k) PROVE ListInv'
    BY <1>3, <1>a, <1>b, EventTypes, AlertIsNoRepeat
       DEF HNoClock, EvaluateNoClock, TypeOK, Time, AttemptsTruthful, SilencedWasAlerted
  <1>4. ASSUME NEW k \in Attempts, HRepeat(k) PROVE ListInv'
    <2>1. PICK c \in Casts :
            /\ Evaluate
            /\ k \in DOMAIN PruneSshAttempts(now, c)
            /\ attempts' = Track(PruneSshAttempts(now, c), k, now)
            /\ event' = {SshRepeat}
      BY <1>4 DEF HRepeat, EvaluateRepeat
    <2>2. /\ judged' = {k}
          /\ remembered' = [remembered EXCEPT ![k] = now]
          /\ alertedAt' = alertedAt
      BY <1>4 DEF HRepeat
    <2>3. TypeOK'
      BY <1>a, <2>1, StoredAttempts, EventTypes DEF TypeOK, Time
    <2>4. AttemptsTruthful'
      BY <2>1, <2>2, PrunedAttempts, TrackedAttempts DEF AttemptsTruthful, TypeOK
    <2>5. \A x \in DOMAIN attempts' : alertedAt'[x] # Never
      BY <2>1, <2>2, PrunedAttempts, TrackedAttempts
    <2>6. SilencedWasAlerted'
      BY <2>1, <2>2, PrunedAttempts DEF SilencedWasAlerted
    <2> QED BY <1>b, <2>2, <2>3, <2>4, <2>5, <2>6 DEF TypeOK
  <1>5. ASSUME NEW k \in Attempts, HFirst(k) PROVE ListInv'
    <2>1. PICK c \in Casts :
            /\ Evaluate
            /\ k \notin DOMAIN PruneSshAttempts(now, c)
            /\ attempts' = Track(PruneSshAttempts(now, c), k, now)
            /\ event' = {SshAlert}
      BY <1>5 DEF HFirst, EvaluateFirst
    <2>2. /\ judged' = {k}
          /\ remembered' = [remembered EXCEPT ![k] = now]
          /\ alertedAt' = [alertedAt EXCEPT ![k] = now]
      BY <1>5 DEF HFirst
    <2>3. TypeOK'
      BY <1>a, <2>1, StoredAttempts, EventTypes DEF TypeOK, Time
    <2>4. AttemptsTruthful'
      BY <2>1, <2>2, PrunedAttempts, TrackedAttempts DEF AttemptsTruthful, TypeOK
    <2>5. \A x \in DOMAIN attempts' : alertedAt'[x] # Never
      BY <2>1, <2>2, PrunedAttempts, TrackedAttempts, TypeFacts
    <2>6. SilencedWasAlerted'
      BY <2>1, AlertIsNoRepeat DEF SilencedWasAlerted
    <2> QED BY <1>b, <2>2, <2>3, <2>4, <2>5, <2>6 DEF TypeOK
  <1>6. ASSUME NEW k \in Attempts, HUntracked(k) PROVE ListInv'
    <2>1. PICK c \in Casts :
            /\ Evaluate
            /\ attempts' = PruneSshAttempts(now, c)
            /\ event' = {SshAlert}
      BY <1>6 DEF HUntracked, EvaluateUntracked
    <2>2. judged' = {k} /\ remembered' = remembered /\ alertedAt' = alertedAt
      BY <1>6 DEF HUntracked
    <2>3. TypeOK'
      BY <1>a, <2>1, StoredAttempts, EventTypes DEF TypeOK, Time
    <2>4. AttemptsTruthful' /\ \A x \in DOMAIN attempts' : alertedAt'[x] # Never
      BY <2>1, <2>2, PrunedAttempts DEF AttemptsTruthful
    <2>5. SilencedWasAlerted'
      BY <2>1, AlertIsNoRepeat DEF SilencedWasAlerted
    <2> QED BY <1>b, <2>2, <2>3, <2>4, <2>5 DEF TypeOK
  <1>7. CASE UNCHANGED hvars
    BY <1>7, <1>b DEF hvars, TypeOK, AttemptsTruthful, SilencedWasAlerted
  <1> QED BY <1>1, <1>2, <1>3, <1>4, <1>5, <1>6, <1>7 DEF HNext

LEMMA ListAlways == HSpec => []ListInv
  BY ListInit, ListStep, PTL DEF HSpec

(* Every reachable state is well typed.                                    *)
THEOREM TypeCorrect == HSpec => []HTypeOK
  <1>1. ListInv => HTypeOK
    BY DEF ListInv
  <1> QED BY <1>1, ListAlways, PTL

(* For every behaviour of the clock and every failed allocation, an SSH    *)
(* SYN is only silenced after its own attempt was alerted.                 *)
THEOREM SilencedWasAlertedAlways == HSpec => []SilencedWasAlerted
  <1>1. ListInv => SilencedWasAlerted
    BY DEF ListInv
  <1> QED BY <1>1, ListAlways, PTL

-----------------------------------------------------------------------------
(* With a clock that never goes back.                                      *)
ForwardInv ==
  /\ ListInv
  /\ \A k \in Attempts : alertedAt[k] <= remembered[k] /\ remembered[k] <= now
  /\ NoRecentAttemptForgotten

(* An attempt is in the pruned list exactly when the promise calls it      *)
(* recent.                                                                 *)
LEMMA KeptIsRecent ==
  ASSUME ForwardInv, NEW c \in Casts, NEW k \in Attempts
  PROVE  k \in DOMAIN PruneSshAttempts(now, c) <=> Dedup!Recent(k)
  <1> USE DEF ForwardInv, ListInv
  <1>1. k \in DOMAIN PruneSshAttempts(now, c)
          <=> k \in DOMAIN attempts /\ ~Expired(now, attempts[k], c)
    BY PrunedAttempts
  <1>2. k \in DOMAIN attempts =>
          /\ remembered[k] # Never
          /\ Expired(now, attempts[k], c) <=> now - remembered[k] > DedupSeconds
    BY TypeFacts DEF AttemptsTruthful, Expired
  <1>3. Dedup!Recent(k) => k \in DOMAIN attempts
    BY DEF Dedup!Recent, NoRecentAttemptForgotten, Never
  <1>4. now - remembered[k] <= DedupSeconds <=> ~(now - remembered[k] > DedupSeconds)
    BY TypeFacts
  <1> QED BY <1>1, <1>2, <1>3, <1>4 DEF Dedup!Recent, Never

LEMMA ForwardStep ==
  ASSUME ClockNeverBack PROVE ForwardInv /\ [HNext]_hvars => ForwardInv'
  <1> SUFFICES ASSUME ForwardInv, [HNext]_hvars PROVE ForwardInv'
    OBVIOUS
  <1> USE DEF ForwardInv
  <1>1. ListInv'
    BY ListStep
  <1>2. HTypeOK /\ HTypeOK'
    BY <1>1 DEF ListInv
  <1>3. CASE HTick
    <2>1. PICK d \in Nat : now' = now + d
      BY <1>3 DEF HTick, Tick, ClockNeverBack
    <2>2. UNCHANGED <<attempts, remembered, alertedAt>>
      BY <1>3 DEF HTick, Tick
    <2> QED BY <1>1, <1>2, <2>1, <2>2, TypeFacts
            DEF NoRecentAttemptForgotten, Never, Dedup!Never
  <1>4. ASSUME now' = now, UNCHANGED <<attempts, remembered, alertedAt>>
        PROVE  ForwardInv'
    BY <1>1, <1>4 DEF NoRecentAttemptForgotten, Never, Dedup!Never
  <1>5. CASE HPlain
    BY <1>4, <1>5 DEF HPlain, EvaluatePlain, Evaluate
  <1>6. ASSUME NEW k \in Attempts, HNoClock(k) PROVE ForwardInv'
    BY <1>4, <1>6 DEF HNoClock, EvaluateNoClock, Evaluate
  <1>7. ASSUME NEW k \in Attempts, NEW c \in Casts, now' = now,
               attempts' = Track(PruneSshAttempts(now, c), k, now),
               remembered' = [remembered EXCEPT ![k] = now],
               \/ alertedAt' = alertedAt
               \/ alertedAt' = [alertedAt EXCEPT ![k] = now]
        PROVE  ForwardInv'
    <2>1. \A x \in Attempts : x # k => remembered'[x] = remembered[x]
      BY <1>2, <1>7 DEF HTypeOK
    <2>2. remembered'[k] = now
      BY <1>2, <1>7 DEF HTypeOK
    <2>3. \A x \in Attempts : alertedAt'[x] = alertedAt[x] \/ (x = k /\ alertedAt'[x] = now)
      BY <1>2, <1>7 DEF HTypeOK
    <2>4. \A x \in Attempts :
            alertedAt'[x] <= remembered'[x] /\ remembered'[x] <= now'
      BY <1>2, <1>7, <2>1, <2>2, <2>3, TypeFacts
    <2>5. \A x \in Attempts :
            x \in DOMAIN attempts' <=> x = k \/ Dedup!Recent(x)
      BY <1>7, KeptIsRecent, TrackedAttempts
    <2>6. NoRecentAttemptForgotten'
      BY <1>7, <2>1, <2>5 DEF NoRecentAttemptForgotten, Dedup!Recent, Never, Dedup!Never
    <2> QED BY <1>1, <2>4, <2>6
  <1>8. ASSUME NEW k \in Attempts, HRepeat(k) PROVE ForwardInv'
    BY <1>7, <1>8 DEF HRepeat, EvaluateRepeat, Evaluate
  <1>9. ASSUME NEW k \in Attempts, HFirst(k) PROVE ForwardInv'
    BY <1>7, <1>9 DEF HFirst, EvaluateFirst, Evaluate
  <1>10. ASSUME NEW k \in Attempts, HUntracked(k) PROVE ForwardInv'
    <2>1. PICK c \in Casts : now' = now /\ attempts' = PruneSshAttempts(now, c)
      BY <1>10 DEF HUntracked, EvaluateUntracked, Evaluate
    <2>2. remembered' = remembered /\ alertedAt' = alertedAt
      BY <1>10 DEF HUntracked
    <2>3. NoRecentAttemptForgotten'
      BY <2>1, <2>2, KeptIsRecent
         DEF NoRecentAttemptForgotten, Dedup!Recent, Never, Dedup!Never
    <2> QED BY <1>1, <2>1, <2>2, <2>3
  <1>11. CASE UNCHANGED hvars
    BY <1>4, <1>11 DEF hvars
  <1> QED BY <1>3, <1>5, <1>6, <1>8, <1>9, <1>10, <1>11 DEF HNext

LEMMA ForwardAlways == ASSUME ClockNeverBack PROVE HSpec => []ForwardInv
  <1>1. HInit => ForwardInv
    <2> SUFFICES ASSUME HInit PROVE ForwardInv
      OBVIOUS
    <2>1. ListInv
      BY ListInit
    <2>2. now \in Nat /\ \A k \in Attempts : remembered[k] = -1 /\ alertedAt[k] = -1
      BY <2>1, TypeFacts DEF HInit, ListInv
    <2> QED BY <2>1, <2>2 DEF ForwardInv, NoRecentAttemptForgotten, Never, Dedup!Never
  <1>2. ForwardInv /\ [HNext]_hvars => ForwardInv'
    BY ForwardStep
  <1> QED BY <1>1, <1>2, PTL DEF HSpec

(* Pruning never forgets an attempt that is still inside the window.       *)
THEOREM NoRecentAttemptForgottenAlways ==
  ASSUME ClockNeverBack PROVE HSpec => []NoRecentAttemptForgotten
  <1>1. ForwardInv => NoRecentAttemptForgotten
    BY DEF ForwardInv
  <1> QED BY <1>1, ForwardAlways, PTL

(* No attempt is alerted that was alerted and noted in the last            *)
(* DedupSeconds, the same second included, unless time() failed.           *)
THEOREM SshAlertSpacingAlways ==
  ASSUME ClockNeverBack PROVE HSpec => SshAlertSpacing
  <1> DEFINE Apart(k) == alertedAt[k] = Never \/ now - alertedAt[k] > DedupSeconds
             Spaced ==
               evaluated' # evaluated /\ ~doubted' /\ event' = {SshAlert}
                 => \A k \in judged' : Apart(k)
  <1>1. ForwardInv /\ [HNext]_hvars => [Spaced]_hvars
    <2> SUFFICES ASSUME ForwardInv, HNext PROVE Spaced
      OBVIOUS
    <2>1. ASSUME NEW k \in Attempts, HFirst(k) \/ HUntracked(k) PROVE Spaced
      <3>1. ~Dedup!Recent(k)
        BY <2>1, KeptIsRecent DEF HFirst, EvaluateFirst, HUntracked, EvaluateUntracked
      <3>2. Apart(k)
        BY <3>1, TypeFacts DEF Dedup!Recent, Never, Dedup!Never, ForwardInv, ListInv
      <3>3. judged' = {k}
        BY <2>1 DEF HFirst, HUntracked
      <3> QED BY <3>2, <3>3
    <2>2. ASSUME NEW k \in Attempts, HNoClock(k) \/ HRepeat(k) PROVE Spaced
      BY <2>2, AlertIsNoRepeat DEF HNoClock, HRepeat, EvaluateRepeat
    <2>3. CASE HTick \/ HPlain
      BY <2>3 DEF HTick, Tick, HPlain
    <2> QED BY <2>1, <2>2, <2>3 DEF HNext
  <1> QED BY <1>1, ForwardAlways, PTL DEF HSpec, SshAlertSpacing

(* The attempt list implements the de-duplication promise.                 *)
THEOREM EngineImplementsDedup ==
  ASSUME ClockNeverBack PROVE HSpec => ImplementsDedup
  <1>1. HInit => Dedup!DedupInit
    <2> SUFFICES ASSUME HInit PROVE Dedup!DedupInit
      OBVIOUS
    <2>1. now \in Nat
      BY RulesAssumption DEF HInit, Init
    <2> QED BY <2>1 DEF HInit, Init, Dedup!DedupInit, Never
  <1>2. ForwardInv /\ ForwardInv' /\ [HNext]_hvars
          => [Dedup!DedupNext]_(Dedup!dedupVars)
    <2> SUFFICES ASSUME ForwardInv, [HNext]_hvars
                 PROVE  Dedup!DedupNext \/ UNCHANGED Dedup!dedupVars
      OBVIOUS
    <2>1. CASE HTick
      <3>1. PICK d \in Nat : now' = now + d
        BY <2>1 DEF HTick, Tick, ClockNeverBack
      <3>2. now \in Nat
        BY TypeFacts DEF ForwardInv, ListInv
      <3>3. UNCHANGED <<remembered, judged, event>>
        BY <2>1 DEF HTick, Tick
      <3> QED BY <3>1, <3>2, <3>3 DEF Dedup!DedupNext, Dedup!PassTime
    <2>2. CASE HPlain
      BY <2>2 DEF HPlain, EvaluatePlain, Evaluate, Dedup!DedupNext, Dedup!Unrelated
    <2>3. ASSUME NEW k \in Attempts, HNoClock(k) PROVE Dedup!DedupNext
      <3>1. Dedup!Doubt(k)
        BY <2>3, AlertIsNoRepeat DEF HNoClock, EvaluateNoClock, Evaluate, Dedup!Doubt
      <3> QED BY <3>1 DEF Dedup!DedupNext
    <2>4. ASSUME NEW k \in Attempts, HRepeat(k) PROVE Dedup!DedupNext
      <3>1. Dedup!Recent(k)
        BY <2>4, KeptIsRecent DEF HRepeat, EvaluateRepeat
      <3>2. Dedup!Repeat(k)
        BY <2>4, <3>1 DEF HRepeat, EvaluateRepeat, Evaluate, Dedup!Repeat
      <3> QED BY <3>2 DEF Dedup!DedupNext
    <2>5. ASSUME NEW k \in Attempts, HFirst(k) \/ HUntracked(k) PROVE Dedup!DedupNext
      <3>1. ~Dedup!Recent(k)
        BY <2>5, KeptIsRecent DEF HFirst, EvaluateFirst, HUntracked, EvaluateUntracked
      <3>2. /\ judged' = {k} /\ event' = {SshAlert} /\ now' = now
            /\ remembered' \in {remembered, [remembered EXCEPT ![k] = now]}
        BY <2>5 DEF HFirst, EvaluateFirst, HUntracked, EvaluateUntracked, Evaluate
      <3>3. Dedup!First(k)
        BY <3>1, <3>2, AlertIsNoRepeat DEF Dedup!First
      <3> QED BY <3>3 DEF Dedup!DedupNext
    <2>6. CASE UNCHANGED hvars
      BY <2>6 DEF hvars, Dedup!dedupVars
    <2> QED BY <2>1, <2>2, <2>3, <2>4, <2>5, <2>6 DEF HNext
  <1> QED BY <1>1, <1>2, ForwardAlways, PTL
          DEF HSpec, ImplementsDedup, Dedup!DedupSpec
=============================================================================
