-------------------------- MODULE NetmonProperties --------------------------
(* What the pages, the LED and the log say about the same packets.         *)
EXTENDS Netmon

Lights == {"SHORT", "LONG", "RAPID"}
LogEvents == Rules!Events \cup {ScanEvent}

(* In an event of the rules the severity ALERT and the pattern LONG go     *)
(* together.                                                               *)
TypeOK ==
  /\ packet \subseteq Packets
  /\ stage \in {"idle", "record", "emit", "observe", "alarm", "publish"}
  /\ event \subseteq Rules!Events
  /\ \A a, b \in event : a = b
  /\ \A e \in event : e.severity = "ALERT" <=> e.kind = "tcp" /\ e.led = "LONG"
  /\ log \in Seq(LogEvents)
  /\ ledStatus \in {"new", "open"}
  /\ leds \in Seq(Lights) /\ played \in Seq(Lights)
  /\ display \in {"on", "failed", "ended"}
  /\ counts \in [icmp : Nat, ssh : Nat]

IsEcho(e) == e.kind = "icmp" /\ e.led = "SHORT"
IsSshAlert(e) == e.kind = "tcp" /\ e.severity = "ALERT"

Echoes == Cardinality({i \in DOMAIN log : IsEcho(log[i])})
SshAlerts == Cardinality({i \in DOMAIN log : IsSshAlert(log[i])})

(* src/README.md:41-42: the pages of Type 1 and Type 2 are the numbers of  *)
(* echo requests and de-duplicated SSH ALERTs in the log, between any two  *)
(* packets as long as the display works; at no time are they more than one *)
(* event ahead of it, and a port-scan ALERT counts in neither.             *)
TotalsMatchLog ==
  LET ahead == IF stage = "emit" THEN 1 ELSE 0
  IN  /\ counts.icmp + counts.ssh <= Echoes + SshAlerts + ahead
      /\ stage = "idle" /\ display = "on"
           => counts = [icmp |-> Echoes, ssh |-> SshAlerts]

(* The most ports of one source that are inside the window now.            *)
TrueMaximum(n) ==
  LET live(s) == Cardinality(Scan!Promise!LivePorts(touched[s], now))
  IN  (\A s \in Sources : live(s) <= n) /\ (n = 0 \/ \E s \in Sources : live(s) = n)

Page(snapshot, cast) == Scan!MaxPorts(snapshot, now, cast)

(* src/README.md:43,45: the page of Type 3 is the largest number of unique *)
(* ports of one source, and returns to 0 as they expire.  The snapshot the *)
(* worker shows, however old, never shows more than is inside the window   *)
(* at the time of showing; between packets the newest snapshot shows       *)
(* exactly that, wherever it is.                                           *)
PageTruthful ==
  \A cast \in Rules!Casts :
    /\ \E n \in 0..Cardinality(Ports) : TrueMaximum(n) /\ Page(active, cast) <= n
    /\ stage = "idle" /\ display = "on"
         => \A newest \in IF pending = {} THEN {active} ELSE pending :
              TrueMaximum(Page(newest, cast))

(* Every pattern begun or waiting belongs to a logged event of its own, in *)
(* the order of the log: the LED shows nothing that was not logged, and    *)
(* nothing late or twice.                                                  *)
PatternsFollowLog ==
  LET shown == played \o leds
  IN  \E place \in [DOMAIN shown -> DOMAIN log] :
        /\ \A i, j \in DOMAIN shown : i < j => place[i] < place[j]
        /\ \A i \in DOMAIN shown : shown[i] = log[place[i]].led
=============================================================================
