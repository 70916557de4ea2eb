------------------------- MODULE DisplayProperties -------------------------
(* What the producer and the worker of the display keep true together.     *)
EXTENDS DisplayController

(* Who holds a snapshot: a thread, or the pointer between the two.         *)
Holder ==
  [pending |-> pending,
   active |-> IF worker = "done" THEN NoSnapshot ELSE active,
   replaced |-> replaced]

(* display.c:289 "Exactly one owner receives each pointer": a snapshot     *)
(* lives as long as somebody holds it, no two hold the same one, and none  *)
(* is freed twice.                                                         *)
OwnedOnce ==
  /\ \A r \in Revisions :
       /\ heap[r] = "live" <=> \E h \in DOMAIN Holder : Holder[h] = r
       /\ heap[r] # "corrupt"
  /\ \A h, i \in DOMAIN Holder : Holder[h] = Holder[i] => h = i \/ Holder[h] = NoSnapshot

(* However publishing and taking interleave, what waits for the worker is  *)
(* the newest snapshot, and if nothing waits the worker has the newest.    *)
NewestKept ==
  /\ pending # NoSnapshot => pending = published
  /\ pending = NoSnapshot /\ main # "freed" => active = published

(* After display_controller_destroy no snapshot lives and the output is    *)
(* closed if it was ever opened, also when the open failed.                *)
NothingLeft ==
  main = "freed" => /\ \A r \in Revisions : heap[r] # "live"
                    /\ output # "used"

(* The ICMP and SSH pages never count down: not at the largest count, nor  *)
(* while an event is counted between the two loads of a rendering.         *)
NeverCountsDown ==
  [][previous'.page = previous.page /\ previous.page # 3
       => previous'.value >= previous.value]_vars

(* display.c:212: display_controller_create returns only what the worker   *)
(* has reported.  It has opened the output by then and written to it, and  *)
(* the warning says whether that worked, whichever thread came first to    *)
(* the mutex and whatever woke the wait.                                   *)
StartReported ==
  worker # "unborn" /\ main \notin {"start", "startWait"} =>
    /\ worker \notin {"open", "first", "report"}
    /\ warned = ~ready

(* display_controller_create returns, whatever open and write answer.      *)
StartCompletes == WorkerRuns => (main = "start" ~> main = "idle")

(* display_controller_destroy returns, wherever the worker is.             *)
DestroyCompletes == WorkerRuns => (main = "join" ~> main = "freed")

(* A published snapshot reaches the worker, or a newer one does, unless    *)
(* the display fails or is stopped first.                                  *)
PublishedIsTaken ==
  WorkerRuns => \A r \in Revisions : published = r ~> active >= r \/ ~available

(* A snapshot that could not be allocated ends the display: the output is  *)
(* closed without waiting for the end of the program.                      *)
FailureCloses == WorkerRuns => (snapshotFailed ~> output = "closed")

(* display.c:289 "Neither side waits for the other": the producer's calls  *)
(* return even if the worker never takes another step.                     *)
ProducerNeverWaits == main \in {"count", "take", "discard"} ~> main = "idle"

(* The atomic pointer and the revision check implement the mailbox.        *)
Mailbox == INSTANCE SnapshotMailbox WITH newest <- published, read <- active

ImplementsMailbox == Mailbox!MailboxSpec
=============================================================================
