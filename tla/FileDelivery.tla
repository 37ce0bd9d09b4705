---------------------------- MODULE FileDelivery ----------------------------
(***************************************************************************)
(* What the file transfer of spo/lab2 promises its user: a file is on the  *)
(* receiver's disk, whole, or the receiver has said that it could not save *)
(* it, before its sender has reported every packet as sent. A file that is *)
(* there stays there, unless the receiver says that writing it once more   *)
(* failed. A crash of the receiver costs the file being written at most,   *)
(* but from then on a report may be unfounded.                             *)
(***************************************************************************)
CONSTANT Transfer

VARIABLES
  delivered,       \* transfers whose file is on disk, whole
  failed,          \* transfers whose file the receiver said it could not save
  reported,        \* transfers whose sender ended with every packet sent
  crashed          \* the receiver has crashed

delivery == <<delivered, failed, reported, crashed>>

Init == delivered = {} /\ failed = {} /\ reported = {} /\ crashed = FALSE

Deliver(t) ==
  /\ delivered' = delivered \cup {t}
  /\ failed' = failed \ {t}
  /\ UNCHANGED <<reported, crashed>>

\* Whatever became of the file, the receiver says that it is not to be relied on.
Fail(t) ==
  /\ delivered' \in {delivered \cup {t}, delivered \ {t}}
  /\ failed' = failed \cup {t}
  /\ UNCHANGED <<reported, crashed>>

Report(t) ==
  /\ t \in delivered \cup failed \/ crashed
  /\ reported' = reported \cup {t}
  /\ UNCHANGED <<delivered, failed, crashed>>

Crash ==
  /\ crashed' = TRUE
  /\ UNCHANGED <<delivered, failed, reported>>

\* A crash in the middle of writing a file, which nobody reports as failed.
CrashIn(t) ==
  /\ crashed' = TRUE
  /\ delivered' \in {delivered \cup {t}, delivered \ {t}}
  /\ failed' = failed \ {t}
  /\ UNCHANGED reported

Next == Crash \/ \E t \in Transfer : Deliver(t) \/ Fail(t) \/ Report(t) \/ CrashIn(t)

Spec == Init /\ [][Next]_delivery
=============================================================================
