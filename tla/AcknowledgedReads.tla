------------------------- MODULE AcknowledgedReads -------------------------
(***************************************************************************)
(* What the article repository promises its callers, without any cache: a  *)
(* list that is read reflects every write acknowledged before the read     *)
(* began, and never a write that was not made.                             *)
(***************************************************************************)
EXTENDS Integers

CONSTANTS Req, MaxWrites, None

VARIABLES
  published,  \* number of writes made
  acked,      \* the newest write that has returned to its editor
  phase,      \* phase[r] \in {"idle", "saving", "reading", "answered"}
  low,        \* low[r]: what was acknowledged when r began to read
  seen        \* seen[r]: the write r made, or the list r was given

vars == <<published, acked, phase, low, seen>>

Init ==
  /\ published = 0
  /\ acked = 0
  /\ phase = [r \in Req |-> "idle"]
  /\ low = [r \in Req |-> 0]
  /\ seen = [r \in Req |-> None]

Move(r, here, there) == phase[r] = here /\ phase' = [phase EXCEPT ![r] = there]

\* A write becomes visible before it is acknowledged.
Save(r) ==
  /\ Move(r, "idle", "saving")
  /\ published < MaxWrites
  /\ published' = published + 1
  /\ seen' = [seen EXCEPT ![r] = published + 1]
  /\ UNCHANGED <<acked, low>>

\* A save that changes nothing.
Touch(r) ==
  /\ Move(r, "idle", "saving")
  /\ UNCHANGED <<published, acked, low, seen>>

Acknowledge(r) ==
  /\ Move(r, "saving", "idle")
  /\ acked' = IF seen[r] # None /\ seen[r] > acked THEN seen[r] ELSE acked
  /\ seen' = [seen EXCEPT ![r] = None]
  /\ UNCHANGED <<published, low>>

Ask(r) ==
  /\ Move(r, "idle", "reading")
  /\ low' = [low EXCEPT ![r] = acked]
  /\ UNCHANGED <<published, acked, seen>>

Answer(r) ==
  /\ Move(r, "reading", "answered")
  /\ \E n \in low[r] .. published : seen' = [seen EXCEPT ![r] = n]
  /\ UNCHANGED <<published, acked, low>>

\* The caller has its answer, or the request died.
Leave(r) ==
  /\ phase[r] # "idle"
  /\ phase' = [phase EXCEPT ![r] = "idle"]
  /\ low' = [low EXCEPT ![r] = 0]
  /\ seen' = [seen EXCEPT ![r] = None]
  /\ UNCHANGED <<published, acked>>

Next == \E r \in Req : \/ Save(r) \/ Touch(r) \/ Acknowledge(r)
                       \/ Ask(r) \/ Answer(r) \/ Leave(r)

Spec == Init /\ [][Next]_vars
=============================================================================
