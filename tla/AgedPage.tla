------------------------------ MODULE AgedPage ------------------------------
(***************************************************************************)
(* What the reader of a page is promised, without requests, layers or      *)
(* expiries: the page shows nothing, or a list as the database gave it at  *)
(* one moment of the last Age units.  On a list kept under a version every *)
(* save older than Delay can be seen.  The empty list of a failure is      *)
(* shown for Front units.                                                  *)
(***************************************************************************)
EXTENDS Integers

CONSTANTS Front, Age, Delay, MaxTime, MaxSaves, None

VARIABLES
  versioned, \* which of the two promises the page makes
  clock,
  saves,    \* number of saves made
  savedAt,  \* savedAt[n]: the time of the n-th
  shown     \* the list on the page [asOf, saw, failed], or None

vars == <<versioned, clock, saves, savedAt, shown>>

Init ==
  /\ versioned \in BOOLEAN
  /\ clock = 0 /\ saves = 0
  /\ savedAt = [n \in 1 .. MaxSaves |-> 0]
  /\ shown = None

\* The list is that of its moment: the saves made before it are in it, those made
\* after it are not.
Snapshot(list) ==
  \A n \in 1 .. saves : IF n <= list.saw THEN savedAt[n] <= list.asOf
                                         ELSE list.asOf <= savedAt[n]

MayShow(list, now) ==
  /\ now - list.asOf < IF list.failed THEN Front ELSE Age
  /\ \A n \in 1 .. saves : savedAt[n] + (IF versioned THEN Delay ELSE Age) <= now => n <= list.saw

\* The page is filled.
Show ==
  /\ shown' \in [asOf : 0 .. clock, saw : 0 .. saves, failed : BOOLEAN]
  /\ Snapshot(shown') /\ MayShow(shown', clock)
  /\ UNCHANGED <<versioned, clock, saves, savedAt>>

\* What it showed is dropped.
Vanish ==
  /\ shown' = None
  /\ UNCHANGED <<versioned, clock, saves, savedAt>>

Save ==
  /\ saves < MaxSaves
  /\ saves' = saves + 1
  /\ savedAt' = [savedAt EXCEPT ![saves + 1] = clock]
  /\ UNCHANGED <<versioned, clock, shown>>

\* Time passes, and takes what is too old off the page.
Tick ==
  /\ clock < MaxTime
  /\ clock' = clock + 1
  /\ shown' \in {shown, None}
  /\ shown' # None => MayShow(shown, clock + 1)
  /\ UNCHANGED <<versioned, saves, savedAt>>

Next == Show \/ Vanish \/ Save \/ Tick

Spec == Init /\ [][Next]_vars
=============================================================================
