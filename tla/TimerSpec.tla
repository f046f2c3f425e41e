------------------------------- MODULE TimerSpec -------------------------------
(***************************************************************************)
(* What the software timers promise (public/timer.h), without the list     *)
(* they are linked on: every armed timer counts the ticks by itself, and   *)
(* each expiry is owed one callback.                                       *)
(***************************************************************************)
EXTENDS Integers

CONSTANTS Timer, Interval, None

VARIABLES
  armed,     \* the timers that are started
  oneShot,   \* those of them that expire once
  period,    \* the interval of an armed timer
  left,      \* the ticks until it expires
  owed,      \* the timers that expired and have not been called
  calling    \* the timer whose callback runs
vars == <<armed, oneShot, period, left, owed, calling>>

Init ==
  /\ armed = {} /\ oneShot = {} /\ owed = {} /\ calling = None
  /\ period = [x \in Timer |-> 0] /\ left = [x \in Timer |-> 0]

\* Threads and callbacks start and stop timers.
Start(x, repeats, ticks) ==
  /\ x \notin armed
  /\ armed' = armed \cup {x}
  /\ oneShot' = IF repeats THEN oneShot ELSE oneShot \cup {x}
  /\ period' = [period EXCEPT ![x] = ticks] /\ left' = [left EXCEPT ![x] = ticks]
  /\ UNCHANGED <<owed, calling>>

Off(x) ==
  /\ armed' = armed \ {x} /\ oneShot' = oneShot \ {x} /\ owed' = owed \ {x}
  /\ period' = [period EXCEPT ![x] = 0] /\ left' = [left EXCEPT ![x] = 0]

Stop(x) == x \in armed /\ Off(x) /\ UNCHANGED calling

\* A one-shot timer that has expired waits for its callback and counts no more.
Counting == armed \ {x \in oneShot : left[x] = 0}

Tick ==
  /\ calling = None
  /\ LET ends == {x \in Counting : left[x] = 1}
     IN  /\ left' = [x \in Timer |-> IF x \notin Counting THEN left[x]
                                     ELSE IF x \in ends \ oneShot THEN period[x]
                                     ELSE left[x] - 1]
         /\ owed' = owed \cup ends
  /\ UNCHANGED <<armed, oneShot, period, calling>>

Call(x) ==
  /\ calling = None /\ x \in owed
  /\ calling' = x /\ owed' = owed \ {x}
  /\ UNCHANGED <<armed, oneShot, period, left>>

\* A one-shot timer is off when its callback returns, even one the callback
\* has just started again.
Return(x) ==
  /\ calling = x /\ calling' = None
  /\ \/ x \in oneShot /\ Off(x)
     \/ x \notin oneShot /\ UNCHANGED <<armed, oneShot, period, left, owed>>

Next ==
  \/ \E x \in Timer : Stop(x) \/ Call(x) \/ Return(x)
  \/ \E x \in Timer, repeats \in BOOLEAN, ticks \in Interval : Start(x, repeats, ticks)
  \/ Tick

Spec == Init /\ [][Next]_vars

=============================================================================
