------------------------------- MODULE MCObjects -------------------------------
(* Small instances of the kernel with its blocking objects. *)
EXTENDS Objects

CONSTANTS
  t1, t2,                      \* threads
  s1, n1, g1, m1, b1, q1,      \* one object of each kind
  nIdle, nMain, na, nb,        \* the semaphores of Sleep
  rs, ss, qs,                  \* those of the mailbox and the queue
  x1, x2,                      \* messages
  Together                     \* what is used together: kinds of object, and threads beside Main

\* t1 is above Main; t2, if there is one, shares Main's priority.
Mixed == [t \in Thread |-> CASE t = Idle -> 0 [] t = t1 -> 2 [] OTHER -> 1]
\* Each thread has a priority of its own.
Rising == [t \in Thread |-> CASE t = Idle -> 0 [] t = Main -> 1 [] t = t2 -> 2 [] OTHER -> 3]

Private == [t \in Thread |-> CASE t = Idle -> nIdle [] t = Main -> nMain
                               [] t = t1 -> na [] t = t2 -> nb]
Semaphores == {s1, rs, ss, qs} \cup {Private[t] : t \in Thread}
Lists == Semaphores \cup {n1, g1, m1}
Receives == [b \in {b1} |-> rs]
Sends    == [b \in {b1} |-> ss]
Counts   == [q \in {q1} |-> qs]
Limits   == [s \in Semaphores |-> CASE s = rs -> Capacity [] s = qs -> Cardinality(Message)
                                       [] s = s1 -> 2 [] OTHER -> 1]

VARIABLE using   \* the member of Together this behaviour keeps to

\* An object of a kind that is not used stays as Init has left it, and so does
\* a thread that is not.
Unused(kind) ==
  CASE kind = "sem"    -> value[s1] = InitValue /\ k.list[s1] = <<>>
    [] kind = "sleep"  -> \A t \in Thread : ~Sleeping(t)
    [] kind = "notify" -> k.list[n1] = <<>>
    [] kind = "flags"  -> flags[g1] = {} /\ k.list[g1] = <<>>
    [] kind = "mutex"  -> \A t \in Thread : pendOn[t] # m1
    [] kind = "box"    -> mail = [t \in Thread |-> NoFrame]
    [] kind = "queue"  -> \A t \in Thread : hand[t] = {} /\ from[t] = NoList
    [] kind = "t1"     -> k.state[t1] = "STOP"
    [] kind = "t2"     -> k.state[t2] = "STOP"

Kinds == {"sem", "sleep", "notify", "flags", "mutex", "box", "queue", "t1", "t2"}

MCInit == ObjectsInit /\ using \in Together
MCNext == ObjectsNext /\ UNCHANGED using /\ \A kind \in Kinds \ using : Unused(kind)'
MCSpec == MCInit /\ [][MCNext]_<<all, using>>
MCFairSpec == MCSpec /\ ObjectsFairness
=============================================================================
