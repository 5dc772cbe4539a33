--------------------------- MODULE SwiftMessages ----------------------------
(***************************************************************************)
(* The message queue every screen of the application shares: SwiftMessages *)
(* has one message on screen, or about to be, and a queue of those that    *)
(* wait for it to go.  A message is a record; its field id stands for the  *)
(* identity SwiftMessages gives it, its title and its body.                *)
(*                                                                         *)
(* A message that is being animated away counts as gone: it neither stops  *)
(* an equal one from being queued nor is it hidden a second time.          *)
(***************************************************************************)
EXTENDS Sequences

VARIABLES
    current,     \* _current: the message on screen, or about to be
    presented,   \* whether the block that shows it has run
    queue        \* the messages waiting for it to go

messageVars == <<current, presented, queue>>

None == [kind |-> "none"]

Pending == {current} \cup {queue[i] : i \in DOMAIN queue}

\* enqueue: a message equal to the current or to a waiting one is dropped.
Duplicate(m) ==
    \/ current # None /\ current.id = m.id
    \/ \E i \in DOMAIN queue : queue[i].id = m.id

\* dequeueNext, on the queue q: the first message becomes the current one.
Dequeue(q) ==
    IF current = None /\ q # <<>>
    THEN current' = Head(q) /\ queue' = Tail(q)
    ELSE current' = current /\ queue' = q

Show(m) ==
    /\ IF Duplicate(m) THEN UNCHANGED <<current, queue>>
                       ELSE Dequeue(Append(queue, m))
    /\ UNCHANGED presented

\* hideCurrent: whatever message is the current one goes.
HideMessage == current' = None /\ presented' = FALSE /\ UNCHANGED queue

\* The block that shows the current message runs on the main queue later.
PresentCurrent ==
    /\ current # None
    /\ ~presented
    /\ presented' = TRUE
    /\ UNCHANGED <<current, queue>>

\* After a pause between messages the next one is taken from the queue.
DequeueNext ==
    /\ current = None
    /\ queue # <<>>
    /\ Dequeue(queue)
    /\ UNCHANGED presented

\* A process starts without messages, and those it had end with it.
NoMessages == current = None /\ presented = FALSE /\ queue = <<>>
LoseMessages == current' = None /\ presented' = FALSE /\ queue' = <<>>
=============================================================================
