----------------------------- MODULE TTMessages -----------------------------
(***************************************************************************)
(* What a TrueTime mailbox promises: messages are fetched in the order in  *)
(* which they were posted, each once, and by the task that has waited      *)
(* longest.  The messages of writers that wait for room come behind those  *)
(* in the buffer; inbox holds a fetched message until it is retrieved.     *)
(***************************************************************************)
EXTENDS Sequences

CONSTANTS UserTask, Mailbox, Message, None
VARIABLES messages, readers, inbox

vars == <<messages, readers, inbox>>

Init ==
  /\ messages = [x \in Mailbox |-> << >>]
  /\ readers = [x \in Mailbox |-> << >>]
  /\ inbox = [t \in UserTask |-> None]

Store(x, m) ==
  /\ readers[x] = << >>
  /\ messages' = [messages EXCEPT ![x] = Append(@, m)]
  /\ UNCHANGED <<readers, inbox>>

Deliver(x, m) ==
  /\ readers[x] # << >> /\ messages[x] = << >>
  /\ inbox' = [inbox EXCEPT ![Head(readers[x])] = m]
  /\ readers' = [readers EXCEPT ![x] = Tail(@)]
  /\ UNCHANGED messages

Fetch(x, t) ==
  /\ messages[x] # << >> /\ inbox[t] = None
  /\ inbox' = [inbox EXCEPT ![t] = Head(messages[x])]
  /\ messages' = [messages EXCEPT ![x] = Tail(@)]
  /\ UNCHANGED readers

Wait(x, t) ==
  /\ messages[x] = << >> /\ inbox[t] = None
  /\ readers' = [readers EXCEPT ![x] = Append(@, t)]
  /\ UNCHANGED <<messages, inbox>>

Take(x) ==
  /\ messages[x] # << >>
  /\ messages' = [messages EXCEPT ![x] = Tail(@)]
  /\ UNCHANGED <<readers, inbox>>

Retrieve(t) ==
  /\ inbox' = [inbox EXCEPT ![t] = None]
  /\ UNCHANGED <<messages, readers>>

Next ==
  \/ \E x \in Mailbox, m \in Message : Store(x, m) \/ Deliver(x, m)
  \/ \E x \in Mailbox, t \in UserTask : Fetch(x, t) \/ Wait(x, t)
  \/ \E x \in Mailbox : Take(x)
  \/ \E t \in UserTask : Retrieve(t)

Spec == Init /\ [][Next]_vars
=============================================================================
