----------------------------- MODULE TTMailbox -----------------------------
(***************************************************************************)
(* Mailboxes (createmailbox.cpp, post.cpp, fetch.cpp, trypost.cpp,         *)
(* tryfetch.cpp, retrieve.cpp) on the TrueTime kernel.  A message is a     *)
(* pointer that is not NULL.  mbData is the tasks' mb_data: the message of *)
(* a writer that waits for room, or one fetched and not yet retrieved.     *)
(* ttKillJob is left out: it leaves the message of a waiting writer in     *)
(* mb_data, where the next job of the task takes it for a fetched one.     *)
(***************************************************************************)
EXTENDS TTSync

CONSTANTS Mailbox, MaxSize, Message

ASSUME MailboxAssumption ==
  /\ MaxSize \in [Mailbox -> Nat \ {0}]      \* ttCreateMailbox
  /\ None \notin Message
  /\ "ttKillJob" \notin Primitives

VARIABLES mailbox, mbData

mailVars == <<mailbox, mbData>>

MailInit ==
  /\ Init
  /\ mailbox = [x \in Mailbox |-> [buffer |-> << >>, count |-> 0,
                                   readerQ |-> << >>, writerQ |-> << >>]]
  /\ mbData = [t \in UserTask |-> None]

-----------------------------------------------------------------------------
(* The state a primitive works on: the kernel, mailbox x and the mb_data.  *)
Box(x) == [sys |-> rtsys, mb |-> mailbox[x], data |-> mbData]

Becomes(x, S) ==
  /\ rtsys' = S.sys
  /\ mailbox' = [mailbox EXCEPT ![x] = S.mb]
  /\ mbData' = S.data

Put(S, m) == [S EXCEPT !.mb.buffer = Append(@, m), !.mb.count = @ + 1]
Drop(S)   == [S EXCEPT !.mb.buffer = Tail(@), !.mb.count = @ - 1]

\* Mutants: the message of the writer is lost; it goes to the head of the buffer.
ReleaseWriterEmpty(S) ==
  LET t == Head(S.mb.writerQ)
  IN  IF S.mb.writerQ = << >> THEN S
      ELSE [S EXCEPT !.mb.writerQ = Tail(@), !.sys = MoveToReadyQ(@, t), !.data[t] = None]
ReleaseWriterFirst(S) ==
  LET t == Head(S.mb.writerQ)
      p == [S EXCEPT !.mb.buffer = <<S.data[t]>> \o @, !.mb.count = @ + 1]
  IN  IF S.mb.writerQ = << >> THEN S
      ELSE [p EXCEPT !.mb.writerQ = Tail(@), !.sys = MoveToReadyQ(@, t), !.data[t] = None]

\* The first waiting writer posts its message and leaves writerQ ...
ReleaseWriter(S) ==
  LET t == Head(S.mb.writerQ)
      p == Put(S, S.data[t])
  IN  IF S.mb.writerQ = << >> THEN S
      ELSE [p EXCEPT !.mb.writerQ = Tail(@), !.sys = MoveToReadyQ(@, t), !.data[t] = None]

\* Mutant: the reader stays in readerQ.
ReleaseReaderCopies(S) ==
  LET t == Head(S.mb.readerQ)
  IN  IF S.mb.readerQ = << >> THEN S
      ELSE [Drop(S) EXCEPT !.sys = MoveToReadyQ(@, t), !.data[t] = Head(S.mb.buffer)]

\* ... and the first waiting reader fetches one and leaves readerQ.
ReleaseReader(S) ==
  LET t == Head(S.mb.readerQ)
      f == Drop(S)
  IN  IF S.mb.readerQ = << >> THEN S
      ELSE [f EXCEPT !.mb.readerQ = Tail(@), !.sys = MoveToReadyQ(@, t),
                     !.data[t] = Head(S.mb.buffer)]

\* Unlike the try versions, ttFetch and ttPost set the state of the task that
\* was the first of queue q.
Readied(S, q) == IF q = << >> THEN S ELSE [S EXCEPT !.sys.state[Head(q)] = "READY"]

-----------------------------------------------------------------------------
Fetch(x) ==
  /\ Calling("ttFetch") /\ Current \in UserTask /\ NotBlocked
  /\ IF mbData[Current] # None
     THEN Abort /\ UNCHANGED mailVars
     ELSE /\ LET S == Box(x)
                 F == IF S.mb.count = 0
                      THEN [S EXCEPT !.sys = Blocked(@, Current),
                                     !.mb.readerQ = Append(@, Current)]
                      ELSE [Drop(S) EXCEPT !.data[Current] = Head(S.mb.buffer)]
             IN  Becomes(x, Readied(ReleaseWriter(F), F.mb.writerQ))
          /\ UNCHANGED pc

\* A task retrieves what it has fetched in the segment that follows, before it
\* posts: a waiting writer's message takes the same place, mb_data.
Post(x, m) ==
  /\ Calling("ttPost") /\ Current \in UserTask /\ NotBlocked
  /\ mbData[Current] = None
  /\ LET S == Box(x)
         P == Put(S, m)
     IN  IF S.mb.count = MaxSize[x]
         THEN Becomes(x, [S EXCEPT !.sys = Blocked(@, Current),
                                   !.mb.writerQ = Append(@, Current),
                                   !.data[Current] = m])
         ELSE Becomes(x, Readied(ReleaseReader(P), P.mb.readerQ))
  /\ UNCHANGED pc

TryFetch(x) ==
  /\ Calling("ttTryFetch") /\ NotBlocked
  /\ IF mailbox[x].count = 0
     THEN UNCHANGED <<rtsys, mailVars>>
     ELSE Becomes(x, ReleaseWriter(Drop(Box(x))))
  /\ UNCHANGED pc

TryPost(x, m) ==
  /\ Calling("ttTryPost") /\ NotBlocked
  /\ IF mailbox[x].count = MaxSize[x]
     THEN UNCHANGED <<rtsys, mailVars>>
     ELSE Becomes(x, ReleaseReader(Put(Box(x), m)))
  /\ UNCHANGED pc

Retrieve ==
  /\ Calling("ttRetrieve") /\ Current \in UserTask /\ NotBlocked
  /\ mbData' = [mbData EXCEPT ![Current] = None]
  /\ UNCHANGED <<pc, rtsys, mailbox>>

MailNext ==
  \/ OtherStep /\ UNCHANGED mailVars
  \/ \E x \in Mailbox : Fetch(x) \/ TryFetch(x)
  \/ \E x \in Mailbox, m \in Message : Post(x, m) \/ TryPost(x, m)
  \/ Retrieve

MailSpec == MailInit /\ [][MailNext]_<<vars, mailVars>>

-----------------------------------------------------------------------------
\* Tasks wait to fetch only at an empty mailbox and to post only at a full one,
\* so never both, and count is the number of messages in the buffer.
WaitersMatchBuffer ==
  \A x \in Mailbox :
    LET mb == mailbox[x]
    IN  /\ mb.count = Len(mb.buffer) /\ mb.count <= MaxSize[x]
        /\ mb.readerQ # << >> => mb.count = 0 /\ mb.writerQ = << >>
        /\ mb.writerQ # << >> => mb.count = MaxSize[x]

WaitingQs ==
  [y \in Mailbox \X {"readerQ", "writerQ"} |->
     IF y[2] = "readerQ" THEN mailbox[y[1]].readerQ ELSE mailbox[y[1]].writerQ]

\* Each active job is in one ready, time or waiting queue.
MailboxJobsAreQueued == EveryJobIsIn(WaitingQs)

\* Messages are fetched in the order in which they were posted, each once.
Unsent(x) == [i \in 1 .. Len(mailbox[x].writerQ) |-> mbData[mailbox[x].writerQ[i]]]
Writers   == UNION {ToSet(mailbox[x].writerQ) : x \in Mailbox}
Messages == INSTANCE TTMessages WITH
  messages <- [x \in Mailbox |-> mailbox[x].buffer \o Unsent(x)],
  readers <- [x \in Mailbox |-> mailbox[x].readerQ],
  inbox <- [t \in UserTask |-> IF t \in Writers THEN None ELSE mbData[t]]
MessagesInOrder == Messages!Spec
=============================================================================
