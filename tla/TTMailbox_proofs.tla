-------------------------- MODULE TTMailbox_proofs --------------------------
(***************************************************************************)
(* Proofs about mailboxes: whatever the tasks, the scheduling and the      *)
(* programs are, no task is left waiting at a mailbox that could serve it. *)
(* Each primitive is a composition of Put, Drop, ReleaseWriter and         *)
(* ReleaseReader; one lemma says what each of them does to a mailbox, and  *)
(* a few more what it does to the waiting tasks and to the messages sent   *)
(* and not yet fetched, which come in the order of their posts.            *)
(***************************************************************************)
EXTENDS TTMailbox, TTKernel_proofs

Pointer == Message \cup {None}      \* what mb_data and the buffer may hold

MailboxType == [buffer : Seq(Pointer), count : Int,
                readerQ : Seq(UserTask), writerQ : Seq(UserTask)]

\* S is the state a primitive works on; the kernel's part may be anything.
Shape(S) == S \in [sys : {S.sys}, mb : MailboxType, data : [UserTask -> Pointer]]

\* The mailbox mb of size n has the types, the count and the waiting tasks that
\* it should have.
Fits(mb, n) ==
  /\ mb \in MailboxType
  /\ mb.count = Len(mb.buffer) /\ mb.count <= n
  /\ mb.readerQ # << >> => mb.count = 0 /\ mb.writerQ = << >>
  /\ mb.writerQ # << >> => mb.count = n

MailInv ==
  /\ mbData \in [UserTask -> Pointer]
  /\ DOMAIN mailbox = Mailbox /\ mailbox = [x \in Mailbox |-> mailbox[x]]
  /\ \A x \in Mailbox : Fits(mailbox[x], MaxSize[x])

LEMMA SequenceFacts ==
  ASSUME NEW T, NEW q \in Seq(T), NEW e \in T
  PROVE  /\ Append(q, e) \in Seq(T) /\ Len(Append(q, e)) = Len(q) + 1
         /\ Len(q) \in Nat /\ (q = << >> <=> Len(q) = 0)
         /\ q # << >> => Head(q) \in T /\ Tail(q) \in Seq(T) /\ Len(Tail(q)) = Len(q) - 1
  OBVIOUS

LEMMA ShapeFacts ==
  ASSUME NEW S, Shape(S)
  PROVE  /\ S.mb \in MailboxType /\ S.data \in [UserTask -> Pointer]
         /\ S.mb.buffer \in Seq(Pointer) /\ S.mb.count \in Int
         /\ S.mb.readerQ \in Seq(UserTask) /\ S.mb.writerQ \in Seq(UserTask)
  BY DEF Shape, MailboxType

LEMMA PutFacts ==
  ASSUME NEW S, Shape(S), NEW m \in Pointer
  PROVE  LET T == Put(S, m)
         IN  /\ Shape(T) /\ T.data = S.data /\ T.sys = S.sys
             /\ T.mb.buffer = Append(S.mb.buffer, m) /\ T.mb.count = S.mb.count + 1
             /\ T.mb.readerQ = S.mb.readerQ /\ T.mb.writerQ = S.mb.writerQ
<1> DEFINE u == Append(S.mb.buffer, m)
           c == S.mb.count + 1
           T == [S EXCEPT !.mb.buffer = u, !.mb.count = c]
<1>1. u \in Seq(Pointer) /\ c \in Int
  BY ShapeFacts, SequenceFacts
<1>2. Put(S, m) = T
  BY Zenon DEF Put
<1> HIDE DEF u, c
<1>3. /\ T.data = S.data /\ T.sys = S.sys /\ T.mb.buffer = u /\ T.mb.count = c
      /\ T.mb.readerQ = S.mb.readerQ /\ T.mb.writerQ = S.mb.writerQ
  BY <1>1 DEF Shape, MailboxType
<1>4. Shape(T)
  BY <1>1 DEF Shape, MailboxType
<1> QED BY <1>2, <1>3, <1>4 DEF u, c

LEMMA DropFacts ==
  ASSUME NEW S, Shape(S), S.mb.buffer # << >>
  PROVE  LET T == Drop(S)
         IN  /\ Shape(T) /\ T.data = S.data /\ T.sys = S.sys
             /\ T.mb.buffer = Tail(S.mb.buffer) /\ T.mb.count = S.mb.count - 1
             /\ T.mb.readerQ = S.mb.readerQ /\ T.mb.writerQ = S.mb.writerQ
             /\ Head(S.mb.buffer) \in Pointer
<1> DEFINE u == Tail(S.mb.buffer)
           c == S.mb.count - 1
           T == [S EXCEPT !.mb.buffer = u, !.mb.count = c]
<1>1. Head(S.mb.buffer) \in Pointer /\ u \in Seq(Pointer) /\ c \in Int
  <2>1. S.mb.buffer \in Seq(Pointer) /\ S.mb.count \in Int
    BY ShapeFacts
  <2> QED BY <2>1
<1>2. Drop(S) = T
  BY Zenon DEF Drop
<1> HIDE DEF u, c
<1>3. /\ T.data = S.data /\ T.sys = S.sys /\ T.mb.buffer = u /\ T.mb.count = c
      /\ T.mb.readerQ = S.mb.readerQ /\ T.mb.writerQ = S.mb.writerQ
  BY <1>1 DEF Shape, MailboxType
<1>4. Shape(T)
  BY <1>1 DEF Shape, MailboxType
<1> QED BY <1>1, <1>2, <1>3, <1>4 DEF u, c

\* The first writer posts and leaves.
LEMMA ReleaseWriterFacts ==
  ASSUME NEW S, Shape(S), S.mb.writerQ # << >>
  PROVE  LET t == Head(S.mb.writerQ)
             R == ReleaseWriter(S)
         IN  /\ Shape(R) /\ R.sys = MoveToReadyQ(S.sys, t) /\ t \in UserTask
             /\ R.data = [S.data EXCEPT ![t] = None]
             /\ R.mb.buffer = Append(S.mb.buffer, S.data[t]) /\ R.mb.count = S.mb.count + 1
             /\ R.mb.readerQ = S.mb.readerQ /\ R.mb.writerQ = Tail(S.mb.writerQ)
<1> DEFINE t == Head(S.mb.writerQ)
           p == Put(S, S.data[t])
           w == Tail(p.mb.writerQ)
           z == MoveToReadyQ(p.sys, t)
           r == [p EXCEPT !.mb.writerQ = w, !.sys = z, !.data[t] = None]
<1>1. ReleaseWriter(S) = r
  BY Zenon DEF ReleaseWriter
<1>2. S.mb.writerQ \in Seq(UserTask)
  BY ShapeFacts
<1>3. t \in UserTask
  BY <1>2
<1> HIDE DEF t
<1>4. S.data[t] \in Pointer
  BY <1>3, ShapeFacts
<1>5. /\ Shape(p) /\ p.data = S.data /\ p.sys = S.sys
      /\ p.mb.buffer = Append(S.mb.buffer, S.data[t]) /\ p.mb.count = S.mb.count + 1
      /\ p.mb.readerQ = S.mb.readerQ /\ p.mb.writerQ = S.mb.writerQ
  BY <1>4, PutFacts
<1>6. w \in Seq(UserTask) /\ w = Tail(S.mb.writerQ) /\ z = MoveToReadyQ(S.sys, t)
  BY <1>2, <1>5
<1> HIDE DEF p, w, z
<1>7. /\ r.mb.buffer = p.mb.buffer /\ r.mb.count = p.mb.count
      /\ r.mb.readerQ = p.mb.readerQ /\ r.mb.writerQ = w
  BY <1>3, <1>5, <1>6 DEF Shape, MailboxType
<1>8. Shape(r)
  BY <1>3, <1>5, <1>6 DEF Shape, MailboxType, Pointer
<1>9. r.sys = z /\ r.data = [p.data EXCEPT ![t] = None]
  BY <1>5 DEF Shape
<1> HIDE DEF r
<1>10. ReleaseWriter(S) = r /\ t = Head(S.mb.writerQ)
  BY <1>1 DEF t
<1> QED BY <1>3, <1>5, <1>6, <1>7, <1>8, <1>9, <1>10

\* After a message has left the mailbox, its first writer may post.
LEMMA ReleaseWriterFits ==
  ASSUME NEW S, Shape(S), NEW n \in Nat \ {0},
         S.mb.count = Len(S.mb.buffer), S.mb.count <= n,
         S.mb.readerQ # << >> => S.mb.count = 0 /\ S.mb.writerQ = << >>,
         S.mb.writerQ # << >> => S.mb.count = n - 1
  PROVE  Shape(ReleaseWriter(S)) /\ Fits(ReleaseWriter(S).mb, n)
<1>1. CASE S.mb.writerQ = << >>
  <2>1. ReleaseWriter(S) = S
    BY <1>1, Zenon DEF ReleaseWriter
  <2> QED BY <1>1, <2>1, ShapeFacts DEF Fits
<1>2. CASE S.mb.writerQ # << >>
  <2> DEFINE R == ReleaseWriter(S)
             m == S.data[Head(S.mb.writerQ)]
  <2>1. /\ Shape(R) /\ Head(S.mb.writerQ) \in UserTask
        /\ R.mb.buffer = Append(S.mb.buffer, m) /\ R.mb.count = S.mb.count + 1
        /\ R.mb.readerQ = S.mb.readerQ
    BY <1>2, ReleaseWriterFacts
  <2>2. S.mb.buffer \in Seq(Pointer) /\ S.mb.count \in Int /\ m \in Pointer
    BY <2>1, ShapeFacts
  <2> HIDE DEF R, m
  <2>3. Len(R.mb.buffer) = Len(S.mb.buffer) + 1
    BY <2>1, <2>2, SequenceFacts
  <2>4. S.mb.readerQ = << >> /\ S.mb.count = n - 1
    BY <1>2
  <2>5. R.mb \in MailboxType
    BY <2>1, ShapeFacts
  <2>6. R.mb.count = n /\ R.mb.count = Len(R.mb.buffer) /\ R.mb.readerQ = << >>
    BY <2>1, <2>2, <2>3, <2>4
  <2>7. Shape(R) /\ Fits(R.mb, n)
    BY <2>1, <2>5, <2>6 DEF Fits
  <2> QED BY <2>7 DEF R
<1> QED BY <1>1, <1>2

\* The first reader fetches and leaves.
LEMMA ReleaseReaderFacts ==
  ASSUME NEW S, Shape(S), S.mb.readerQ # << >>, S.mb.buffer # << >>
  PROVE  LET t == Head(S.mb.readerQ)
             R == ReleaseReader(S)
         IN  /\ Shape(R) /\ R.sys = MoveToReadyQ(S.sys, t) /\ t \in UserTask
             /\ R.data = [S.data EXCEPT ![t] = Head(S.mb.buffer)]
             /\ R.mb.buffer = Tail(S.mb.buffer) /\ R.mb.count = S.mb.count - 1
             /\ R.mb.readerQ = Tail(S.mb.readerQ) /\ R.mb.writerQ = S.mb.writerQ
<1> DEFINE t == Head(S.mb.readerQ)
           m == Head(S.mb.buffer)
           f == Drop(S)
           q == Tail(f.mb.readerQ)
           z == MoveToReadyQ(f.sys, t)
           r == [f EXCEPT !.mb.readerQ = q, !.sys = z, !.data[t] = m]
<1>1. ReleaseReader(S) = r
  BY Zenon DEF ReleaseReader
<1>2. S.mb.readerQ \in Seq(UserTask)
  BY ShapeFacts
<1>3. t \in UserTask
  BY <1>2
<1>4. /\ Shape(f) /\ f.data = S.data /\ f.sys = S.sys
      /\ f.mb.buffer = Tail(S.mb.buffer) /\ f.mb.count = S.mb.count - 1
      /\ f.mb.readerQ = S.mb.readerQ /\ f.mb.writerQ = S.mb.writerQ
      /\ m \in Pointer
  BY DropFacts
<1> HIDE DEF t, m
<1>5. q \in Seq(UserTask) /\ q = Tail(S.mb.readerQ) /\ z = MoveToReadyQ(S.sys, t)
  BY <1>2, <1>4
<1> HIDE DEF f, q, z
<1>6. /\ r.mb.buffer = f.mb.buffer /\ r.mb.count = f.mb.count
      /\ r.mb.readerQ = q /\ r.mb.writerQ = f.mb.writerQ
  BY <1>3, <1>4, <1>5 DEF Shape, MailboxType
<1>7. Shape(r)
  BY <1>3, <1>4, <1>5 DEF Shape, MailboxType
<1>8. r.sys = z /\ r.data = [f.data EXCEPT ![t] = m]
  BY <1>4 DEF Shape
<1> HIDE DEF r
<1>9. ReleaseReader(S) = r /\ t = Head(S.mb.readerQ) /\ m = Head(S.mb.buffer)
  BY <1>1 DEF t, m
<1> QED BY <1>3, <1>4, <1>5, <1>6, <1>7, <1>8, <1>9

\* After a message has come in, the first reader may fetch.
LEMMA ReleaseReaderFits ==
  ASSUME NEW S, Shape(S), NEW n \in Nat \ {0}, S.mb.buffer # << >>,
         S.mb.count = Len(S.mb.buffer), S.mb.count <= n,
         S.mb.readerQ # << >> => S.mb.count = 1,
         S.mb.writerQ = << >>
  PROVE  Shape(ReleaseReader(S)) /\ Fits(ReleaseReader(S).mb, n)
<1>1. CASE S.mb.readerQ = << >>
  <2>1. ReleaseReader(S) = S
    BY <1>1, Zenon DEF ReleaseReader
  <2> QED BY <1>1, <2>1, ShapeFacts DEF Fits
<1>2. CASE S.mb.readerQ # << >>
  <2> DEFINE R == ReleaseReader(S)
  <2>1. /\ Shape(R) /\ R.mb.writerQ = S.mb.writerQ
        /\ R.mb.buffer = Tail(S.mb.buffer) /\ R.mb.count = S.mb.count - 1
    BY <1>2, ReleaseReaderFacts
  <2>2. S.mb.buffer \in Seq(Pointer) /\ S.mb.count \in Int
    BY ShapeFacts
  <2> HIDE DEF R
  <2>3. Len(R.mb.buffer) = Len(S.mb.buffer) - 1
    BY <2>1, <2>2, SequenceFacts
  <2>4. R.mb \in MailboxType
    BY <2>1, ShapeFacts
  <2>5. /\ R.mb.count = 0 /\ R.mb.count = Len(R.mb.buffer) /\ R.mb.writerQ = << >>
        /\ R.mb.count <= n
    BY <1>2, <2>1, <2>2, <2>3
  <2>6. Shape(R) /\ Fits(R.mb, n)
    BY <2>1, <2>4, <2>5 DEF Fits
  <2> QED BY <2>6 DEF R
<1> QED BY <1>1, <1>2

LEMMA ReadiedFacts ==
  ASSUME NEW S, Shape(S), NEW q
  PROVE  LET R == Readied(S, q)
         IN  /\ Shape(R) /\ R.mb = S.mb /\ R.data = S.data
             /\ R.sys = IF q = << >> THEN S.sys
                        ELSE [S.sys EXCEPT !.state[Head(q)] = "READY"]
<1>1. CASE q = << >>
  BY <1>1 DEF Readied
<1>2. CASE q # << >>
  <2> DEFINE z == [S.sys EXCEPT !.state[Head(q)] = "READY"]
             r == [S EXCEPT !.sys = z]
  <2>1. Readied(S, q) = r
    BY <1>2, Zenon DEF Readied
  <2> HIDE DEF z
  <2>2. Shape(r) /\ r.mb = S.mb /\ r.data = S.data /\ r.sys = z
    BY DEF Shape
  <2> HIDE DEF r
  <2> QED BY <1>2, <2>1, <2>2 DEF z
<1> QED BY <1>1, <1>2

-----------------------------------------------------------------------------
(***************************************************************************)
(* The primitives.                                                         *)
(***************************************************************************)
LEMMA BoxFacts ==
  ASSUME MailInv, NEW x \in Mailbox
  PROVE  /\ Shape(Box(x)) /\ Box(x).mb = mailbox[x] /\ Box(x).data = mbData
         /\ MaxSize[x] \in Nat \ {0} /\ Fits(Box(x).mb, MaxSize[x])
<1>1. MaxSize[x] \in Nat \ {0}
  BY MailboxAssumption DEF MailboxAssumption
<1>2. Fits(mailbox[x], MaxSize[x]) /\ mbData \in [UserTask -> Pointer]
  BY DEF MailInv
<1>3. mailbox[x] \in MailboxType
  BY <1>2 DEF Fits
<1>4. Shape(Box(x)) /\ Box(x).mb = mailbox[x] /\ Box(x).data = mbData
  BY <1>2, <1>3 DEF Box, Shape
<1> QED BY <1>1, <1>2, <1>4

LEMMA BecomesKeeps ==
  ASSUME MailInv, NEW x \in Mailbox, NEW S, Shape(S), Fits(S.mb, MaxSize[x]), Becomes(x, S)
  PROVE  MailInv'
<1>1. S.data \in [UserTask -> Pointer]
  BY ShapeFacts
<1>2. mbData' = S.data /\ mailbox' = [mailbox EXCEPT ![x] = S.mb]
  BY DEF Becomes
<1>3. mailbox' = [y \in Mailbox |-> IF y = x THEN S.mb ELSE mailbox[y]]
  BY <1>2 DEF MailInv
<1>4. ASSUME NEW y \in Mailbox PROVE Fits(mailbox'[y], MaxSize[y])
  BY <1>3 DEF MailInv
<1>5. DOMAIN mailbox' = Mailbox /\ mailbox' = [y \in Mailbox |-> mailbox'[y]]
  BY <1>3
<1> QED BY <1>1, <1>2, <1>4, <1>5 DEF MailInv

LEMMA FetchStep ==
  ASSUME MailInv, NEW x \in Mailbox, Fetch(x)
  PROVE  MailInv'
<1> DEFINE S == Box(x)
           B == [S EXCEPT !.sys = Blocked(@, Current), !.mb.readerQ = Append(@, Current)]
           D == [Drop(S) EXCEPT !.data[Current] = Head(S.mb.buffer)]
           F == IF S.mb.count = 0 THEN B ELSE D
<1>1. /\ Shape(S) /\ MaxSize[x] \in Nat \ {0} /\ Fits(S.mb, MaxSize[x])
      /\ Current \in UserTask
  BY BoxFacts DEF Fetch
<1>2. CASE mbData[Current] # None
  BY <1>2 DEF Fetch, MailInv, mailVars
<1>3. CASE mbData[Current] = None
  <2>1. Becomes(x, Readied(ReleaseWriter(F), F.mb.writerQ))
    BY <1>3, Zenon DEF Fetch
  <2> HIDE DEF S
  <2>2. /\ S.mb.buffer \in Seq(Pointer) /\ S.mb.count \in Int
        /\ S.mb.readerQ \in Seq(UserTask) /\ S.mb.count = Len(S.mb.buffer)
        /\ S.mb.count <= MaxSize[x]
        /\ S.mb.readerQ # << >> => S.mb.count = 0 /\ S.mb.writerQ = << >>
        /\ S.mb.writerQ # << >> => S.mb.count = MaxSize[x]
    BY <1>1, ShapeFacts DEF Fits
  <2>3. ASSUME Shape(F), Shape(ReleaseWriter(F)), Fits(ReleaseWriter(F).mb, MaxSize[x])
        PROVE  MailInv'
    <3> HIDE DEF F
    <3>1. /\ Shape(Readied(ReleaseWriter(F), F.mb.writerQ))
          /\ Fits(Readied(ReleaseWriter(F), F.mb.writerQ).mb, MaxSize[x])
      BY <2>3, ReadiedFacts
    <3> QED BY <2>1, <3>1, BecomesKeeps
  <2>4. CASE S.mb.count = 0
    <3> DEFINE z == Blocked(S.sys, Current)
               q == Append(S.mb.readerQ, Current)
    <3>1. F = [S EXCEPT !.sys = z, !.mb.readerQ = q]
      BY <2>4, Zenon
    <3>2. q \in Seq(UserTask)
      BY <1>1, <2>2, SequenceFacts
    <3> HIDE DEF F, z, q
    <3>3. /\ F.mb.buffer = S.mb.buffer /\ F.mb.count = S.mb.count
          /\ F.mb.readerQ = q /\ F.mb.writerQ = S.mb.writerQ
      BY <1>1, <3>1, <3>2 DEF Shape, MailboxType
    <3>4. Shape(F)
      BY <1>1, <3>1, <3>2 DEF Shape, MailboxType
    <3>5. F.mb.writerQ = << >> /\ F.mb.count = 0 /\ F.mb.count = Len(F.mb.buffer)
      BY <1>1, <2>2, <2>4, <3>3
    <3> QED BY <1>1, <2>3, <3>4, <3>5, ReleaseWriterFits
  <2>5. CASE S.mb.count # 0
    <3> DEFINE d == Drop(S)
               m == Head(S.mb.buffer)
    <3>1. F = [d EXCEPT !.data[Current] = m]
      BY <2>5, Zenon
    <3>2. S.mb.buffer # << >> /\ S.mb.readerQ = << >>
      BY <2>2, <2>5
    <3>3. /\ Shape(d) /\ m \in Pointer
          /\ d.mb.buffer = Tail(S.mb.buffer) /\ d.mb.count = S.mb.count - 1
          /\ d.mb.readerQ = S.mb.readerQ /\ d.mb.writerQ = S.mb.writerQ
      BY <1>1, <3>2, DropFacts
    <3>4. Len(d.mb.buffer) = Len(S.mb.buffer) - 1
      BY <2>2, <3>2, <3>3
    <3> HIDE DEF F, d, m
    <3>5. Shape(F) /\ F.mb = d.mb
      BY <1>1, <3>1, <3>3 DEF Shape
    <3>6. /\ F.mb.count = S.mb.count - 1 /\ Len(F.mb.buffer) = Len(S.mb.buffer) - 1
          /\ F.mb.readerQ = << >> /\ F.mb.writerQ = S.mb.writerQ
      BY <3>2, <3>3, <3>4, <3>5
    <3>7. /\ F.mb.count = Len(F.mb.buffer) /\ F.mb.count <= MaxSize[x]
          /\ F.mb.writerQ # << >> => F.mb.count = MaxSize[x] - 1
      BY <1>1, <2>2, <3>6
    <3> QED BY <1>1, <2>3, <3>5, <3>6, <3>7, ReleaseWriterFits
  <2> QED BY <2>4, <2>5
<1> QED BY <1>2, <1>3

LEMMA PutFits ==
  ASSUME MailInv, NEW x \in Mailbox, NEW m \in Message, mailbox[x].count # MaxSize[x],
         NEW R, R = ReleaseReader(Put(Box(x), m))
  PROVE  Shape(R) /\ Fits(R.mb, MaxSize[x])
<1> DEFINE S == Box(x)
           P == Put(S, m)
<1>1. /\ Shape(S) /\ MaxSize[x] \in Nat \ {0} /\ Fits(S.mb, MaxSize[x])
      /\ S.mb.count # MaxSize[x] /\ m \in Pointer
  BY BoxFacts DEF Pointer
<1>2. R = ReleaseReader(P)
  OBVIOUS
<1> HIDE DEF S
<1>3. /\ Shape(P)
      /\ P.mb.buffer = Append(S.mb.buffer, m) /\ P.mb.count = S.mb.count + 1
      /\ P.mb.readerQ = S.mb.readerQ /\ P.mb.writerQ = S.mb.writerQ
  BY <1>1, PutFacts
<1> HIDE DEF P
<1>4. /\ S.mb.buffer \in Seq(Pointer) /\ S.mb.count \in Int
      /\ S.mb.count = Len(S.mb.buffer) /\ S.mb.count <= MaxSize[x]
      /\ S.mb.readerQ # << >> => S.mb.count = 0
      /\ S.mb.writerQ = << >>
  BY <1>1, ShapeFacts DEF Fits
<1>5. Len(P.mb.buffer) = Len(S.mb.buffer) + 1 /\ P.mb.buffer # << >>
  BY <1>1, <1>3, <1>4
<1>6. /\ P.mb.count = Len(P.mb.buffer) /\ P.mb.count <= MaxSize[x]
      /\ P.mb.readerQ # << >> => P.mb.count = 1
      /\ P.mb.writerQ = << >>
  BY <1>1, <1>3, <1>4, <1>5
<1> QED BY <1>1, <1>2, <1>3, <1>5, <1>6, ReleaseReaderFits

LEMMA PostStep ==
  ASSUME MailInv, NEW x \in Mailbox, NEW m \in Message, Post(x, m)
  PROVE  MailInv'
<1> DEFINE S == Box(x)
           z == Blocked(S.sys, Current)
           q == Append(S.mb.writerQ, Current)
           B == [S EXCEPT !.sys = z, !.mb.writerQ = q, !.data[Current] = m]
<1>1. /\ Shape(S) /\ MaxSize[x] \in Nat \ {0} /\ Fits(S.mb, MaxSize[x])
      /\ Current \in UserTask /\ S.mb = mailbox[x]
  BY BoxFacts DEF Post
<1>2. CASE S.mb.count = MaxSize[x]
  <2>1. Becomes(x, B)
    BY <1>2, Zenon DEF Post
  <2>2. q \in Seq(UserTask) /\ m \in Pointer
    BY <1>1, ShapeFacts, SequenceFacts DEF Pointer
  <2> HIDE DEF S, z, q
  <2>3. /\ B.mb.buffer = S.mb.buffer /\ B.mb.count = S.mb.count
        /\ B.mb.readerQ = S.mb.readerQ /\ B.mb.writerQ = q
    BY <1>1, <2>2 DEF Shape, MailboxType
  <2>4. Shape(B)
    BY <1>1, <2>2 DEF Shape, MailboxType
  <2> HIDE DEF B
  <2>5. B.mb \in MailboxType
    BY <2>4, ShapeFacts
  <2>6. /\ B.mb.count = MaxSize[x] /\ B.mb.count = Len(B.mb.buffer)
        /\ B.mb.readerQ = << >>
    BY <1>1, <1>2, <2>3 DEF Fits
  <2>7. Fits(B.mb, MaxSize[x])
    BY <1>1, <2>5, <2>6 DEF Fits
  <2> QED BY <2>1, <2>4, <2>7, BecomesKeeps
<1>3. CASE S.mb.count # MaxSize[x]
  <2> DEFINE R == ReleaseReader(Put(S, m))
             T == Readied(R, Put(S, m).mb.readerQ)
  <2>1. Becomes(x, T)
    BY <1>3, Zenon DEF Post
  <2>2. Shape(R) /\ Fits(R.mb, MaxSize[x])
    BY <1>1, <1>3, PutFits
  <2> HIDE DEF R
  <2>3. Shape(T) /\ Fits(T.mb, MaxSize[x])
    BY <2>2, ReadiedFacts
  <2> HIDE DEF T
  <2> QED BY <2>1, <2>3, BecomesKeeps
<1> QED BY <1>2, <1>3

LEMMA TryFetchStep ==
  ASSUME MailInv, NEW x \in Mailbox, TryFetch(x)
  PROVE  MailInv'
<1> DEFINE S == Box(x)
           D == Drop(S)
<1>1. /\ Shape(S) /\ MaxSize[x] \in Nat \ {0} /\ Fits(S.mb, MaxSize[x]) /\ S.mb = mailbox[x]
  BY BoxFacts
<1>2. CASE mailbox[x].count = 0
  BY <1>2 DEF TryFetch, MailInv, mailVars
<1>3. CASE mailbox[x].count # 0
  <2>1. Becomes(x, ReleaseWriter(D))
    BY <1>3, Zenon DEF TryFetch
  <2>2. S.mb.count # 0
    BY <1>1, <1>3
  <2> HIDE DEF S
  <2>3. /\ S.mb.buffer \in Seq(Pointer) /\ S.mb.count \in Int
        /\ S.mb.count = Len(S.mb.buffer) /\ S.mb.count <= MaxSize[x]
        /\ S.mb.readerQ = << >>
        /\ S.mb.writerQ # << >> => S.mb.count = MaxSize[x]
    BY <1>1, <2>2, ShapeFacts DEF Fits
  <2>4. S.mb.buffer # << >>
    BY <2>2, <2>3
  <2>5. /\ Shape(D)
        /\ D.mb.buffer = Tail(S.mb.buffer) /\ D.mb.count = S.mb.count - 1
        /\ D.mb.readerQ = S.mb.readerQ /\ D.mb.writerQ = S.mb.writerQ
    BY <1>1, <2>4, DropFacts
  <2>6. Len(D.mb.buffer) = Len(S.mb.buffer) - 1
    BY <2>3, <2>4, <2>5
  <2> HIDE DEF D
  <2>7. /\ D.mb.count = Len(D.mb.buffer) /\ D.mb.count <= MaxSize[x]
        /\ D.mb.readerQ = << >>
        /\ D.mb.writerQ # << >> => D.mb.count = MaxSize[x] - 1
    BY <1>1, <2>3, <2>5, <2>6
  <2>8. Shape(ReleaseWriter(D)) /\ Fits(ReleaseWriter(D).mb, MaxSize[x])
    BY <1>1, <2>5, <2>7, ReleaseWriterFits
  <2> QED BY <2>1, <2>8, BecomesKeeps
<1> QED BY <1>2, <1>3

LEMMA TryPostStep ==
  ASSUME MailInv, NEW x \in Mailbox, NEW m \in Message, TryPost(x, m)
  PROVE  MailInv'
<1>1. CASE mailbox[x].count = MaxSize[x]
  BY <1>1 DEF TryPost, MailInv, mailVars
<1>2. CASE mailbox[x].count # MaxSize[x]
  <2>1. Becomes(x, ReleaseReader(Put(Box(x), m)))
    BY <1>2, Zenon DEF TryPost
  <2> QED BY <1>2, <2>1, PutFits, BecomesKeeps
<1> QED BY <1>1, <1>2

LEMMA RetrieveStep ==
  ASSUME MailInv, Retrieve
  PROVE  MailInv'
<1>1. mailbox' = mailbox /\ mbData' = [mbData EXCEPT ![Current] = None]
  BY DEF Retrieve
<1> QED BY <1>1 DEF MailInv, Pointer

LEMMA MailInitial ==
  ASSUME MailInit
  PROVE  MailInv
  BY MailboxAssumption DEF MailInit, MailInv, Fits, MailboxType, Pointer, MailboxAssumption

LEMMA MailInvStep ==
  ASSUME MailInv, [MailNext]_<<vars, mailVars>>
  PROVE  MailInv'
<1>1. CASE UNCHANGED mailVars
  BY <1>1 DEF MailInv, mailVars
<1>2. CASE \E x \in Mailbox : Fetch(x) \/ TryFetch(x)
  BY <1>2, FetchStep, TryFetchStep
<1>3. CASE \E x \in Mailbox, m \in Message : Post(x, m) \/ TryPost(x, m)
  BY <1>3, PostStep, TryPostStep
<1>4. CASE Retrieve
  BY <1>4, RetrieveStep
<1> QED BY <1>1, <1>2, <1>3, <1>4 DEF MailNext

-----------------------------------------------------------------------------
(***************************************************************************)
(* What a primitive does to the kernel and to the tasks that wait.         *)
(***************************************************************************)
Changed(x, buffer, readerQ, writerQ) ==
  /\ mailbox'[x].buffer = buffer /\ mailbox'[x].readerQ = readerQ
  /\ mailbox'[x].writerQ = writerQ
  /\ \A y \in Mailbox : y # x => mailbox'[y] = mailbox[y]

\* The try versions leave the state of the released task alone.
Released(s, t, r) ==
  r \in {MoveToReadyQ(s, t), [MoveToReadyQ(s, t) EXCEPT !.state[t] = "READY"]}

ReaderWaits(x) ==
  LET mb == mailbox[x]
  IN  /\ Current \in UserTask /\ mbData[Current] = None /\ mb.buffer = << >>
      /\ rtsys' = Blocked(rtsys, Current) /\ mbData' = mbData
      /\ Changed(x, mb.buffer, Append(mb.readerQ, Current), mb.writerQ)

WriterWaits(x, m) ==
  LET mb == mailbox[x]
  IN  /\ Current \in UserTask /\ mbData[Current] = None /\ mb.readerQ = << >>
      /\ rtsys' = Blocked(rtsys, Current) /\ mbData' = [mbData EXCEPT ![Current] = m]
      /\ Changed(x, mb.buffer, mb.readerQ, Append(mb.writerQ, Current))

\* The first message is for the caller, whose mb_data may hold it, as in d; the
\* first writer takes the free place.
Took(x, d) ==
  LET mb == mailbox[x]
      w  == Head(mb.writerQ)
  IN  /\ mb.buffer # << >>
      /\ \/ d = mbData
         \/ /\ Current \in UserTask /\ mbData[Current] = None
            /\ d = [mbData EXCEPT ![Current] = Head(mb.buffer)]
      /\ IF mb.writerQ = << >>
         THEN /\ rtsys' = rtsys /\ mbData' = d
              /\ Changed(x, Tail(mb.buffer), mb.readerQ, mb.writerQ)
         ELSE /\ Released(rtsys, w, rtsys') /\ mbData' = [d EXCEPT ![w] = None]
              /\ Changed(x, Append(Tail(mb.buffer), d[w]), mb.readerQ, Tail(mb.writerQ))

Stored(x, m) ==
  LET mb == mailbox[x]
  IN  /\ mb.readerQ = << >> /\ mb.writerQ = << >>
      /\ rtsys' = rtsys /\ mbData' = mbData
      /\ Changed(x, Append(mb.buffer, m), mb.readerQ, mb.writerQ)

Delivered(x, m) ==
  LET mb == mailbox[x]
      t  == Head(mb.readerQ)
  IN  /\ mb.readerQ # << >> /\ mb.writerQ = << >> /\ mb.buffer = << >>
      /\ Released(rtsys, t, rtsys') /\ mbData' = [mbData EXCEPT ![t] = m]
      /\ Changed(x, << >>, Tail(mb.readerQ), << >>)

LEMMA BecomesFacts ==
  ASSUME MailInv, NEW x \in Mailbox, NEW S, Shape(S), Becomes(x, S)
  PROVE  /\ rtsys' = S.sys /\ mbData' = S.data
         /\ Changed(x, S.mb.buffer, S.mb.readerQ, S.mb.writerQ)
<1>1. mailbox' = [mailbox EXCEPT ![x] = S.mb] /\ DOMAIN mailbox = Mailbox
  BY DEF Becomes, MailInv
<1>2. mailbox'[x] = S.mb /\ \A y \in Mailbox : y # x => mailbox'[y] = mailbox[y]
  BY <1>1
<1> QED BY <1>2 DEF Becomes, Changed

\* a fetch from a mailbox that is not empty, with d the mb_data after it
LEMMA TakeEffect ==
  ASSUME MailInv, NEW x \in Mailbox, NEW F, Shape(F), Fits(mailbox[x], MaxSize[x]),
         mailbox[x].buffer # << >>, F.sys = rtsys,
         F.mb.buffer = Tail(mailbox[x].buffer), F.mb.readerQ = mailbox[x].readerQ,
         F.mb.writerQ = mailbox[x].writerQ,
         \/ F.data = mbData
         \/ /\ Current \in UserTask /\ mbData[Current] = None
            /\ F.data = [mbData EXCEPT ![Current] = Head(mailbox[x].buffer)],
         Becomes(x, ReleaseWriter(F)) \/ Becomes(x, Readied(ReleaseWriter(F), F.mb.writerQ))
  PROVE  Took(x, F.data)
<1> DEFINE mb == mailbox[x]
           w  == Head(mb.writerQ)
           R  == ReleaseWriter(F)
           Z  == Readied(R, mb.writerQ)
<1>1. CASE mb.writerQ = << >>
  <2>1. R = F /\ Z = F
    BY <1>1, Zenon DEF ReleaseWriter, Readied
  <2> HIDE DEF R, Z
  <2>2. Becomes(x, F)
    BY <2>1 DEF R, Z
  <2>3. /\ rtsys' = F.sys /\ mbData' = F.data
        /\ Changed(x, F.mb.buffer, F.mb.readerQ, F.mb.writerQ)
    BY <2>2, BecomesFacts
  <2> QED BY <1>1, <2>3 DEF Took
<1>2. CASE mb.writerQ # << >>
  <2>1. /\ Shape(R) /\ R.sys = MoveToReadyQ(rtsys, w)
        /\ R.data = [F.data EXCEPT ![w] = None]
        /\ R.mb.buffer = Append(Tail(mb.buffer), F.data[w])
        /\ R.mb.readerQ = mb.readerQ /\ R.mb.writerQ = Tail(mb.writerQ)
    BY <1>2, ReleaseWriterFacts
  <2> HIDE DEF R
  <2>2. /\ Shape(Z) /\ Z.mb = R.mb /\ Z.data = R.data
        /\ Z.sys = [R.sys EXCEPT !.state[w] = "READY"]
    <3>1. /\ Shape(Z) /\ Z.mb = R.mb /\ Z.data = R.data
          /\ Z.sys = IF mb.writerQ = << >> THEN R.sys
                     ELSE [R.sys EXCEPT !.state[w] = "READY"]
      BY <2>1, ReadiedFacts, Zenon
    <3> QED BY <1>2, <3>1
  <2> HIDE DEF Z
  <2>3. CASE Becomes(x, R)
    <3>1. /\ rtsys' = R.sys /\ mbData' = R.data
          /\ Changed(x, R.mb.buffer, R.mb.readerQ, R.mb.writerQ)
      BY <2>1, <2>3, BecomesFacts
    <3>2. Released(rtsys, w, rtsys')
      BY <2>1, <3>1 DEF Released
    <3> QED BY <1>2, <2>1, <3>1, <3>2 DEF Took
  <2>4. CASE Becomes(x, Z)
    <3>1. /\ rtsys' = Z.sys /\ mbData' = Z.data
          /\ Changed(x, Z.mb.buffer, Z.mb.readerQ, Z.mb.writerQ)
      BY <2>2, <2>4, BecomesFacts
    <3>2. Released(rtsys, w, rtsys')
      BY <2>1, <2>2, <3>1 DEF Released
    <3> QED BY <1>2, <2>1, <2>2, <3>1, <3>2 DEF Took
  <2> QED BY <2>3, <2>4 DEF R, Z
<1> QED BY <1>1, <1>2

\* a post to a mailbox with room
LEMMA GiveEffect ==
  ASSUME MailInv, NEW x \in Mailbox, NEW m \in Message, NEW P, P = Put(Box(x), m),
         mailbox[x].count # MaxSize[x],
         Becomes(x, ReleaseReader(P)) \/ Becomes(x, Readied(ReleaseReader(P), P.mb.readerQ))
  PROVE  Stored(x, m) \/ Delivered(x, m)
<1> DEFINE mb == mailbox[x]
           t  == Head(mb.readerQ)
           R  == ReleaseReader(P)
           Z  == Readied(R, mb.readerQ)
<1>1. /\ Shape(Box(x)) /\ Box(x).mb = mb /\ Box(x).data = mbData /\ m \in Pointer
      /\ Box(x).sys = rtsys /\ Fits(mb, MaxSize[x])
  BY BoxFacts DEF Pointer, Box
<1>2. /\ Shape(P) /\ P.data = mbData /\ P.sys = rtsys
      /\ P.mb.buffer = Append(mb.buffer, m)
      /\ P.mb.readerQ = mb.readerQ /\ P.mb.writerQ = mb.writerQ
  BY <1>1, PutFacts
<1>3. /\ mb.buffer \in Seq(Pointer) /\ mb.writerQ = << >>
      /\ mb.readerQ # << >> => mb.buffer = << >>
  <2>1. mb.buffer \in Seq(Pointer)
    BY <1>1 DEF Fits, MailboxType
  <2>2. mb.readerQ # << >> => Len(mb.buffer) = 0
    BY <1>1 DEF Fits
  <2> QED BY <1>1, <2>1, <2>2, SequenceFacts DEF Fits
<1>4. CASE mb.readerQ = << >>
  <2>1. P.mb.readerQ = mb.readerQ /\ R = P /\ Z = P
    BY <1>2, <1>4, Zenon DEF ReleaseReader, Readied
  <2> HIDE DEF R, Z
  <2>2. Becomes(x, P)
    BY <2>1 DEF R, Z
  <2>3. /\ rtsys' = P.sys /\ mbData' = P.data
        /\ Changed(x, P.mb.buffer, P.mb.readerQ, P.mb.writerQ)
    BY <1>2, <2>2, BecomesFacts
  <2> QED BY <1>2, <1>3, <1>4, <2>3 DEF Stored
<1>5. CASE mb.readerQ # << >>
  <2>1. P.mb.buffer # << >> /\ Head(P.mb.buffer) = m /\ Tail(P.mb.buffer) = << >>
    <3>1. mb.buffer = << >> /\ P.mb.buffer = Append(mb.buffer, m)
      BY <1>2, <1>3, <1>5
    <3>2. P.mb.buffer = Append(<< >>, m)
      BY <3>1
    <3>3. Append(<< >>, m) = << m >>
      OBVIOUS
    <3> QED BY <3>2, <3>3
  <2>2. /\ Shape(R) /\ R.sys = MoveToReadyQ(rtsys, t)
        /\ R.data = [mbData EXCEPT ![t] = m] /\ R.mb.buffer = << >>
        /\ R.mb.readerQ = Tail(mb.readerQ) /\ R.mb.writerQ = << >>
    BY <1>2, <1>3, <1>5, <2>1, ReleaseReaderFacts
  <2> HIDE DEF R
  <2>3. /\ Shape(Z) /\ Z.mb = R.mb /\ Z.data = R.data
        /\ Z.sys = [R.sys EXCEPT !.state[t] = "READY"]
    <3>1. /\ Shape(Z) /\ Z.mb = R.mb /\ Z.data = R.data
          /\ Z.sys = IF mb.readerQ = << >> THEN R.sys
                     ELSE [R.sys EXCEPT !.state[t] = "READY"]
      BY <2>2, ReadiedFacts, Zenon
    <3> QED BY <1>5, <3>1
  <2> HIDE DEF Z
  <2>4. CASE Becomes(x, R)
    <3>1. /\ rtsys' = R.sys /\ mbData' = R.data
          /\ Changed(x, R.mb.buffer, R.mb.readerQ, R.mb.writerQ)
      BY <2>2, <2>4, BecomesFacts
    <3>2. Released(rtsys, t, rtsys')
      BY <2>2, <3>1 DEF Released
    <3> QED BY <1>3, <1>5, <2>2, <3>1, <3>2 DEF Delivered
  <2>5. CASE Becomes(x, Z)
    <3>1. /\ rtsys' = Z.sys /\ mbData' = Z.data
          /\ Changed(x, Z.mb.buffer, Z.mb.readerQ, Z.mb.writerQ)
      BY <2>3, <2>5, BecomesFacts
    <3>2. Released(rtsys, t, rtsys')
      BY <2>2, <2>3, <3>1 DEF Released
    <3> QED BY <1>3, <1>5, <2>2, <2>3, <3>1, <3>2 DEF Delivered
  <2> QED BY <1>2, <2>4, <2>5 DEF R, Z
<1> QED BY <1>4, <1>5

LEMMA FetchEffect ==
  ASSUME MailInv, NEW x \in Mailbox, Fetch(x), mbData[Current] = None
  PROVE  ReaderWaits(x) \/ \E d : Took(x, d)
<1> DEFINE S == Box(x)
           mb == mailbox[x]
           B == [S EXCEPT !.sys = Blocked(@, Current), !.mb.readerQ = Append(@, Current)]
           D == [Drop(S) EXCEPT !.data[Current] = Head(S.mb.buffer)]
           F == IF S.mb.count = 0 THEN B ELSE D
<1>1. /\ Shape(S) /\ S.mb = mb /\ S.data = mbData /\ S.sys = rtsys
      /\ MaxSize[x] \in Nat \ {0} /\ Fits(mb, MaxSize[x]) /\ Current \in UserTask
  BY BoxFacts DEF Fetch, Box
<1>2. Becomes(x, Readied(ReleaseWriter(F), F.mb.writerQ))
  BY Zenon DEF Fetch
<1>3. /\ mb.buffer \in Seq(Pointer) /\ mb.count = Len(mb.buffer)
      /\ mb.readerQ \in Seq(UserTask)
      /\ mb.writerQ # << >> => mb.count = MaxSize[x]
  BY <1>1 DEF Fits, MailboxType
<1> HIDE DEF S
<1>4. CASE mb.count = 0
  <2> DEFINE z == Blocked(S.sys, Current)
             q == Append(S.mb.readerQ, Current)
  <2>1. F = [S EXCEPT !.sys = z, !.mb.readerQ = q]
    BY <1>1, <1>4, Zenon
  <2>2. q \in Seq(UserTask) /\ q = Append(mb.readerQ, Current) /\ z = Blocked(rtsys, Current)
    BY <1>1, <1>3, SequenceFacts
  <2> HIDE DEF F, z, q
  <2>3. /\ F.mb.buffer = mb.buffer /\ F.mb.readerQ = q /\ F.mb.writerQ = mb.writerQ
    BY <1>1, <2>1, <2>2 DEF Shape, MailboxType
  <2>4. F.sys = z /\ F.data = mbData
    BY <1>1, <2>1 DEF Shape
  <2>5. Shape(F)
    BY <1>1, <2>1, <2>2 DEF Shape, MailboxType
  <2>6. F.mb.writerQ = << >> /\ mb.buffer = << >>
    <3>1. Len(mb.buffer) = 0 /\ mb.writerQ = << >>
      BY <1>1, <1>3, <1>4
    <3> QED BY <1>3, <2>3, <3>1
  <2>7. Readied(ReleaseWriter(F), F.mb.writerQ) = F
    BY <2>6, Zenon DEF ReleaseWriter, Readied
  <2>8. /\ rtsys' = F.sys /\ mbData' = F.data
        /\ Changed(x, F.mb.buffer, F.mb.readerQ, F.mb.writerQ)
    BY <1>2, <2>5, <2>7, BecomesFacts
  <2> QED BY <1>1, <2>2, <2>3, <2>4, <2>6, <2>8 DEF ReaderWaits
<1>5. CASE mb.count # 0
  <2> DEFINE d == Drop(S)
             m == Head(S.mb.buffer)
  <2>1. F = [d EXCEPT !.data[Current] = m]
    BY <1>1, <1>5, Zenon
  <2>2. mb.buffer # << >>
    BY <1>3, <1>5
  <2>3. /\ Shape(d) /\ m \in Pointer /\ d.data = mbData /\ d.sys = rtsys
        /\ d.mb.buffer = Tail(mb.buffer)
        /\ d.mb.readerQ = mb.readerQ /\ d.mb.writerQ = mb.writerQ
    BY <1>1, <2>2, DropFacts
  <2>4. m = Head(mb.buffer)
    BY <1>1
  <2> HIDE DEF F, d, m
  <2>5. Shape(F) /\ F.mb = d.mb /\ F.sys = d.sys /\ F.data = [d.data EXCEPT ![Current] = m]
    BY <1>1, <2>1, <2>3 DEF Shape
  <2>6. /\ F.sys = rtsys /\ F.data = [mbData EXCEPT ![Current] = Head(mb.buffer)]
        /\ F.mb.buffer = Tail(mb.buffer)
        /\ F.mb.readerQ = mb.readerQ /\ F.mb.writerQ = mb.writerQ
    BY <2>3, <2>4, <2>5
  <2>7. Took(x, F.data)
    BY <1>1, <1>2, <2>2, <2>5, <2>6, TakeEffect
  <2> QED BY <2>7
<1> QED BY <1>4, <1>5

LEMMA TryFetchEffect ==
  ASSUME MailInv, NEW x \in Mailbox, TryFetch(x), mailbox[x].count # 0
  PROVE  Took(x, mbData)
<1> DEFINE D == Drop(Box(x))
           mb == mailbox[x]
<1>1. /\ Shape(Box(x)) /\ Box(x).mb = mb /\ Box(x).data = mbData /\ Box(x).sys = rtsys
      /\ Fits(mb, MaxSize[x])
  BY BoxFacts DEF Box
<1>2. Becomes(x, ReleaseWriter(D))
  BY Zenon DEF TryFetch
<1>3. mb.buffer # << >>
  BY <1>1 DEF Fits
<1>4. /\ Shape(D) /\ D.data = mbData /\ D.sys = rtsys /\ D.mb.buffer = Tail(mb.buffer)
      /\ D.mb.readerQ = mb.readerQ /\ D.mb.writerQ = mb.writerQ
  BY <1>1, <1>3, DropFacts
<1> HIDE DEF D
<1>5. Took(x, D.data)
  BY <1>1, <1>2, <1>3, <1>4, TakeEffect
<1> QED BY <1>4, <1>5

LEMMA PostEffect ==
  ASSUME MailInv, NEW x \in Mailbox, NEW m \in Message, Post(x, m)
  PROVE  WriterWaits(x, m) \/ Stored(x, m) \/ Delivered(x, m)
<1> DEFINE S == Box(x)
           mb == mailbox[x]
           z == Blocked(S.sys, Current)
           q == Append(S.mb.writerQ, Current)
           B == [S EXCEPT !.sys = z, !.mb.writerQ = q, !.data[Current] = m]
<1>1. /\ Shape(S) /\ MaxSize[x] \in Nat \ {0} /\ Fits(mb, MaxSize[x])
      /\ Current \in UserTask /\ S.mb = mb /\ S.data = mbData /\ S.sys = rtsys
  BY BoxFacts DEF Post, Box
<1>2. CASE mb.count = MaxSize[x]
  <2>1. Becomes(x, B)
    BY <1>1, <1>2, Zenon DEF Post
  <2>2. /\ q \in Seq(UserTask) /\ m \in Pointer
        /\ q = Append(mb.writerQ, Current) /\ z = Blocked(rtsys, Current)
    BY <1>1, ShapeFacts, SequenceFacts DEF Pointer
  <2> HIDE DEF S, z, q
  <2>3. B.mb.buffer = mb.buffer /\ B.mb.readerQ = mb.readerQ /\ B.mb.writerQ = q
    BY <1>1, <2>2 DEF Shape, MailboxType
  <2>4. Shape(B)
    BY <1>1, <2>2 DEF Shape, MailboxType
  <2>5. B.sys = z /\ B.data = [mbData EXCEPT ![Current] = m]
    BY <1>1 DEF Shape
  <2> HIDE DEF B
  <2>6. mb.readerQ = << >>
    BY <1>1, <1>2 DEF Fits
  <2>7. /\ rtsys' = B.sys /\ mbData' = B.data
        /\ Changed(x, B.mb.buffer, B.mb.readerQ, B.mb.writerQ)
    BY <2>1, <2>4, BecomesFacts
  <2>8. mbData[Current] = None
    BY DEF Post
  <2>9. WriterWaits(x, m)
    BY <1>1, <2>2, <2>3, <2>5, <2>6, <2>7, <2>8 DEF WriterWaits
  <2> QED BY <2>9
<1>3. CASE mb.count # MaxSize[x]
  <2>1. Becomes(x, Readied(ReleaseReader(Put(S, m)), Put(S, m).mb.readerQ))
    BY <1>1, <1>3, Zenon DEF Post
  <2> QED BY <1>3, <2>1, GiveEffect
<1> QED BY <1>2, <1>3

LEMMA TryPostEffect ==
  ASSUME MailInv, NEW x \in Mailbox, NEW m \in Message, TryPost(x, m),
         mailbox[x].count # MaxSize[x]
  PROVE  Stored(x, m) \/ Delivered(x, m)
<1>1. Becomes(x, ReleaseReader(Put(Box(x), m)))
  BY Zenon DEF TryPost
<1> QED BY <1>1, GiveEffect

\* The effects of all the primitives.
Effect(x) ==
  \/ ReaderWaits(x)
  \/ \E d : Took(x, d)
  \/ \E m \in Message : WriterWaits(x, m) \/ Stored(x, m) \/ Delivered(x, m)

MailStep ==
  \/ UNCHANGED mailVars /\ (OtherStep \/ UNCHANGED vars)
  \/ \E primitive :
       /\ Calling(primitive) /\ NotBlocked
       /\ \/ UNCHANGED mailVars /\ Abort
          \/ /\ UNCHANGED pc
             /\ \/ UNCHANGED <<rtsys, mailVars>>
                \/ \E x \in Mailbox : Effect(x)
                \/ /\ Current \in UserTask /\ UNCHANGED <<rtsys, mailbox>>
                   /\ mbData' = [mbData EXCEPT ![Current] = None]

LEMMA MailStepShape ==
  ASSUME MailInv, [MailNext]_<<vars, mailVars>>
  PROVE  MailStep
<1>1. CASE UNCHANGED mailVars /\ (OtherStep \/ UNCHANGED vars)
  BY <1>1 DEF MailStep
<1>2. ASSUME NEW x \in Mailbox, Fetch(x) PROVE MailStep
  <2>1. Calling("ttFetch") /\ NotBlocked
    BY <1>2 DEF Fetch
  <2>2. CASE mbData[Current] # None
    <3>1. Abort /\ UNCHANGED mailVars
      BY <1>2, <2>2 DEF Fetch
    <3> QED BY <2>1, <3>1 DEF MailStep
  <2>3. CASE mbData[Current] = None
    <3>1. UNCHANGED pc
      BY <1>2, <2>3 DEF Fetch
    <3>2. Effect(x)
      BY <1>2, <2>3, FetchEffect DEF Effect
    <3> QED BY <2>1, <3>1, <3>2 DEF MailStep
  <2> QED BY <2>2, <2>3
<1>3. ASSUME NEW x \in Mailbox, TryFetch(x) PROVE MailStep
  <2>1. Calling("ttTryFetch") /\ NotBlocked /\ UNCHANGED pc
    BY <1>3 DEF TryFetch
  <2>2. CASE mailbox[x].count = 0
    <3>1. UNCHANGED <<rtsys, mailVars>>
      BY <1>3, <2>2 DEF TryFetch
    <3> QED BY <2>1, <3>1 DEF MailStep
  <2>3. CASE mailbox[x].count # 0
    <3>1. Effect(x)
      BY <1>3, <2>3, TryFetchEffect DEF Effect
    <3> QED BY <2>1, <3>1 DEF MailStep
  <2> QED BY <2>2, <2>3
<1>4. ASSUME NEW x \in Mailbox, NEW m \in Message, Post(x, m) PROVE MailStep
  <2>1. Calling("ttPost") /\ NotBlocked /\ UNCHANGED pc
    BY <1>4 DEF Post
  <2>2. Effect(x)
    BY <1>4, PostEffect DEF Effect
  <2> QED BY <2>1, <2>2 DEF MailStep
<1>5. ASSUME NEW x \in Mailbox, NEW m \in Message, TryPost(x, m) PROVE MailStep
  <2>1. Calling("ttTryPost") /\ NotBlocked /\ UNCHANGED pc
    BY <1>5 DEF TryPost
  <2>2. CASE mailbox[x].count = MaxSize[x]
    <3>1. UNCHANGED <<rtsys, mailVars>>
      BY <1>5, <2>2 DEF TryPost
    <3> QED BY <2>1, <3>1 DEF MailStep
  <2>3. CASE mailbox[x].count # MaxSize[x]
    <3>1. Effect(x)
      BY <1>5, <2>3, TryPostEffect DEF Effect
    <3> QED BY <2>1, <3>1 DEF MailStep
  <2> QED BY <2>2, <2>3
<1>6. CASE Retrieve
  <2>1. Calling("ttRetrieve") /\ NotBlocked /\ UNCHANGED pc
    BY <1>6 DEF Retrieve
  <2>2. /\ Current \in UserTask /\ UNCHANGED <<rtsys, mailbox>>
        /\ mbData' = [mbData EXCEPT ![Current] = None]
    BY <1>6 DEF Retrieve
  <2> QED BY <2>1, <2>2 DEF MailStep
<1> QED BY <1>1, <1>2, <1>3, <1>4, <1>5, <1>6 DEF MailNext

-----------------------------------------------------------------------------
(***************************************************************************)
(* The tasks that wait are those in the readers' and the writers' queues.  *)
(***************************************************************************)
MailQueued == IInv /\ WaitIn(rtsys, WaitingQs)

LEMMA ReleasedFacts ==
  ASSUME NEW s, NEW t \in UserTask, Sound(s, ActiveUsers(s), {}), t \in Parks(s),
         NEW r, Released(s, t, r)
  PROVE  Served(s, r) /\ Parks(r) = Parks(s) \ {t}
<1> DEFINE z == MoveToReadyQ(s, t)
<1>1. /\ Served(s, z) /\ Ready(z, t) /\ Parks(z) = Parks(s) \ {t}
  BY MoveToReadyQFrees
<1> HIDE DEF z
<1>2. CASE r = [z EXCEPT !.state[t] = "READY"]
  <2>1. Served(z, r) /\ Parks(r) = Parks(z)
    BY <1>1, <1>2, SetReadyFacts DEF Served
  <2> QED BY <1>1, <2>1, ServedTransitive
<1>3. CASE r = z
  BY <1>1, <1>3
<1> QED BY <1>2, <1>3 DEF Released, z

LEMMA QueueTypes ==
  ASSUME MailInv, NEW x \in Mailbox
  PROVE  /\ <<x, "readerQ">> \in DOMAIN WaitingQs /\ <<x, "writerQ">> \in DOMAIN WaitingQs
         /\ WaitingQs[<<x, "readerQ">>] = mailbox[x].readerQ
         /\ WaitingQs[<<x, "writerQ">>] = mailbox[x].writerQ
         /\ mailbox[x].readerQ \in Seq(UserTask) /\ mailbox[x].writerQ \in Seq(UserTask)
<1>1. mailbox[x] \in MailboxType
  BY DEF MailInv, Fits
<1> QED BY <1>1 DEF WaitingQs, MailboxType

LEMMA QueuesFacts ==
  ASSUME MailInv, NEW x \in Mailbox, NEW b, NEW p, NEW w, Changed(x, b, p, w)
  PROVE  /\ DOMAIN WaitingQs' = DOMAIN WaitingQs
         /\ WaitingQs'[<<x, "readerQ">>] = p /\ WaitingQs'[<<x, "writerQ">>] = w
         /\ \A y \in DOMAIN WaitingQs :
              y \notin {<<x, "readerQ">>, <<x, "writerQ">>} => WaitingQs'[y] = WaitingQs[y]
<1> DEFINE D == Mailbox \X {"readerQ", "writerQ"}
<1>1. DOMAIN WaitingQs' = D /\ DOMAIN WaitingQs = D
  BY DEF WaitingQs
<1>2. WaitingQs'[<<x, "readerQ">>] = p /\ WaitingQs'[<<x, "writerQ">>] = w
  BY DEF WaitingQs, Changed
<1>3. ASSUME NEW y \in D, y \notin {<<x, "readerQ">>, <<x, "writerQ">>}
      PROVE  WaitingQs'[y] = WaitingQs[y]
  <2>1. y[1] \in Mailbox /\ y[1] # x
    BY <1>3
  <2>2. mailbox'[y[1]] = mailbox[y[1]]
    BY <2>1 DEF Changed
  <2> QED BY <2>2 DEF WaitingQs
<1> QED BY <1>1, <1>2, <1>3

\* only the queue of the readers, or of the writers, changes
LEMMA ReadersChange ==
  ASSUME MailInv, NEW x \in Mailbox, NEW b, NEW p, Changed(x, b, p, mailbox[x].writerQ)
  PROVE  /\ WaitingQs'[<<x, "readerQ">>] = p
         /\ \A y \in DOMAIN WaitingQs : y # <<x, "readerQ">> => WaitingQs'[y] = WaitingQs[y]
<1>1. /\ WaitingQs'[<<x, "readerQ">>] = p /\ WaitingQs'[<<x, "writerQ">>] = mailbox[x].writerQ
      /\ \A y \in DOMAIN WaitingQs :
           y \notin {<<x, "readerQ">>, <<x, "writerQ">>} => WaitingQs'[y] = WaitingQs[y]
  BY QueuesFacts
<1>2. WaitingQs[<<x, "writerQ">>] = mailbox[x].writerQ
  BY QueueTypes
<1> QED BY <1>1, <1>2

LEMMA WritersChange ==
  ASSUME MailInv, NEW x \in Mailbox, NEW b, NEW w, Changed(x, b, mailbox[x].readerQ, w)
  PROVE  /\ WaitingQs'[<<x, "writerQ">>] = w
         /\ \A y \in DOMAIN WaitingQs : y # <<x, "writerQ">> => WaitingQs'[y] = WaitingQs[y]
<1>1. /\ WaitingQs'[<<x, "readerQ">>] = mailbox[x].readerQ /\ WaitingQs'[<<x, "writerQ">>] = w
      /\ \A y \in DOMAIN WaitingQs :
           y \notin {<<x, "readerQ">>, <<x, "writerQ">>} => WaitingQs'[y] = WaitingQs[y]
  BY QueuesFacts
<1>2. WaitingQs[<<x, "readerQ">>] = mailbox[x].readerQ
  BY QueueTypes
<1> QED BY <1>1, <1>2

LEMMA EffectQueued ==
  ASSUME MailInv, MailQueued, NEW primitive, Calling(primitive), NotBlocked, UNCHANGED pc,
         NEW x \in Mailbox, Effect(x)
  PROVE  MailQueued'
<1> DEFINE mb == mailbox[x]
           Q  == WaitingQs
           R  == WaitingQs'
           rd == <<x, "readerQ">>
           wr == <<x, "writerQ">>
<1>1. /\ IInv /\ WaitIn(rtsys, Q) /\ "ttKillJob" \notin Primitives
      /\ rd \in DOMAIN Q /\ wr \in DOMAIN Q /\ DOMAIN R = DOMAIN Q
      /\ Q[rd] = mb.readerQ /\ Q[wr] = mb.writerQ
      /\ Q[rd] \in Seq(UserTask) /\ Q[wr] \in Seq(UserTask)
  BY MailboxAssumption, QueueTypes DEF MailboxAssumption, MailQueued, WaitingQs
<1>2. Sound(rtsys, ActiveUsers(rtsys), {})
  BY <1>1, IInvFacts
<1>3. SUFFICES Served(rtsys, rtsys') /\ WaitIn(rtsys', R)
  BY <1>1, CallKeeps DEF MailQueued
<1> HIDE DEF Q, R, rd, wr
<1>4. ASSUME Current \in UserTask, rtsys' = Blocked(rtsys, Current)
      PROVE  /\ Served(rtsys, rtsys') /\ Parks(rtsys') = Parks(rtsys) \cup {Current}
             /\ Current \notin Parks(rtsys)
  <2>1. Current \in ActiveUsers(rtsys) /\ Current \notin Parks(rtsys)
    BY <1>1, <1>4, CallerFacts
  <2> QED BY <1>1, <1>2, <1>4, <2>1, BlockedFacts
<1>5. ASSUME NEW k \in DOMAIN Q, Q[k] # << >>, Q[k] \in Seq(UserTask),
             Released(rtsys, Head(Q[k]), rtsys')
      PROVE  /\ Served(rtsys, rtsys')
             /\ Parks(rtsys') = Parks(rtsys) \ {Head(Q[k])}
  <2>1. Head(Q[k]) \in UserTask /\ Head(Q[k]) \in Parks(rtsys)
    BY <1>1, <1>2, <1>5, HeadWaits
  <2> QED BY <1>2, <1>5, <2>1, ReleasedFacts
<1>6. ASSUME rtsys' = rtsys, NEW b, Changed(x, b, mb.readerQ, mb.writerQ)
      PROVE  Served(rtsys, rtsys') /\ WaitIn(rtsys', R)
  <2>1. Served(rtsys, rtsys')
    BY <1>2, <1>6 DEF Served, SameClock
  <2>2. R[rd] = Q[rd] /\ \A y \in DOMAIN Q : y # rd => R[y] = Q[y]
    BY <1>1, <1>6, ReadersChange DEF Q, R, rd
  <2>3. Q = [y \in DOMAIN Q |-> Q[y]] /\ R = [y \in DOMAIN R |-> R[y]]
    BY DEF WaitingQs, Q, R
  <2>4. R = Q
    BY <1>1, <2>2, <2>3
  <2> QED BY <1>1, <1>6, <2>1, <2>4
<1>7. CASE ReaderWaits(x)
  <2>1. /\ Current \in UserTask /\ rtsys' = Blocked(rtsys, Current)
        /\ Changed(x, mb.buffer, Append(mb.readerQ, Current), mb.writerQ)
    BY <1>7 DEF ReaderWaits
  <2>2. /\ R[rd] = Append(Q[rd], Current)
        /\ \A y \in DOMAIN Q : y # rd => R[y] = Q[y]
    BY <1>1, <2>1, ReadersChange DEF Q, R, rd
  <2> QED BY <1>1, <1>4, <2>1, <2>2, WaiterJoins
<1>8. ASSUME NEW d, Took(x, d) PROVE Served(rtsys, rtsys') /\ WaitIn(rtsys', R)
  <2>1. CASE mb.writerQ = << >>
    <3>1. rtsys' = rtsys /\ Changed(x, Tail(mb.buffer), mb.readerQ, mb.writerQ)
      BY <1>8, <2>1 DEF Took
    <3> QED BY <1>6, <3>1
  <2>2. CASE mb.writerQ # << >>
    <3> DEFINE b == Append(Tail(mb.buffer), d[Head(mb.writerQ)])
    <3>1. Released(rtsys, Head(mb.writerQ), rtsys') /\ Changed(x, b, mb.readerQ, Tail(mb.writerQ))
      BY <1>8, <2>2 DEF Took
    <3> HIDE DEF b
    <3>2. /\ R[wr] = Tail(Q[wr]) /\ Q[wr] # << >>
          /\ \A y \in DOMAIN Q : y # wr => R[y] = Q[y]
      BY <1>1, <2>2, <3>1, WritersChange DEF Q, R, wr
    <3>3. Released(rtsys, Head(Q[wr]), rtsys')
      BY <1>1, <3>1
    <3>4. Served(rtsys, rtsys') /\ Parks(rtsys') = Parks(rtsys) \ {Head(Q[wr])}
      BY <1>1, <1>5, <3>2, <3>3
    <3> QED BY <1>1, <3>2, <3>4, WaiterLeaves
  <2> QED BY <2>1, <2>2
<1>9. ASSUME NEW m \in Message, WriterWaits(x, m)
      PROVE  Served(rtsys, rtsys') /\ WaitIn(rtsys', R)
  <2>1. /\ Current \in UserTask /\ rtsys' = Blocked(rtsys, Current)
        /\ Changed(x, mb.buffer, mb.readerQ, Append(mb.writerQ, Current))
    BY <1>9 DEF WriterWaits
  <2>2. /\ R[wr] = Append(Q[wr], Current)
        /\ \A y \in DOMAIN Q : y # wr => R[y] = Q[y]
    BY <1>1, <2>1, WritersChange DEF Q, R, wr
  <2> QED BY <1>1, <1>4, <2>1, <2>2, WaiterJoins
<1>10. ASSUME NEW m \in Message, Stored(x, m)
       PROVE  Served(rtsys, rtsys') /\ WaitIn(rtsys', R)
  <2>1. rtsys' = rtsys /\ Changed(x, Append(mb.buffer, m), mb.readerQ, mb.writerQ)
    BY <1>10 DEF Stored
  <2> QED BY <1>6, <2>1
<1>11. ASSUME NEW m \in Message, Delivered(x, m)
       PROVE  Served(rtsys, rtsys') /\ WaitIn(rtsys', R)
  <2>1. /\ Released(rtsys, Head(Q[rd]), rtsys') /\ Q[rd] # << >>
        /\ Changed(x, << >>, Tail(mb.readerQ), mb.writerQ)
    BY <1>1, <1>11 DEF Delivered
  <2>2. R[rd] = Tail(Q[rd]) /\ \A y \in DOMAIN Q : y # rd => R[y] = Q[y]
    BY <1>1, <2>1, ReadersChange DEF Q, R, rd
  <2>3. Served(rtsys, rtsys') /\ Parks(rtsys') = Parks(rtsys) \ {Head(Q[rd])}
    BY <1>1, <1>5, <2>1
  <2> QED BY <1>1, <2>1, <2>2, <2>3, WaiterLeaves
<1> QED BY <1>7, <1>8, <1>9, <1>10, <1>11 DEF Effect

LEMMA MailQueuedStep ==
  ASSUME MailInv, MailQueued, MailStep
  PROVE  MailQueued'
<1>1. IInv /\ WaitIn(rtsys, WaitingQs) /\ "ttKillJob" \notin Primitives
  BY MailboxAssumption DEF MailboxAssumption, MailQueued
<1>2. ASSUME mailbox' = mailbox, Parks(rtsys') = Parks(rtsys), IInv' PROVE MailQueued'
  <2>1. WaitingQs' = WaitingQs
    BY <1>2 DEF WaitingQs
  <2>2. WaitIn(rtsys', WaitingQs)
    BY <1>1, <1>2, WaitersStay
  <2> QED BY <1>2, <2>1, <2>2 DEF MailQueued
<1>3. CASE UNCHANGED mailVars /\ (OtherStep \/ UNCHANGED vars)
  BY <1>1, <1>2, <1>3, OtherSteps DEF mailVars
<1>4. ASSUME NEW primitive, Calling(primitive), NotBlocked,
             \/ UNCHANGED mailVars /\ Abort
             \/ /\ UNCHANGED pc
                /\ \/ UNCHANGED <<rtsys, mailVars>>
                   \/ \E x \in Mailbox : Effect(x)
                   \/ /\ Current \in UserTask /\ UNCHANGED <<rtsys, mailbox>>
                      /\ mbData' = [mbData EXCEPT ![Current] = None]
      PROVE  MailQueued'
  <2>1. CASE UNCHANGED mailVars /\ Abort
    BY <1>1, <1>2, <1>4, <2>1, AbortKeeps DEF mailVars
  <2>2. CASE UNCHANGED pc /\ rtsys' = rtsys /\ mailbox' = mailbox
    <3>1. Served(rtsys, rtsys')
      BY <1>1, <2>2, IInvFacts DEF Served, SameClock
    <3>2. IInv'
      BY <1>1, <1>4, <2>2, <3>1, CallKeeps
    <3> QED BY <1>2, <2>2, <3>2
  <2>3. CASE UNCHANGED pc /\ \E x \in Mailbox : Effect(x)
    BY <1>4, <2>3, EffectQueued
  <2> QED BY <1>4, <2>1, <2>2, <2>3 DEF mailVars
<1> QED BY <1>3, <1>4 DEF MailStep

-----------------------------------------------------------------------------
(***************************************************************************)
(* The order of the messages: those in the buffer, then those of the       *)
(* writers that wait.                                                      *)
(***************************************************************************)
LEMMA AppendFacts ==
  ASSUME NEW T, NEW a \in Seq(T), NEW b \in Seq(T), NEW m \in T
  PROVE  a \o Append(b, m) = Append(a \o b, m)
<1> DEFINE l == a \o Append(b, m)
           r == Append(a \o b, m)
<1>1. /\ Append(b, m) \in Seq(T) /\ Len(Append(b, m)) = Len(b) + 1
      /\ \A i \in 1 .. Len(b) : Append(b, m)[i] = b[i]
      /\ Append(b, m)[Len(b) + 1] = m
      /\ Len(a) \in Nat /\ Len(b) \in Nat
  BY AppendProperties, LenProperties
<1>2. /\ a \o b \in Seq(T) /\ Len(a \o b) = Len(a) + Len(b)
      /\ \A i \in 1 .. Len(a) + Len(b) : (a \o b)[i] = IF i <= Len(a) THEN a[i] ELSE b[i - Len(a)]
  BY ConcatProperties
<1>3. /\ l \in Seq(T) /\ Len(l) = Len(a) + Len(b) + 1
      /\ \A i \in 1 .. Len(a) + Len(b) + 1 :
           l[i] = IF i <= Len(a) THEN a[i] ELSE Append(b, m)[i - Len(a)]
  <2>1. /\ l \in Seq(T) /\ Len(l) = Len(a) + Len(Append(b, m))
        /\ \A i \in 1 .. Len(a) + Len(Append(b, m)) :
             l[i] = IF i <= Len(a) THEN a[i] ELSE Append(b, m)[i - Len(a)]
    BY <1>1, ConcatProperties
  <2> QED BY <1>1, <2>1
<1>4. /\ r \in Seq(T) /\ Len(r) = Len(a) + Len(b) + 1
      /\ \A i \in 1 .. Len(a) + Len(b) : r[i] = (a \o b)[i]
      /\ r[Len(a) + Len(b) + 1] = m
  <2>1. /\ r \in Seq(T) /\ Len(r) = Len(a \o b) + 1
        /\ \A i \in 1 .. Len(a \o b) : r[i] = (a \o b)[i]
        /\ r[Len(a \o b) + 1] = m
    BY <1>2, AppendProperties
  <2> QED BY <1>2, <2>1
<1> HIDE DEF l, r
<1>5. ASSUME NEW i \in 1 .. Len(l) PROVE l[i] = r[i]
  <2>0. i \in 1 .. Len(a) + Len(b) + 1
    BY <1>3
  <2>1. CASE i <= Len(a)
    <3>1. i \in 1 .. Len(a) + Len(b)
      BY <1>1, <2>0, <2>1
    <3>2. l[i] = a[i]
      BY <1>3, <2>0, <2>1
    <3>3. r[i] = a[i]
      BY <1>2, <1>4, <2>1, <3>1
    <3> QED BY <3>2, <3>3
  <2>2. CASE i > Len(a) /\ i <= Len(a) + Len(b)
    <3>1. i - Len(a) \in 1 .. Len(b) /\ i \in 1 .. Len(a) + Len(b) + 1
          /\ i \in 1 .. Len(a) + Len(b) /\ ~ (i <= Len(a))
      BY <1>1, <2>2
    <3>2. l[i] = Append(b, m)[i - Len(a)] /\ r[i] = b[i - Len(a)]
      BY <1>2, <1>3, <1>4, <3>1
    <3> QED BY <1>1, <3>1, <3>2
  <2>3. CASE i = Len(a) + Len(b) + 1
    <3>1. /\ i \in 1 .. Len(a) + Len(b) + 1 /\ ~ (i <= Len(a))
          /\ i - Len(a) = Len(b) + 1
      BY <1>1, <2>3
    <3> QED BY <1>1, <1>3, <1>4, <2>3, <3>1
  <2>4. i <= Len(a) \/ (i > Len(a) /\ i <= Len(a) + Len(b)) \/ i = Len(a) + Len(b) + 1
    BY <1>1, <2>0
  <2> QED BY <2>1, <2>2, <2>3, <2>4
<1>6. l = r
  BY <1>3, <1>4, <1>5, SeqEqual
<1> QED BY <1>6 DEF l, r

LEMMA TailOfConcat ==
  ASSUME NEW T, NEW a \in Seq(T), NEW b \in Seq(T), a # << >>
  PROVE  /\ a \o b # << >> /\ Head(a \o b) = Head(a)
         /\ Tail(a \o b) = Tail(a) \o b
         /\ b # << >> => Tail(a \o b) = Append(Tail(a), Head(b)) \o Tail(b)
<1>1. /\ Len(a) \in Nat /\ Len(b) \in Nat /\ Len(a) # 0
      /\ a \o b \in Seq(T) /\ Len(a \o b) = Len(a) + Len(b)
      /\ \A i \in 1 .. Len(a) + Len(b) : (a \o b)[i] = IF i <= Len(a) THEN a[i] ELSE b[i - Len(a)]
  BY ConcatProperties, LenProperties, EmptySeq
<1>2. a \o b # << >> /\ Head(a \o b) = Head(a)
  <2>1. a \o b # << >>
    BY <1>1
  <2>2. Head(a \o b) = (a \o b)[1] /\ Head(a) = a[1]
    BY <1>1, <2>1, HeadFacts
  <2> QED BY <1>1, <2>1, <2>2
<1> DEFINE c == a \o b
           l == Tail(c)
           k == Tail(a)
<1>3. /\ l \in Seq(T) /\ Len(l) = Len(c) - 1 /\ \A i \in 1 .. Len(l) : l[i] = c[i + 1]
      /\ k \in Seq(T) /\ Len(k) = Len(a) - 1 /\ \A i \in 1 .. Len(k) : k[i] = a[i + 1]
  BY <1>1, <1>2, HeadTailProperties
<1>4. l = k \o b
  <2> DEFINE r == k \o b
  <2>1. /\ r \in Seq(T) /\ Len(r) = Len(k) + Len(b)
        /\ \A i \in 1 .. Len(k) + Len(b) : r[i] = IF i <= Len(k) THEN k[i] ELSE b[i - Len(k)]
    BY <1>3, ConcatProperties
  <2>2. c = a \o b
    OBVIOUS
  <2> HIDE DEF r, l, k, c
  <2>3. ASSUME NEW i \in 1 .. Len(l) PROVE l[i] = r[i]
    <3>1. l[i] = c[i + 1] /\ i + 1 \in 1 .. Len(a) + Len(b)
      BY <1>1, <1>3, <2>2
    <3>2. CASE i <= Len(k)
      <4>1. r[i] = k[i] /\ k[i] = a[i + 1] /\ i + 1 <= Len(a)
        BY <1>1, <1>3, <2>1, <2>2, <3>2
      <4> QED BY <1>1, <2>2, <3>1, <4>1
    <3>3. CASE ~ (i <= Len(k))
      <4>1. r[i] = b[i - Len(k)] /\ ~ (i + 1 <= Len(a)) /\ i - Len(k) = i + 1 - Len(a)
        BY <1>1, <1>3, <2>1, <2>2, <3>3
      <4> QED BY <1>1, <2>2, <3>1, <4>1
    <3> QED BY <3>2, <3>3
  <2>4. l \in Seq(T) /\ r \in Seq(T) /\ Len(l) = Len(r)
    BY <1>1, <1>3, <2>1, <2>2
  <2>5. l = r
    BY <2>3, <2>4, SeqEqual
  <2> QED BY <2>5 DEF r, l, k, c
<1>5. ASSUME b # << >> PROVE l = Append(k, Head(b)) \o Tail(b)
  <2> DEFINE h == <<Head(b)>>
  <2>1. Head(b) \in T /\ Tail(b) \in Seq(T) /\ h \in Seq(T)
    BY <1>5, HeadTailProperties
  <2>2. Append(k, Head(b)) = k \o h
    <3>1. k \in Seq(T) /\ Head(b) \in T
      BY <1>3, <2>1
    <3> HIDE DEF k
    <3> QED BY <3>1, AppendIsConcat
  <2>3. h \o Tail(b) = b
    BY <1>5, <2>1
  <2>4. (k \o h) \o Tail(b) = k \o (h \o Tail(b))
    BY <1>3, <2>1, ConcatAssociative
  <2> QED BY <1>4, <2>2, <2>3, <2>4
<1> QED BY <1>2, <1>4, <1>5

\* The variables of TTMessages.
Sent    == [x \in Mailbox |-> mailbox[x].buffer \o Unsent(x)]
Readers == [x \in Mailbox |-> mailbox[x].readerQ]
Inbox   == [t \in UserTask |-> IF t \in Writers THEN None ELSE mbData[t]]

LEMMA BoxTypes ==
  ASSUME MailInv, NEW x \in Mailbox
  PROVE  /\ mailbox[x].buffer \in Seq(Pointer) /\ mailbox[x].writerQ \in Seq(UserTask)
         /\ mailbox[x].readerQ \in Seq(UserTask) /\ mbData \in [UserTask -> Pointer]
         /\ mailbox[x].buffer = << >> => mailbox[x].writerQ = << >>
<1>1. /\ MaxSize[x] \in Nat \ {0} /\ mailbox[x] \in MailboxType
      /\ mailbox[x].count = Len(mailbox[x].buffer)
      /\ mailbox[x].writerQ # << >> => mailbox[x].count = MaxSize[x]
      /\ mbData \in [UserTask -> Pointer]
  BY MailboxAssumption DEF MailInv, Fits, MailboxAssumption
<1>2. mailbox[x].buffer = << >> => Len(mailbox[x].buffer) = 0
  OBVIOUS
<1> QED BY <1>1, <1>2 DEF MailboxType

LEMMA UnsentFacts ==
  ASSUME MailInv, NEW x \in Mailbox
  PROVE  /\ Unsent(x) \in Seq(Pointer) /\ Len(Unsent(x)) = Len(mailbox[x].writerQ)
         /\ Unsent(x) = << >> <=> mailbox[x].writerQ = << >>
         /\ mailbox[x].writerQ # << >> =>
              Head(Unsent(x)) = mbData[Head(mailbox[x].writerQ)]
<1> DEFINE q == mailbox[x].writerQ
           u == Unsent(x)
<1>1. q \in Seq(UserTask) /\ mbData \in [UserTask -> Pointer] /\ Len(q) \in Nat
  BY BoxTypes, LenProperties
<1>2. u = [i \in 1 .. Len(q) |-> mbData[q[i]]]
  BY DEF Unsent
<1>3. \A i \in 1 .. Len(q) : q[i] \in UserTask
  BY <1>1
<1>4. u \in Seq(Pointer) /\ Len(u) = Len(q)
  BY <1>1, <1>2, <1>3
<1>5. u = << >> <=> q = << >>
  BY <1>1, <1>4, EmptySeq
<1>6. ASSUME q # << >> PROVE Head(u) = mbData[Head(q)]
  <2>1. Head(u) = u[1] /\ Head(q) = q[1] /\ 1 \in 1 .. Len(q)
    BY <1>1, <1>4, <1>5, <1>6, HeadFacts
  <2> QED BY <1>2, <2>1
<1> QED BY <1>4, <1>5, <1>6

LEMMA UnsentKept ==
  ASSUME MailInv, NEW x \in Mailbox, mailbox'[x].writerQ = mailbox[x].writerQ,
         \A t \in ToSet(mailbox[x].writerQ) : mbData'[t] = mbData[t]
  PROVE  Unsent(x)' = Unsent(x)
<1> DEFINE q == mailbox[x].writerQ
<1>1. \A i \in 1 .. Len(q) : q[i] \in ToSet(q)
  BY BoxTypes, LenProperties DEF ToSet
<1>2. Unsent(x)' = [i \in 1 .. Len(q) |-> mbData'[q[i]]]
  BY DEF Unsent
<1>3. \A i \in 1 .. Len(q) : mbData'[q[i]] = mbData[q[i]]
  BY <1>1
<1> QED BY <1>2, <1>3 DEF Unsent

LEMMA UnsentJoins ==
  ASSUME MailInv, NEW x \in Mailbox, NEW t \in UserTask, NEW m \in Pointer,
         mailbox'[x].writerQ = Append(mailbox[x].writerQ, t), mbData'[t] = m,
         \A v \in ToSet(mailbox[x].writerQ) : mbData'[v] = mbData[v]
  PROVE  Unsent(x)' = Append(Unsent(x), m)
<1> DEFINE q == mailbox[x].writerQ
           r == Append(q, t)
           u == Unsent(x)
           n == Len(q)
<1>1. /\ q \in Seq(UserTask) /\ n \in Nat /\ u \in Seq(Pointer) /\ Len(u) = n
      /\ u = [i \in 1 .. n |-> mbData[q[i]]]
  BY BoxTypes, UnsentFacts, LenProperties DEF Unsent
<1>2. /\ Len(r) = n + 1 /\ r[n + 1] = t /\ \A i \in 1 .. n : r[i] = q[i]
  BY <1>1, AppendProperties
<1>3. \A i \in 1 .. n : mbData'[q[i]] = mbData[q[i]]
  BY <1>1, LenProperties DEF ToSet
<1>4. Unsent(x)' = [i \in 1 .. n + 1 |-> mbData'[r[i]]]
  BY <1>2 DEF Unsent
<1>5. /\ Append(u, m) \in Seq(Pointer) /\ Len(Append(u, m)) = n + 1
      /\ Append(u, m)[n + 1] = m /\ \A i \in 1 .. n : Append(u, m)[i] = u[i]
  BY <1>1, AppendProperties
<1> HIDE DEF q, r, u, n
<1>6. Append(u, m) = [i \in 1 .. n + 1 |-> Append(u, m)[i]]
  BY <1>1, <1>5, LenProperties
<1>7. ASSUME NEW i \in 1 .. n + 1 PROVE Append(u, m)[i] = mbData'[r[i]]
  <2>1. CASE i \in 1 .. n
    BY <1>1, <1>2, <1>3, <1>5, <2>1
  <2>2. CASE i = n + 1
    BY <1>2, <1>5, <2>2
  <2> QED BY <1>1, <2>1, <2>2
<1>8. Unsent(x)' = Append(u, m)
  BY <1>4, <1>6, <1>7
<1> QED BY <1>8 DEF u

LEMMA UnsentLeaves ==
  ASSUME MailInv, NEW x \in Mailbox, mailbox[x].writerQ # << >>,
         mailbox'[x].writerQ = Tail(mailbox[x].writerQ),
         \A v \in ToSet(Tail(mailbox[x].writerQ)) : mbData'[v] = mbData[v]
  PROVE  Unsent(x)' = Tail(Unsent(x))
<1> DEFINE q == mailbox[x].writerQ
           r == Tail(q)
           u == Unsent(x)
           n == Len(q)
<1>1. /\ q \in Seq(UserTask) /\ n \in Nat /\ u \in Seq(Pointer) /\ Len(u) = n
      /\ u = [i \in 1 .. n |-> mbData[q[i]]] /\ u # << >>
  BY BoxTypes, UnsentFacts, LenProperties DEF Unsent
<1>2. /\ Len(r) = n - 1 /\ r \in Seq(UserTask) /\ \A i \in 1 .. n - 1 : r[i] = q[i + 1]
  BY <1>1, HeadTailProperties
<1>3. \A i \in 1 .. n - 1 : mbData'[r[i]] = mbData[r[i]]
  BY <1>2, LenProperties DEF ToSet
<1>4. Unsent(x)' = [i \in 1 .. n - 1 |-> mbData'[r[i]]]
  BY <1>2 DEF Unsent
<1>5. /\ Tail(u) \in Seq(Pointer) /\ Len(Tail(u)) = n - 1
      /\ \A i \in 1 .. n - 1 : Tail(u)[i] = u[i + 1]
  BY <1>1, HeadTailProperties
<1> HIDE DEF q, r, u, n
<1>6. Tail(u) = [i \in 1 .. n - 1 |-> Tail(u)[i]]
  BY <1>1, <1>5, LenProperties
<1>7. ASSUME NEW i \in 1 .. n - 1 PROVE Tail(u)[i] = mbData'[r[i]]
  <2>1. i + 1 \in 1 .. n
    BY <1>1
  <2> QED BY <1>1, <1>2, <1>3, <1>5, <2>1
<1>8. Unsent(x)' = Tail(u)
  BY <1>4, <1>6, <1>7
<1> QED BY <1>8 DEF u

\* The writers are apart from the readers, from each other and from the caller.
LEMMA WriterFacts ==
  ASSUME MailInv, MailQueued
  PROVE  /\ Writers \subseteq Parks(rtsys)
         /\ \A x \in Mailbox : /\ NoDuplicates(mailbox[x].writerQ)
                               /\ ToSet(mailbox[x].writerQ) \subseteq Writers
                               /\ ToSet(mailbox[x].readerQ) \cap Writers = {}
         /\ \A x, y \in Mailbox :
              x # y => ToSet(mailbox[x].writerQ) \cap ToSet(mailbox[y].writerQ) = {}
<1> DEFINE Q == WaitingQs
<1>1. Apart(Q) /\ Parks(rtsys) = WaitingIn(Q)
  BY DEF MailQueued, WaitIn
<1>2. \A x \in Mailbox : /\ <<x, "readerQ">> \in DOMAIN Q /\ <<x, "writerQ">> \in DOMAIN Q
                         /\ Q[<<x, "readerQ">>] = mailbox[x].readerQ
                         /\ Q[<<x, "writerQ">>] = mailbox[x].writerQ
  BY QueueTypes
<1> HIDE DEF Q
<1>3. \A x \in Mailbox : /\ NoDuplicates(mailbox[x].writerQ)
                         /\ ToSet(mailbox[x].writerQ) \subseteq WaitingIn(Q)
  BY <1>1, <1>2 DEF Apart, WaitingIn
<1>4. ASSUME NEW x \in Mailbox, NEW y \in Mailbox
      PROVE  ToSet(mailbox[x].readerQ) \cap ToSet(mailbox[y].writerQ) = {}
  <2>1. <<x, "readerQ">> # <<y, "writerQ">>
    OBVIOUS
  <2> QED BY <1>1, <1>2, <2>1 DEF Apart
<1>5. ASSUME NEW x \in Mailbox, NEW y \in Mailbox, x # y
      PROVE  ToSet(mailbox[x].writerQ) \cap ToSet(mailbox[y].writerQ) = {}
  <2>1. <<x, "writerQ">> # <<y, "writerQ">>
    BY <1>5
  <2> QED BY <1>1, <1>2, <2>1 DEF Apart
<1> QED BY <1>1, <1>3, <1>4, <1>5 DEF Writers

LEMMA WritersKept ==
  ASSUME NEW x \in Mailbox, NEW b, NEW p, Changed(x, b, p, mailbox[x].writerQ)
  PROVE  Writers' = Writers /\ \A y \in Mailbox : mailbox'[y].writerQ = mailbox[y].writerQ
<1>1. \A y \in Mailbox : mailbox'[y].writerQ = mailbox[y].writerQ
  BY DEF Changed
<1> QED BY <1>1 DEF Writers

LEMMA WritersJoin ==
  ASSUME NEW x \in Mailbox, NEW b, NEW p, NEW w, Changed(x, b, p, w), NEW t,
         ToSet(w) = ToSet(mailbox[x].writerQ) \cup {t}
  PROVE  Writers' = Writers \cup {t}
<1>1. /\ \A y \in Mailbox : y # x => ToSet(mailbox'[y].writerQ) = ToSet(mailbox[y].writerQ)
      /\ ToSet(mailbox'[x].writerQ) = ToSet(mailbox[x].writerQ) \cup {t}
  BY DEF Changed
<1> QED BY <1>1 DEF Writers

LEMMA WritersLeave ==
  ASSUME MailInv, MailQueued, NEW x \in Mailbox, NEW b, NEW p, NEW w, Changed(x, b, p, w),
         NEW t \in ToSet(mailbox[x].writerQ), ToSet(w) = ToSet(mailbox[x].writerQ) \ {t}
  PROVE  Writers' = Writers \ {t}
<1>1. /\ \A y \in Mailbox : y # x => ToSet(mailbox'[y].writerQ) = ToSet(mailbox[y].writerQ)
      /\ ToSet(mailbox'[x].writerQ) = ToSet(mailbox[x].writerQ) \ {t}
  BY DEF Changed
<1>2. \A y \in Mailbox : y # x => t \notin ToSet(mailbox[y].writerQ)
  BY WriterFacts
<1> QED BY <1>1, <1>2 DEF Writers

\* what happens to mailbox x and to the mb_data of its writers leaves the other
\* mailboxes' messages alone
LEMMA SentChanges ==
  ASSUME MailInv, MailQueued, NEW x \in Mailbox, NEW b, NEW p, NEW w, Changed(x, b, p, w),
         \A v \in Writers : v \notin ToSet(mailbox[x].writerQ) => mbData'[v] = mbData[v]
  PROVE  /\ Sent' = [Sent EXCEPT ![x] = b \o Unsent(x)']
         /\ Readers' = [Readers EXCEPT ![x] = p]
<1>1. mailbox'[x].buffer = b /\ mailbox'[x].readerQ = p
  BY DEF Changed
<1>2. \A y \in Mailbox : y # x => mailbox'[y] = mailbox[y]
  BY DEF Changed
<1>3. ASSUME NEW y \in Mailbox, y # x PROVE Unsent(y)' = Unsent(y)
  <2>1. \A v \in ToSet(mailbox[y].writerQ) : mbData'[v] = mbData[v]
    BY <1>3, WriterFacts
  <2> QED BY <1>2, <1>3, <2>1, UnsentKept
<1>4. Sent' = [Sent EXCEPT ![x] = b \o Unsent(x)']
  <2>1. Sent' = [y \in Mailbox |-> mailbox'[y].buffer \o Unsent(y)']
    BY DEF Sent
  <2>2. \A y \in Mailbox : y # x => mailbox'[y].buffer \o Unsent(y)' = mailbox[y].buffer \o Unsent(y)
    BY <1>2, <1>3
  <2>3. mailbox'[x].buffer \o Unsent(x)' = b \o Unsent(x)'
    BY <1>1
  <2> QED BY <2>1, <2>2, <2>3 DEF Sent
<1>5. Readers' = [Readers EXCEPT ![x] = p]
  BY <1>1, <1>2 DEF Readers
<1> QED BY <1>4, <1>5

LEMMA ReaderWaitsRefines ==
  ASSUME MailInv, MailQueued, NEW x \in Mailbox, ReaderWaits(x)
  PROVE  \E t \in UserTask : Messages!Wait(x, t)
<1> DEFINE mb == mailbox[x]
           b == mb.buffer
           p == Append(mb.readerQ, Current)
<1>1. /\ Current \in UserTask /\ mbData[Current] = None /\ b = << >>
      /\ mbData' = mbData /\ Changed(x, b, p, mb.writerQ)
  BY DEF ReaderWaits
<1>2. Writers' = Writers /\ Unsent(x)' = Unsent(x) /\ Unsent(x) = << >>
  BY <1>1, WritersKept, UnsentKept, UnsentFacts, BoxTypes
<1>3. b \o Unsent(x)' = b \o Unsent(x)
  BY <1>2
<1>4. Sent' = [Sent EXCEPT ![x] = b \o Unsent(x)] /\ Readers' = [Readers EXCEPT ![x] = p]
  BY <1>1, <1>3, SentChanges
<1>5. Sent[x] = b \o Unsent(x) /\ Readers[x] = mb.readerQ
  BY DEF Sent, Readers
<1>6. b \o Unsent(x) = << >>
  BY <1>1, <1>2
<1>7. Sent' = Sent /\ Sent[x] = << >> /\ Readers' = [Readers EXCEPT ![x] = Append(@, Current)]
  BY <1>4, <1>5, <1>6 DEF Sent
<1>8. Inbox' = Inbox /\ Inbox[Current] = None
  BY <1>1, <1>2 DEF Inbox
<1>9. PICK t \in UserTask : t = Current
  BY <1>1
<1>10. Readers' = [Readers EXCEPT ![x] = Append(@, t)] /\ Inbox[t] = None
  BY <1>7, <1>8, <1>9
<1>11. Messages!Wait(x, t)
  BY <1>7, <1>8, <1>10 DEF Messages!Wait, Sent, Readers, Inbox
<1> QED BY <1>11

LEMMA WriterWaitsRefines ==
  ASSUME MailInv, MailQueued, Current \notin Writers, NEW x \in Mailbox, NEW m \in Message,
         WriterWaits(x, m)
  PROVE  Messages!Store(x, m)
<1> DEFINE mb == mailbox[x]
           b == mb.buffer
           w == Append(mb.writerQ, Current)
<1>1. /\ Current \in UserTask /\ mbData[Current] = None /\ mb.readerQ = << >>
      /\ mbData' = [mbData EXCEPT ![Current] = m] /\ Changed(x, b, mb.readerQ, w)
      /\ mailbox'[x].writerQ = w
  BY DEF WriterWaits, Changed
<1>2. /\ mb.writerQ \in Seq(UserTask) /\ b \in Seq(Pointer) /\ Unsent(x) \in Seq(Pointer)
      /\ m \in Pointer /\ mbData \in [UserTask -> Pointer]
      /\ ToSet(mb.writerQ) \subseteq Writers /\ NoDuplicates(mb.writerQ)
  BY BoxTypes, UnsentFacts, WriterFacts DEF Pointer
<1>3. ToSet(w) = ToSet(mb.writerQ) \cup {Current}
  BY <1>1, <1>2, AppendOnce
<1> HIDE DEF b, w
<1>4. Writers' = Writers \cup {Current}
  <2>1. Changed(x, b, mb.readerQ, w)
    BY <1>1
  <2> QED BY <1>3, <2>1, WritersJoin
<1>5. mbData'[Current] = m /\ \A v \in UserTask : v # Current => mbData'[v] = mbData[v]
  BY <1>1, <1>2
<1>6. Writers \subseteq UserTask
  BY WriterFacts DEF Parks
<1>7. \A v \in Writers : mbData'[v] = mbData[v]
  BY <1>5, <1>6
<1>8. Unsent(x)' = Append(Unsent(x), m)
  <2>1. mailbox'[x].writerQ = Append(mb.writerQ, Current)
    BY <1>1 DEF w
  <2>2. \A v \in ToSet(mb.writerQ) : mbData'[v] = mbData[v]
    BY <1>2, <1>7
  <2> QED BY <1>1, <1>2, <1>5, <2>1, <2>2, UnsentJoins
<1>9. b \o Append(Unsent(x), m) = Append(b \o Unsent(x), m)
  BY <1>2, AppendFacts
<1>10. Sent' = [Sent EXCEPT ![x] = b \o Unsent(x)']
       /\ Readers' = [Readers EXCEPT ![x] = mb.readerQ]
  BY <1>1, <1>7, SentChanges
<1>11. Sent[x] = b \o Unsent(x) /\ Readers[x] = mb.readerQ
  BY DEF Sent, Readers, b
<1>12. Sent' = [Sent EXCEPT ![x] = Append(@, m)] /\ Readers' = Readers /\ Readers[x] = << >>
  BY <1>1, <1>8, <1>9, <1>10, <1>11 DEF Readers
<1>13. Inbox' = Inbox
  BY <1>1, <1>4, <1>5 DEF Inbox
<1> QED BY <1>12, <1>13 DEF Messages!Store, Sent, Readers, Inbox

LEMMA StoredRefines ==
  ASSUME MailInv, MailQueued, NEW x \in Mailbox, NEW m \in Message, Stored(x, m)
  PROVE  Messages!Store(x, m)
<1> DEFINE mb == mailbox[x]
           b == Append(mb.buffer, m)
<1>1. /\ mb.readerQ = << >> /\ mb.writerQ = << >> /\ mbData' = mbData
      /\ Changed(x, b, mb.readerQ, mb.writerQ)
  BY DEF Stored
<1>2. Writers' = Writers /\ Unsent(x)' = Unsent(x) /\ Unsent(x) = << >>
  BY <1>1, WritersKept, UnsentKept, UnsentFacts
<1>3. mb.buffer \in Seq(Pointer) /\ b \in Seq(Pointer)
  BY BoxTypes, AppendProperties DEF Pointer
<1>4. b \o Unsent(x)' = b /\ mb.buffer \o Unsent(x) = mb.buffer
  BY <1>2, <1>3, ConcatEmptySeq
<1>5. Sent' = [Sent EXCEPT ![x] = b] /\ Readers' = [Readers EXCEPT ![x] = mb.readerQ]
  BY <1>1, <1>4, SentChanges
<1>6. Sent[x] = mb.buffer /\ Readers[x] = mb.readerQ
  BY <1>4 DEF Sent, Readers
<1>7. Sent' = [Sent EXCEPT ![x] = Append(@, m)] /\ Readers' = Readers /\ Readers[x] = << >>
  BY <1>1, <1>5, <1>6 DEF Readers
<1>8. Inbox' = Inbox
  BY <1>1, <1>2 DEF Inbox
<1> QED BY <1>7, <1>8 DEF Messages!Store, Sent, Readers, Inbox

LEMMA DeliveredRefines ==
  ASSUME MailInv, MailQueued, NEW x \in Mailbox, NEW m \in Message, Delivered(x, m)
  PROVE  Messages!Deliver(x, m)
<1> DEFINE mb == mailbox[x]
           t == Head(mb.readerQ)
           p == Tail(mb.readerQ)
<1>1. /\ mb.readerQ # << >> /\ mb.writerQ = << >> /\ mb.buffer = << >>
      /\ mbData' = [mbData EXCEPT ![t] = m] /\ Changed(x, << >>, p, mb.writerQ)
  BY DEF Delivered
<1>2. /\ mb.readerQ \in Seq(UserTask) /\ mbData \in [UserTask -> Pointer]
      /\ ToSet(mb.readerQ) \cap Writers = {} /\ Writers \subseteq UserTask
  BY BoxTypes, WriterFacts DEF Parks
<1>3. t \in UserTask /\ t \notin Writers
  BY <1>1, <1>2, HeadFacts
<1> HIDE DEF t
<1>4. mbData'[t] = m /\ \A v \in UserTask : v # t => mbData'[v] = mbData[v]
  BY <1>1, <1>2, <1>3
<1>5. \A v \in Writers : mbData'[v] = mbData[v]
  BY <1>2, <1>3, <1>4
<1>6. Writers' = Writers /\ mailbox'[x].writerQ = mb.writerQ
  BY <1>1, WritersKept
<1>7. ToSet(mb.writerQ) \subseteq Writers
  BY WriterFacts
<1>8. Unsent(x)' = Unsent(x) /\ Unsent(x) = << >>
  BY <1>1, <1>5, <1>6, <1>7, UnsentKept, UnsentFacts
<1>9. << >> \o Unsent(x)' = << >> /\ mb.buffer \o Unsent(x) = << >>
  BY <1>1, <1>8
<1>10. /\ Sent' = [Sent EXCEPT ![x] = << >> \o Unsent(x)']
       /\ Readers' = [Readers EXCEPT ![x] = p]
  <2> DEFINE e == << >>
  <2>1. Changed(x, e, p, mb.writerQ)
    BY <1>1
  <2> HIDE DEF e
  <2>2. /\ Sent' = [Sent EXCEPT ![x] = e \o Unsent(x)']
        /\ Readers' = [Readers EXCEPT ![x] = p]
    BY <1>5, <2>1, SentChanges
  <2> QED BY <2>2 DEF e
<1>11. Sent[x] = << >> /\ Readers[x] = mb.readerQ
  BY <1>9 DEF Sent, Readers
<1>12. /\ Sent' = Sent /\ Sent[x] = << >> /\ Readers[x] # << >>
       /\ Readers' = [Readers EXCEPT ![x] = Tail(@)] /\ t = Head(Readers[x])
  BY <1>1, <1>9, <1>10, <1>11 DEF Sent, t
<1>13. Inbox' = [Inbox EXCEPT ![t] = m]
  BY <1>3, <1>4, <1>6 DEF Inbox
<1>14. Inbox' = [Inbox EXCEPT ![Head(Readers[x])] = m]
  BY <1>12, <1>13
<1> QED BY <1>12, <1>14 DEF Messages!Deliver, Sent, Readers, Inbox

\* The messages left after a fetch: the first one goes, and the message of the
\* first writer, if there is one, only changes its place.
LEMMA TookLeaves ==
  ASSUME MailInv, MailQueued, Current \notin Writers, NEW x \in Mailbox, NEW d, Took(x, d)
  PROVE  /\ Sent[x] # << >> /\ Head(Sent[x]) = Head(mailbox[x].buffer)
         /\ Sent' = [Sent EXCEPT ![x] = Tail(@)] /\ Readers' = Readers
         /\ \A t \in UserTask : Inbox'[t] = IF t \in Writers THEN None ELSE d[t]
<1> DEFINE b == mailbox[x].buffer
           q == mailbox[x].writerQ
           p == mailbox[x].readerQ
           u == Unsent(x)
<1>1. /\ b # << >> /\ b \in Seq(Pointer) /\ u \in Seq(Pointer) /\ q \in Seq(UserTask)
      /\ mbData \in [UserTask -> Pointer] /\ NoDuplicates(q) /\ ToSet(q) \subseteq Writers
      /\ Writers \subseteq UserTask
      /\ q # << >> => u # << >> /\ Head(u) = mbData[Head(q)]
  BY BoxTypes, UnsentFacts, WriterFacts DEF Took, Parks
<1>2. d \in [UserTask -> Pointer] /\ \A v \in UserTask : v # Current => d[v] = mbData[v]
  <2>1. Head(b) \in Pointer
    BY <1>1, HeadTailProperties
  <2>2. d = mbData \/ (Current \in UserTask /\ d = [mbData EXCEPT ![Current] = Head(b)])
    BY DEF Took
  <2> QED BY <1>1, <2>1, <2>2
<1>3. Sent[x] = b \o u /\ Readers[x] = p
  BY DEF Sent, Readers
<1>4. Sent[x] # << >> /\ Head(Sent[x]) = Head(b)
  BY <1>1, <1>3, TailOfConcat
<1>5. CASE q = << >>
  <2>1. mbData' = d /\ Changed(x, Tail(b), p, q)
    BY <1>5 DEF Took
  <2>2. Writers' = Writers /\ mailbox'[x].writerQ = q
    BY <2>1, WritersKept
  <2>3. \A v \in Writers : mbData'[v] = mbData[v]
    BY <1>1, <1>2, <2>1
  <2>4. u' = u
    BY <1>1, <2>2, <2>3, UnsentKept
  <2>5. Sent' = [Sent EXCEPT ![x] = Tail(b) \o u'] /\ Readers' = [Readers EXCEPT ![x] = p]
    <3> DEFINE c == Tail(b)
    <3>1. Changed(x, c, p, q)
      BY <2>1
    <3> HIDE DEF c
    <3>2. Sent' = [Sent EXCEPT ![x] = c \o u'] /\ Readers' = [Readers EXCEPT ![x] = p]
      BY <2>3, <3>1, SentChanges
    <3> QED BY <3>2 DEF c
  <2>6. Tail(b) \o u' = Tail(b \o u)
    <3>1. b \in Seq(Pointer) /\ u \in Seq(Pointer) /\ b # << >>
      BY <1>1
    <3> HIDE DEF b, u
    <3>2. Tail(b \o u) = Tail(b) \o u
      BY <3>1, TailOfConcat
    <3> QED BY <2>4, <3>2 DEF b, u
  <2>7. Sent' = [Sent EXCEPT ![x] = Tail(@)] /\ Readers' = Readers
    BY <1>3, <2>5, <2>6 DEF Readers
  <2>8. \A t \in UserTask : Inbox'[t] = IF t \in Writers THEN None ELSE d[t]
    BY <2>1, <2>2 DEF Inbox
  <2> QED BY <1>4, <2>7, <2>8
<1>6. CASE q # << >>
  <2> DEFINE w == Head(q)
             c == Append(Tail(b), d[w])
             r == Tail(q)
  <2>1. mbData' = [d EXCEPT ![w] = None] /\ Changed(x, c, p, r)
    BY <1>6 DEF Took
  <2>2. /\ w \in ToSet(q) /\ w \in Writers /\ w \in UserTask /\ w # Current
        /\ ToSet(r) = ToSet(q) \ {w}
    BY <1>1, <1>6, HeadFacts, TailOnce
  <2>3. d[w] = Head(u) /\ u # << >>
    BY <1>1, <1>2, <1>6, <2>2
  <2>4. mailbox'[x].writerQ = Tail(q)
    BY <2>1 DEF Changed
  <2> HIDE DEF w, c, r
  <2>5. mbData'[w] = None /\ \A v \in UserTask : v # w => mbData'[v] = d[v]
    BY <1>2, <2>1, <2>2
  <2>6. \A v \in Writers : v # w => mbData'[v] = mbData[v]
    BY <1>1, <1>2, <2>5
  <2>7. Writers' = Writers \ {w}
    <3>1. Changed(x, c, p, r)
      BY <2>1
    <3> QED BY <2>2, <3>1, WritersLeave
  <2>8. u' = Tail(u)
    <3>1. \A v \in ToSet(Tail(q)) : mbData'[v] = mbData[v]
      BY <1>1, <2>2, <2>6 DEF r
    <3> QED BY <1>6, <2>4, <3>1, UnsentLeaves
  <2>9. Sent' = [Sent EXCEPT ![x] = c \o u'] /\ Readers' = [Readers EXCEPT ![x] = p]
    <3>1. Changed(x, c, p, r)
      BY <2>1
    <3>2. \A v \in Writers : v \notin ToSet(q) => mbData'[v] = mbData[v]
      BY <2>2, <2>6
    <3> QED BY <3>1, <3>2, SentChanges
  <2>10. c \o u' = Tail(b \o u)
    <3>1. Tail(b \o u) = Append(Tail(b), Head(u)) \o Tail(u)
      <4>1. b \in Seq(Pointer) /\ u \in Seq(Pointer) /\ b # << >> /\ u # << >>
        BY <1>1, <2>3
      <4> HIDE DEF b, u
      <4> QED BY <4>1, TailOfConcat
    <3> QED BY <2>3, <2>8, <3>1 DEF c
  <2>11. Sent' = [Sent EXCEPT ![x] = Tail(@)] /\ Readers' = Readers
    BY <1>3, <2>9, <2>10 DEF Readers
  <2>12. ASSUME NEW t \in UserTask PROVE Inbox'[t] = IF t \in Writers THEN None ELSE d[t]
    <3>1. Inbox'[t] = IF t \in Writers' THEN None ELSE mbData'[t]
      BY DEF Inbox
    <3> QED BY <2>2, <2>5, <2>7, <3>1
  <2> QED BY <1>4, <2>11, <2>12
<1> QED BY <1>5, <1>6

LEMMA TookRefines ==
  ASSUME MailInv, MailQueued, Current \notin Writers, NEW x \in Mailbox, NEW d, Took(x, d)
  PROVE  Messages!Take(x) \/ \E t \in UserTask : Messages!Fetch(x, t)
<1>1. /\ Sent[x] # << >> /\ Head(Sent[x]) = Head(mailbox[x].buffer)
      /\ Sent' = [Sent EXCEPT ![x] = Tail(@)] /\ Readers' = Readers
      /\ \A t \in UserTask : Inbox'[t] = IF t \in Writers THEN None ELSE d[t]
  BY TookLeaves
<1>2. Inbox' = [t \in UserTask |-> Inbox'[t]]
  BY DEF Inbox
<1>3. CASE d = mbData
  <2>1. Inbox' = Inbox
    BY <1>1, <1>2, <1>3 DEF Inbox
  <2> QED BY <1>1, <2>1 DEF Messages!Take, Sent, Readers, Inbox
<1>4. CASE /\ Current \in UserTask /\ mbData[Current] = None
           /\ d = [mbData EXCEPT ![Current] = Head(mailbox[x].buffer)]
  <2>1. mbData \in [UserTask -> Pointer]
    BY BoxTypes
  <2>2. d[Current] = Head(Sent[x]) /\ \A t \in UserTask : t # Current => d[t] = mbData[t]
    BY <1>1, <1>4, <2>1
  <2>3. Inbox' = [Inbox EXCEPT ![Current] = Head(Sent[x])] /\ Inbox[Current] = None
    BY <1>1, <1>2, <1>4, <2>2 DEF Inbox
  <2>4. PICK t \in UserTask : t = Current
    BY <1>4
  <2>5. Inbox' = [Inbox EXCEPT ![t] = Head(Sent[x])] /\ Inbox[t] = None
    BY <2>3, <2>4
  <2>6. Messages!Fetch(x, t)
    BY <1>1, <2>5 DEF Messages!Fetch, Sent, Readers, Inbox
  <2> QED BY <2>6
<1> QED BY <1>3, <1>4 DEF Took

LEMMA MessagesStep ==
  ASSUME MailInv, MailQueued, MailStep
  PROVE  [Messages!Next]_(Messages!vars)
<1>1. CASE mailbox' = mailbox /\ mbData' = mbData
  BY <1>1 DEF Messages!vars, Unsent, Writers
<1>2. ASSUME NEW primitive, Calling(primitive), NotBlocked PROVE Current \notin Writers
  <2>1. Current \notin Parks(rtsys)
    BY <1>2, CallerFacts, MailboxAssumption DEF MailQueued, MailboxAssumption
  <2> QED BY <2>1, WriterFacts
<1>3. ASSUME NEW primitive, Calling(primitive), NotBlocked, NEW x \in Mailbox, Effect(x)
      PROVE  Messages!Next
  <2>1. Current \notin Writers
    BY <1>2, <1>3
  <2>2. CASE ReaderWaits(x)
    <3>1. \E t \in UserTask : Messages!Wait(x, t)
      BY <2>2, ReaderWaitsRefines
    <3> QED BY <3>1 DEF Messages!Next
  <2>3. CASE \E d : Took(x, d)
    <3>1. Messages!Take(x) \/ \E t \in UserTask : Messages!Fetch(x, t)
      BY <2>1, <2>3, TookRefines
    <3> QED BY <3>1 DEF Messages!Next
  <2>4. ASSUME NEW m \in Message, WriterWaits(x, m) \/ Stored(x, m) PROVE Messages!Next
    <3>1. Messages!Store(x, m)
      BY <2>1, <2>4, WriterWaitsRefines, StoredRefines
    <3> QED BY <3>1 DEF Messages!Next
  <2>5. ASSUME NEW m \in Message, Delivered(x, m) PROVE Messages!Next
    <3>1. Messages!Deliver(x, m)
      BY <2>5, DeliveredRefines
    <3> QED BY <3>1 DEF Messages!Next
  <2> QED BY <1>3, <2>2, <2>3, <2>4, <2>5 DEF Effect
<1>4. ASSUME NEW primitive, Calling(primitive), NotBlocked, Current \in UserTask,
             mailbox' = mailbox, mbData' = [mbData EXCEPT ![Current] = None]
      PROVE  Messages!Next
  <2>1. mbData \in [UserTask -> Pointer] /\ Writers \subseteq UserTask /\ Current \notin Writers
    BY <1>2, <1>4, WriterFacts DEF MailInv, Parks
  <2>2. mbData'[Current] = None /\ \A v \in UserTask : v # Current => mbData'[v] = mbData[v]
    BY <1>4, <2>1
  <2>3. \A x \in Mailbox : Unsent(x)' = Unsent(x)
    BY <1>4, <2>1, <2>2, WriterFacts, UnsentKept
  <2>4. Sent' = Sent /\ Readers' = Readers
    BY <1>4, <2>3 DEF Sent, Readers
  <2>5. Writers' = Writers
    BY <1>4 DEF Writers
  <2>6. Inbox' = [Inbox EXCEPT ![Current] = None]
    BY <1>4, <2>1, <2>2, <2>5 DEF Inbox
  <2>7. PICK t \in UserTask : t = Current
    BY <1>4
  <2>8. Inbox' = [Inbox EXCEPT ![t] = None]
    BY <2>6, <2>7
  <2>9. Messages!Retrieve(t)
    BY <2>4, <2>8 DEF Messages!Retrieve, Sent, Readers, Inbox
  <2> QED BY <2>9 DEF Messages!Next
<1> QED BY <1>1, <1>3, <1>4 DEF MailStep, mailVars

LEMMA MailQueuedAtFirst ==
  ASSUME MailInit
  PROVE  MailInv /\ MailQueued
<1>1. MailInv /\ Init
  BY MailInitial DEF MailInit
<1>2. \A y \in DOMAIN WaitingQs : WaitingQs[y] = << >>
  BY DEF MailInit, WaitingQs
<1>3. IInv /\ WaitIn(rtsys, WaitingQs)
  BY <1>1, <1>2, NobodyWaitsAtFirst
<1> QED BY <1>1, <1>3 DEF MailQueued

-----------------------------------------------------------------------------
\* Tasks wait to fetch only at empty mailboxes and to post only at full ones,
\* and never both, and count is the length of the buffer (ttFetch, ttPost,
\* ttTryFetch, ttTryPost).
THEOREM MailboxAccounting == MailSpec => []WaitersMatchBuffer
<1>1. MailInit => MailInv
  BY MailInitial
<1>2. MailInv /\ [MailNext]_<<vars, mailVars>> => MailInv'
  BY MailInvStep
<1>3. MailInv => WaitersMatchBuffer
  BY DEF MailInv, Fits, WaitersMatchBuffer
<1> QED BY <1>1, <1>2, <1>3, PTL DEF MailSpec

\* A task that blocks in ttFetch or ttPost neither keeps its CPU nor gets lost,
\* and one that ttTryPost or ttTryFetch releases is ready although its state is
\* WAITING: each active job is in one ready, time or waiting queue.
THEOREM MailboxQueueing == MailSpec => []MailboxJobsAreQueued
<1>1. MailInit => MailInv /\ MailQueued
  BY MailQueuedAtFirst
<1>2. MailInv /\ MailQueued /\ [MailNext]_<<vars, mailVars>> => MailInv' /\ MailQueued'
  BY MailInvStep, MailStepShape, MailQueuedStep
<1>3. MailQueued => MailboxJobsAreQueued
  BY EveryJobHasAQueue, MailboxAssumption
     DEF MailboxAssumption, MailQueued, MailboxJobsAreQueued
<1> QED BY <1>1, <1>2, <1>3, PTL DEF MailSpec

\* Mailboxes implement FIFO queues of messages: each message that ttPost or
\* ttTryPost accepts is fetched once, in the order of the posts, also when its
\* writer had to wait for room or a reader was already waiting for it.
THEOREM MailboxRefinement == MailSpec => MessagesInOrder
<1>1. MailInit => MailInv /\ MailQueued
  BY MailQueuedAtFirst
<1>2. MailInit => Messages!Init
  <2> SUFFICES ASSUME MailInit PROVE Messages!Init
    OBVIOUS
  <2>1. /\ \A x \in Mailbox : /\ mailbox[x].buffer = << >> /\ mailbox[x].readerQ = << >>
                              /\ mailbox[x].writerQ = << >>
        /\ mbData = [t \in UserTask |-> None] /\ MailInv
    BY MailInitial DEF MailInit
  <2>2. \A x \in Mailbox : mailbox[x].buffer \o Unsent(x) = << >>
    <3> SUFFICES ASSUME NEW x \in Mailbox PROVE mailbox[x].buffer \o Unsent(x) = << >>
      OBVIOUS
    <3>1. Unsent(x) = << >> /\ mailbox[x].buffer = << >>
      BY <2>1, UnsentFacts
    <3> QED BY <3>1
  <2> QED BY <2>1, <2>2 DEF Messages!Init
<1>3. MailInv /\ MailQueued /\ [MailNext]_<<vars, mailVars>>
        => MailInv' /\ MailQueued' /\ [Messages!Next]_(Messages!vars)
  BY MailInvStep, MailStepShape, MailQueuedStep, MessagesStep
<1> QED BY <1>1, <1>2, <1>3, PTL DEF MailSpec, MessagesInOrder, Messages!Spec
=============================================================================
