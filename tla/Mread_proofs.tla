---------------------------- MODULE Mread_proofs ----------------------------
(***************************************************************************)
(* Proofs about mread and bulkcmd for every size of the upload and of the  *)
(* chunks and every number of polls.                                       *)
(***************************************************************************)
EXTENDS Mread, Progress, SequenceTheorems, TLAPS

\* The values of the variables.
Packets == Replies \cup {Data(k) : k \in Nat}

TypeInv ==
    /\ dev \in {"idle", "command", "upload"} /\ next \in Nat /\ keeps \in BOOLEAN
    /\ pipe \in Seq(Packets) /\ out \in Seq(Packets)
    /\ cmd \in {"mread", "bulkcmd"} /\ size \in 1 .. MaxSize /\ saving \in BOOLEAN
    /\ remain \in 0 .. size /\ bufferLen \in 0 .. MaxSize
    /\ pc \in {"start", "poll", "ReadMediaFile", "chunk", "read", "exit"}
    /\ unseen \subseteq {"stale", "fwrite"}

\* What the program has done where it stands.
PlaceInv ==
    /\ pc \in {"ReadMediaFile", "chunk", "read"} => cmd = "mread"
    /\ pc \in {"start", "poll", "ReadMediaFile"} => out = <<>>
    /\ pc \in {"start", "poll"} => unseen = {}
    /\ pc = "ReadMediaFile" \/ cmd = "bulkcmd" => unseen \subseteq {"stale"}
    /\ pc # "exit" => ret = 1
    /\ pc = "read" => bufferLen \in 1 .. remain
    /\ pc = "start" => dev = "idle"
    /\ dev = "upload" => cmd = "mread"
    /\ ~saving => out = <<>>

\* Before the first chunk there are replies in the pipe and no data.  While the
\* program polls, the final reply to its own text is the last of them, and the device
\* has done with the text when it is there; a reply of an earlier run can only be
\* there with a device that keeps it.
ReplyInv ==
    pc \in {"start", "poll", "ReadMediaFile"} =>
        /\ next = 0
        /\ \A k \in 1 .. Len(pipe) :
              /\ pipe[k] \in Replies
              /\ pc = "poll" /\ ~keeps => pipe[k].now
              /\ pc = "start" => ~pipe[k].now
              /\ pc = "poll" /\ pipe[k].now /\ pipe[k].text # "Continue:34" =>
                    /\ k = Len(pipe) /\ dev # "command"
                    /\ pipe[k].text = "success" /\ cmd = "mread" => dev = "upload"

\* When the reply that let mread go on was its own, file and pipe together are the
\* upload as far as the device has sent it.
CleanInv ==
    pc \in {"ReadMediaFile", "chunk", "read"} /\ "stale" \notin unseen =>
        /\ dev = "upload"
        /\ pc = "ReadMediaFile" => pipe = <<>>
        /\ saving /\ "fwrite" \notin unseen =>
              /\ pc # "ReadMediaFile" => Len(out) = size - remain
              /\ Len(out) + Len(pipe) = next
              /\ \A k \in 1 .. Len(out) : out[k] = Data(k - 1)
              /\ \A k \in 1 .. Len(pipe) : pipe[k] = Data(Len(out) + k - 1)

\* The packets of the upload in s are the first n, in order.
Ordered(s, n) ==
    /\ Unbroken(s)
    /\ \A k \in 1 .. Len(s) : IsData(s[k]) => s[k].data \in 0 .. n - 1
    /\ \A d \in 0 .. n - 1 : \E k \in 1 .. Len(s) : s[k] = Data(d)

\* In any case file and pipe together hold the packets the device has sent, in order,
\* with replies between them.
StreamInv ==
    pc \in {"chunk", "read"} /\ saving /\ "fwrite" \notin unseen => Ordered(out \o pipe, next)

\* The inductive invariant.
IInv ==
    /\ TypeInv /\ PlaceInv /\ ReplyInv /\ CleanInv /\ StreamInv
    /\ SuccessMeansRead /\ DataInOrder /\ AnsweredForItself

-----------------------------------------------------------------------------
\* A reply is not data, and data is known by its number.
LEMMA PacketKinds ==
    /\ \A r \in Replies : ~ IsData(r)
    /\ \A k \in Nat : IsData(Data(k)) /\ Data(k).data = k /\ Data(k) \in Packets
<1>1. ASSUME NEW r \in Replies PROVE ~ IsData(r)
  <2>1. DOMAIN r = {"text", "now", "short"}
    BY DEF Replies
  <2>2. "text" \notin {"data"}
    OBVIOUS
  <2> QED  BY <2>1, <2>2 DEF IsData
<1>2. ASSUME NEW k \in Nat PROVE IsData(Data(k)) /\ Data(k).data = k /\ Data(k) \in Packets
  <2>1. DOMAIN [data |-> k] = {"data"}
    OBVIOUS
  <2> QED  BY <2>1 DEF IsData, Data, Packets
<1> QED  BY <1>1, <1>2

LEMMA ReplyType ==
    ASSUME NEW t \in Texts, NEW n \in BOOLEAN, NEW s \in BOOLEAN
    PROVE  /\ Reply(t, n, s) \in Replies /\ Reply(t, n, s) \in Packets
           /\ Reply(t, n, s).text = t /\ Reply(t, n, s).now = n
BY DEF Reply, Replies, Packets

\* Appending replies keeps the order,
LEMMA RepliesKeepOrder ==
    ASSUME NEW s \in Seq(Packets), NEW t \in Seq(Packets), NEW n \in Nat, Ordered(s, n),
           Len(t) >= Len(s),
           \A k \in 1 .. Len(s) : t[k] = s[k],
           \A k \in Len(s) + 1 .. Len(t) : ~ IsData(t[k])
    PROVE  Ordered(t, n)
<1>1. Len(s) \in Nat /\ Len(t) \in Nat
  BY LenProperties
<1>2. \A k \in 1 .. Len(t) : IsData(t[k]) => k \in 1 .. Len(s) /\ t[k] = s[k]
  BY <1>1
<1>3. ASSUME NEW k \in 1 .. Len(s) PROVE k \in 1 .. Len(t) /\ \A j \in 1 .. k - 1 : j \in 1 .. Len(s)
  BY <1>1
<1>4. Unbroken(t)
  <2> SUFFICES ASSUME NEW k \in 1 .. Len(t), IsData(t[k])
               PROVE  /\ \A j \in 1 .. k - 1 : IsData(t[j]) => t[j].data < t[k].data
                      /\ \A d \in 0 .. t[k].data - 1 : \E j \in 1 .. k - 1 : t[j] = Data(d)
    BY DEF Unbroken
  <2>1. k \in 1 .. Len(s) /\ t[k] = s[k] /\ \A j \in 1 .. k - 1 : t[j] = s[j]
    BY <1>2, <1>3
  <2>2. /\ \A j \in 1 .. k - 1 : IsData(s[j]) => s[j].data < s[k].data
        /\ \A d \in 0 .. s[k].data - 1 : \E j \in 1 .. k - 1 : s[j] = Data(d)
    BY <2>1 DEF Ordered, Unbroken
  <2> QED  BY <2>1, <2>2
<1>5. \A k \in 1 .. Len(t) : IsData(t[k]) => t[k].data \in 0 .. n - 1
  BY <1>2 DEF Ordered
<1>6. \A d \in 0 .. n - 1 : \E k \in 1 .. Len(t) : t[k] = Data(d)
  BY <1>3 DEF Ordered
<1> QED  BY <1>4, <1>5, <1>6 DEF Ordered

\* and so do the next packets of the upload.
LEMMA DataKeepOrder ==
    ASSUME NEW s \in Seq(Packets), NEW t \in Seq(Packets), NEW n \in Nat, Ordered(s, n),
           NEW m \in Nat, Len(t) = Len(s) + m,
           \A k \in 1 .. Len(s) : t[k] = s[k],
           \A k \in 1 .. m : t[Len(s) + k] = Data(n + k - 1)
    PROVE  Ordered(t, n + m)
<1>1. PICK l \in Nat : l = Len(s)
  BY LenProperties
<1>2. ASSUME NEW k \in 1 .. l + m
      PROVE  \/ k \in 1 .. l /\ t[k] = s[k]
             \/ \E i \in 1 .. m : k = l + i /\ t[k] = Data(n + i - 1)
  <2>1. CASE k <= l
    BY <1>1, <2>1
  <2>2. CASE k > l
    <3>1. PICK i \in 1 .. m : k = l + i
      <4>1. k - l \in 1 .. m /\ k = l + (k - l)
        BY <2>2
      <4> QED  BY <4>1
    <3> QED  BY <1>1, <3>1
  <2> QED  BY <2>1, <2>2
<1>3. ASSUME NEW i \in 1 .. m
      PROVE  IsData(Data(n + i - 1)) /\ Data(n + i - 1).data = n + i - 1
  <2>1. n + i - 1 \in Nat
    OBVIOUS
  <2> QED  BY <2>1, PacketKinds
<1>4. \A d \in 0 .. n - 1 : \E k \in 1 .. l : t[k] = Data(d)
  BY <1>1 DEF Ordered
<1>5. \A i \in 1 .. m : t[l + i] = Data(n + i - 1)
  BY <1>1
<1>6. Unbroken(t)
  <2> SUFFICES ASSUME NEW k \in 1 .. l + m, IsData(t[k])
               PROVE  /\ \A j \in 1 .. k - 1 : IsData(t[j]) => t[j].data < t[k].data
                      /\ \A d \in 0 .. t[k].data - 1 : \E j \in 1 .. k - 1 : t[j] = Data(d)
    BY <1>1 DEF Unbroken
  <2>1. CASE k \in 1 .. l /\ t[k] = s[k]
    <3>1. \A j \in 1 .. k - 1 : t[j] = s[j]
      BY <1>1, <2>1
    <3>2. /\ \A j \in 1 .. k - 1 : IsData(s[j]) => s[j].data < s[k].data
          /\ \A d \in 0 .. s[k].data - 1 : \E j \in 1 .. k - 1 : s[j] = Data(d)
      BY <1>1, <2>1 DEF Ordered, Unbroken
    <3> QED  BY <2>1, <3>1, <3>2
  <2>2. ASSUME NEW i \in 1 .. m, k = l + i, t[k] = Data(n + i - 1)
        PROVE  /\ \A j \in 1 .. k - 1 : IsData(t[j]) => t[j].data < t[k].data
               /\ \A d \in 0 .. t[k].data - 1 : \E j \in 1 .. k - 1 : t[j] = Data(d)
    <3>1. t[k].data = n + i - 1
      BY <1>3, <2>2
    <3>2. ASSUME NEW j \in 1 .. k - 1, IsData(t[j]) PROVE t[j].data < n + i - 1
      <4>1. CASE j \in 1 .. l /\ t[j] = s[j]
        <5>1. s[j].data \in 0 .. n - 1
          BY <1>1, <3>2, <4>1 DEF Ordered
        <5>2. t[j].data \in 0 .. n - 1
          BY <4>1, <5>1
        <5> QED  BY <5>2
      <4>2. ASSUME NEW h \in 1 .. m, j = l + h, t[j] = Data(n + h - 1)
            PROVE  t[j].data < n + i - 1
        <5>1. t[j].data = n + h - 1
          BY <1>3, <4>2
        <5> QED  BY <2>2, <4>2, <5>1
      <4>3. j \in 1 .. l + m
        OBVIOUS
      <4> QED  BY <1>2, <4>1, <4>2, <4>3
    <3>3. ASSUME NEW d \in 0 .. n + i - 2 PROVE \E j \in 1 .. k - 1 : t[j] = Data(d)
      <4>1. CASE d < n
        <5>0. d \in 0 .. n - 1
          BY <4>1
        <5>1. PICK j \in 1 .. l : t[j] = Data(d)
          BY <1>4, <5>0
        <5> QED  BY <2>2, <5>1
      <4>2. CASE d >= n
        <5>1. PICK h \in 1 .. i - 1 : d = n + h - 1
          <6>1. d - n + 1 \in 1 .. i - 1 /\ d = n + (d - n + 1) - 1
            BY <4>2
          <6> QED  BY <6>1
        <5>2. h \in 1 .. m /\ l + h \in 1 .. k - 1
          BY <2>2
        <5>3. t[l + h] = Data(d)
          BY <1>5, <5>1, <5>2
        <5> QED  BY <5>2, <5>3
      <4> QED  BY <4>1, <4>2
    <3> QED  BY <3>1, <3>2, <3>3
  <2> QED  BY <1>2, <2>1, <2>2
<1>7. ASSUME NEW k \in 1 .. l + m, IsData(t[k]) PROVE t[k].data \in 0 .. n + m - 1
  <2>1. CASE k \in 1 .. l /\ t[k] = s[k]
    <3>1. s[k].data \in 0 .. n - 1
      BY <1>1, <1>7, <2>1 DEF Ordered
    <3> QED  BY <2>1, <3>1
  <2>2. ASSUME NEW i \in 1 .. m, t[k] = Data(n + i - 1) PROVE t[k].data \in 0 .. n + m - 1
    <3>1. t[k].data = n + i - 1
      BY <1>3, <2>2
    <3> QED  BY <3>1
  <2> QED  BY <1>2, <2>1, <2>2
<1>8. ASSUME NEW d \in 0 .. n + m - 1 PROVE \E k \in 1 .. l + m : t[k] = Data(d)
  <2>1. CASE d < n
    <3>1. PICK j \in 1 .. l : t[j] = Data(d)
      BY <1>4, <2>1
    <3> QED  BY <3>1
  <2>2. CASE d >= n
    <3>1. PICK h \in 1 .. m : d = n + h - 1
      <4>1. d - n + 1 \in 1 .. m /\ d = n + (d - n + 1) - 1
        BY <2>2
      <4> QED  BY <4>1
    <3>2. l + h \in 1 .. l + m
      OBVIOUS
    <3>3. t[l + h] = Data(d)
      BY <1>5, <3>1
    <3> QED  BY <3>2, <3>3
  <2> QED  BY <2>1, <2>2
<1> QED  BY <1>1, <1>6, <1>7, <1>8 DEF Ordered

\* A prefix of an unbroken sequence is unbroken.
LEMMA PrefixUnbroken ==
    ASSUME NEW s \in Seq(Packets), NEW t \in Seq(Packets), Unbroken(s), Len(t) <= Len(s),
           \A k \in 1 .. Len(t) : t[k] = s[k]
    PROVE  Unbroken(t)
<1> SUFFICES ASSUME NEW k \in 1 .. Len(t), IsData(t[k])
             PROVE  /\ \A j \in 1 .. k - 1 : IsData(t[j]) => t[j].data < t[k].data
                    /\ \A d \in 0 .. t[k].data - 1 : \E j \in 1 .. k - 1 : t[j] = Data(d)
  BY DEF Unbroken
<1>1. Len(s) \in Nat /\ Len(t) \in Nat
  BY LenProperties
<1>2. k \in 1 .. Len(s) /\ t[k] = s[k] /\ \A j \in 1 .. k - 1 : t[j] = s[j]
  BY <1>1
<1>3. /\ \A j \in 1 .. k - 1 : IsData(s[j]) => s[j].data < s[k].data
      /\ \A d \in 0 .. s[k].data - 1 : \E j \in 1 .. k - 1 : s[j] = Data(d)
  BY <1>2 DEF Unbroken
<1> QED  BY <1>2, <1>3

\* A sequence without data is in order before any is sent.
LEMMA NoDataOrdered ==
    ASSUME NEW s \in Seq(Packets), \A k \in 1 .. Len(s) : ~ IsData(s[k])
    PROVE  Ordered(s, 0)
BY DEF Ordered, Unbroken

-----------------------------------------------------------------------------
\* A sequence of one packet.
LEMMA OnePacket ==
    ASSUME NEW r \in Packets, NEW s, s = <<r>>
    PROVE  s \in Seq(Packets) /\ Len(s) = 1 /\ s[1] = r
OBVIOUS

\* Before the program does anything the invariant holds.
LEMMA InitInv == Init => IInv
<1> SUFFICES ASSUME Init PROVE IInv
  OBVIOUS
<1>1. pipe = <<>> \/ \E r \in Replies : ~ r.now /\ pipe = <<r>>
  BY DEF Init
<1>2. /\ pipe \in Seq(Packets)
      /\ \A k \in 1 .. Len(pipe) : pipe[k] \in Replies /\ ~ pipe[k].now
  <2>1. CASE pipe = <<>>
    BY <2>1, EmptySeq
  <2>2. ASSUME NEW r \in Replies, ~ r.now, pipe = <<r>>
        PROVE  /\ pipe \in Seq(Packets)
               /\ \A k \in 1 .. Len(pipe) : pipe[k] \in Replies /\ ~ pipe[k].now
    <3>1. r \in Packets
      BY DEF Packets
    <3>2. pipe \in Seq(Packets) /\ Len(pipe) = 1 /\ pipe[1] = r
      BY <2>2, <3>1, OnePacket
    <3>3. \A k \in 1 .. Len(pipe) : pipe[k] = r
      BY <3>2
    <3> QED  BY <2>2, <3>2, <3>3
  <2> QED  BY <1>1, <2>1, <2>2
<1>3. out \in Seq(Packets)
  BY EmptySeq DEF Init
<1>4. TypeInv
  BY <1>2, <1>3, MreadAssumption DEF Init, TypeInv
<1>5. PlaceInv
  BY DEF Init, PlaceInv
<1>6. ReplyInv
  BY <1>2 DEF Init, ReplyInv
<1>7. CleanInv /\ StreamInv /\ SuccessMeansRead /\ AnsweredForItself
  BY DEF Init, CleanInv, StreamInv, SuccessMeansRead, AnsweredForItself
<1>8. DataInOrder
  BY DEF Init, DataInOrder, Unbroken
<1> QED  BY <1>4, <1>5, <1>6, <1>7, <1>8 DEF IInv

\* A reply that arrives is the last packet of the pipe.
LEMMA ReplyArrives ==
    ASSUME TypeInv, NEW r \in Replies, pipe' = Append(pipe, r)
    PROVE  /\ pipe' \in Seq(Packets) /\ Len(pipe') = Len(pipe) + 1
           /\ \A k \in 1 .. Len(pipe) : pipe'[k] = pipe[k]
           /\ pipe'[Len(pipe) + 1] = r
BY DEF TypeInv, Packets

\* What is behind p in q is behind o and p in o and q.
LEMMA StreamGrows ==
    ASSUME NEW o \in Seq(Packets), NEW p \in Seq(Packets), NEW q \in Seq(Packets), NEW m \in Nat,
           Len(q) = Len(p) + m, \A k \in 1 .. Len(p) : q[k] = p[k]
    PROVE  /\ o \o p \in Seq(Packets) /\ o \o q \in Seq(Packets)
           /\ Len(o \o q) = Len(o \o p) + m
           /\ \A k \in 1 .. Len(o \o p) : (o \o q)[k] = (o \o p)[k]
           /\ \A k \in 1 .. m : (o \o q)[Len(o \o p) + k] = q[Len(p) + k]
<1> DEFINE s == o \o p
           t == o \o q
<1>1. PICK a \in Nat, b \in Nat : a = Len(o) /\ b = Len(p)
  BY LenProperties
<1>2. /\ s \in Seq(Packets) /\ Len(s) = a + b
      /\ \A k \in 1 .. a + b : s[k] = IF k <= a THEN o[k] ELSE p[k - a]
  BY <1>1, ConcatProperties
<1>3. t \in Seq(Packets) /\ Len(t) = a + b + m
  <2>1. t \in Seq(Packets) /\ Len(t) = Len(o) + Len(q)
    BY ConcatProperties
  <2> QED  BY <1>1, <2>1
<1>4. \A k \in 1 .. a + b + m : t[k] = IF k <= a THEN o[k] ELSE q[k - a]
  <2>1. \A k \in 1 .. Len(o) + Len(q) : t[k] = IF k <= Len(o) THEN o[k] ELSE q[k - Len(o)]
    BY ConcatProperties
  <2>2. Len(o) + Len(q) = a + b + m
    BY <1>1
  <2> QED  BY <1>1, <2>1, <2>2
<1> HIDE DEF s, t
<1>5. ASSUME NEW k \in 1 .. a + b PROVE t[k] = s[k]
  <2>1. k \in 1 .. a + b + m
    OBVIOUS
  <2>2. /\ t[k] = IF k <= a THEN o[k] ELSE q[k - a]
        /\ s[k] = IF k <= a THEN o[k] ELSE p[k - a]
    BY <1>2, <1>4, <2>1
  <2>3. CASE k <= a
    BY <2>2, <2>3, Zenon
  <2>4. CASE ~ (k <= a)
    <3>1. k - a \in 1 .. b
      BY <2>4
    <3>2. q[k - a] = p[k - a]
      BY <1>1, <3>1
    <3> QED  BY <2>2, <2>4, <3>2, Zenon
  <2> QED  BY <2>3, <2>4
<1>6. ASSUME NEW k \in 1 .. m PROVE t[a + b + k] = q[b + k]
  <2>1. PICK e \in 1 .. a + b + m : e = a + b + k /\ ~ (e <= a) /\ e - a = b + k
    OBVIOUS
  <2>2. t[e] = IF e <= a THEN o[e] ELSE q[e - a]
    BY <1>4, Zenon
  <2> QED  BY <2>1, <2>2, Zenon
<1>7. /\ s \in Seq(Packets) /\ t \in Seq(Packets) /\ Len(t) = Len(s) + m
      /\ \A k \in 1 .. Len(s) : t[k] = s[k]
      /\ \A k \in 1 .. m : t[Len(s) + k] = q[Len(p) + k]
  BY <1>1, <1>2, <1>3, <1>5, <1>6
<1> QED  BY <1>7 DEF s, t

\* The reply is the last packet of file and pipe too,
LEMMA ReplyJoinsStream ==
    ASSUME TypeInv, NEW r \in Replies, pipe' = Append(pipe, r), NEW n \in Nat,
           Ordered(out \o pipe, n)
    PROVE  Ordered(out \o pipe', n)
<1>1. /\ pipe' \in Seq(Packets) /\ Len(pipe') = Len(pipe) + 1
      /\ \A k \in 1 .. Len(pipe) : pipe'[k] = pipe[k]
      /\ pipe'[Len(pipe) + 1] = r
  BY ReplyArrives
<1>2. out \in Seq(Packets) /\ pipe \in Seq(Packets)
  BY DEF TypeInv
<1> DEFINE s == out \o pipe
           t == out \o pipe'
<1>3. /\ s \in Seq(Packets) /\ t \in Seq(Packets) /\ Len(t) = Len(s) + 1
      /\ \A k \in 1 .. Len(s) : t[k] = s[k]
      /\ \A k \in 1 .. 1 : t[Len(s) + k] = pipe'[Len(pipe) + k]
  BY <1>1, <1>2, StreamGrows
<1>4. Ordered(s, n)
  OBVIOUS
<1> HIDE DEF s, t
<1>5. Len(s) \in Nat
  BY <1>3, LenProperties
<1>6. t[Len(s) + 1] = r
  BY <1>1, <1>3
<1>7. ASSUME NEW k \in Len(s) + 1 .. Len(t) PROVE ~ IsData(t[k])
  <2>1. k = Len(s) + 1
    BY <1>3, <1>5
  <2> QED  BY <1>6, <2>1, PacketKinds
<1>8. Ordered(t, n)
  <2>1. Len(t) >= Len(s)
    BY <1>3, <1>5
  <2> QED  BY <1>3, <1>4, <1>7, <2>1, RepliesKeepOrder
<1> QED  BY <1>8 DEF t

\* and data the device sends follows what it has sent before.
LEMMA DataArrives ==
    ASSUME TypeInv, NEW m \in Nat, pipe' = pipe \o [k \in 1 .. m |-> Data(next + k - 1)]
    PROVE  /\ pipe' \in Seq(Packets) /\ Len(pipe') = Len(pipe) + m
           /\ \A k \in 1 .. Len(pipe) : pipe'[k] = pipe[k]
           /\ \A k \in 1 .. m : pipe'[Len(pipe) + k] = Data(next + k - 1)
           /\ Ordered(out \o pipe, next) => Ordered(out \o pipe', next + m)
<1> DEFINE c == [k \in 1 .. m |-> Data(next + k - 1)]
<1>1. pipe \in Seq(Packets) /\ out \in Seq(Packets) /\ next \in Nat
  BY DEF TypeInv
<1>2. c \in Seq(Packets) /\ Len(c) = m /\ \A k \in 1 .. m : c[k] = Data(next + k - 1)
  <2>1. ASSUME NEW k \in 1 .. m PROVE Data(next + k - 1) \in Packets
    <3>1. next + k - 1 \in Nat
      BY <1>1
    <3> QED  BY <3>1, PacketKinds
  <2>2. c \in [1 .. m -> Packets]
    BY <2>1
  <2> QED  BY <2>2
<1>3. pipe' = pipe \o c
  OBVIOUS
<1> HIDE DEF c
<1>4. <<>> \in Seq(Packets) /\ Len(<<>>) = 0
  BY EmptySeq
<1>5. PICK p \in Nat : p = Len(pipe)
  BY <1>1, LenProperties
<1>6. /\ pipe' \in Seq(Packets) /\ Len(pipe') = p + m
      /\ \A k \in 1 .. p + m : pipe'[k] = IF k <= p THEN pipe[k] ELSE c[k - p]
  <2>1. /\ pipe \o c \in Seq(Packets) /\ Len(pipe \o c) = Len(pipe) + Len(c)
        /\ \A k \in 1 .. Len(pipe) + Len(c) :
              (pipe \o c)[k] = IF k <= Len(pipe) THEN pipe[k] ELSE c[k - Len(pipe)]
    BY <1>1, <1>2, ConcatProperties
  <2>2. Len(pipe) = p /\ Len(c) = m
    BY <1>2, <1>5
  <2> QED  BY <1>3, <2>1, <2>2
<1>7. \A k \in 1 .. p : pipe'[k] = pipe[k]
  <2> TAKE k \in 1 .. p
  <2>1. k \in 1 .. p + m /\ k <= p
    OBVIOUS
  <2>2. pipe'[k] = IF k <= p THEN pipe[k] ELSE c[k - p]
    BY <1>6, <2>1
  <2> QED  BY <2>1, <2>2, Zenon
<1>8. \A k \in 1 .. m : pipe'[p + k] = Data(next + k - 1)
  <2> TAKE k \in 1 .. m
  <2>1. PICK e \in 1 .. p + m : e = p + k /\ ~ (e <= p) /\ e - p = k
    OBVIOUS
  <2>2. pipe'[e] = IF e <= p THEN pipe[e] ELSE c[e - p]
    BY <1>6, Zenon
  <2>3. pipe'[p + k] = c[k]
    BY <2>1, <2>2, Zenon
  <2> QED  BY <1>2, <2>3
<1>9. ASSUME Ordered(out \o pipe, next) PROVE Ordered(out \o pipe', next + m)
  <2> DEFINE s == out \o pipe
             t == out \o pipe'
  <2>1. /\ s \in Seq(Packets) /\ t \in Seq(Packets) /\ Len(t) = Len(s) + m
        /\ \A k \in 1 .. Len(s) : t[k] = s[k]
        /\ \A k \in 1 .. m : t[Len(s) + k] = pipe'[Len(pipe) + k]
    BY <1>1, <1>5, <1>6, <1>7, StreamGrows
  <2>2. Ordered(s, next)
    BY <1>9
  <2> HIDE DEF s, t
  <2>3. \A k \in 1 .. m : t[Len(s) + k] = Data(next + k - 1)
    BY <1>5, <1>8, <2>1
  <2>4. Ordered(t, next + m)
    BY <1>1, <2>1, <2>2, <2>3, DataKeepOrder
  <2> QED  BY <2>4 DEF t
<1> QED  BY <1>5, <1>6, <1>7, <1>8, <1>9

-----------------------------------------------------------------------------
\* A step of the device, busy or done, puts a reply to this command into the pipe.
LEMMA DeviceReplies ==
    ASSUME IInv, dev = "command", NEW r \in Replies, r.now, pipe' = Append(pipe, r),
           UNCHANGED <<next, keeps, argvars, remain, pc, polls, bufferLen, out, ret, unseen>>,
           \/ dev' = "command" /\ r.text = "Continue:34"
           \/ /\ dev' \in {"upload", "idle"}
              /\ dev' = "upload" => cmd = "mread"
              /\ r.text = "success" /\ cmd = "mread" => dev' = "upload"
    PROVE  IInv'
<1>1. TypeInv /\ PlaceInv /\ ReplyInv /\ CleanInv /\ StreamInv
  BY DEF IInv
<1>2. UNCHANGED <<cmd, size, saving>>
  BY DEF argvars
<1>3. /\ pipe' \in Seq(Packets) /\ Len(pipe') = Len(pipe) + 1
      /\ \A k \in 1 .. Len(pipe) : pipe'[k] = pipe[k]
      /\ pipe'[Len(pipe) + 1] = r
  BY <1>1, ReplyArrives
<1>4. TypeInv'
  BY <1>1, <1>2, <1>3 DEF TypeInv
<1>5. PlaceInv'
  BY <1>1, <1>2 DEF PlaceInv
<1>6. ReplyInv'
  <2>1. pc # "start"
    BY <1>1 DEF PlaceInv
  <2> SUFFICES ASSUME pc \in {"poll", "ReadMediaFile"}, NEW k \in 1 .. Len(pipe')
               PROVE  /\ pipe'[k] \in Replies
                      /\ pc = "poll" /\ ~keeps => pipe'[k].now
                      /\ pc = "poll" /\ pipe'[k].now /\ pipe'[k].text # "Continue:34" =>
                            /\ k = Len(pipe') /\ dev' # "command"
                            /\ pipe'[k].text = "success" /\ cmd = "mread" => dev' = "upload"
    BY <1>1, <1>2, <2>1 DEF ReplyInv
  <2>2. Len(pipe) \in Nat
    BY <1>1, LenProperties DEF TypeInv
  <2>3. CASE k = Len(pipe) + 1
    BY <1>3, <2>3
  <2>4. CASE k \in 1 .. Len(pipe)
    <3>1. /\ pipe[k] \in Replies
          /\ pc = "poll" /\ ~keeps => pipe[k].now
          /\ pc = "poll" => ~ (pipe[k].now /\ pipe[k].text # "Continue:34")
      BY <1>1, <2>4 DEF ReplyInv
    <3> QED  BY <1>3, <2>4, <3>1
  <2> QED  BY <1>3, <2>2, <2>3, <2>4
<1>7. CleanInv'
  BY <1>1 DEF CleanInv
<1>8. StreamInv'
  BY <1>1, <1>2, ReplyJoinsStream DEF StreamInv, TypeInv
<1>9. SuccessMeansRead' /\ DataInOrder'
  BY <1>2 DEF IInv, SuccessMeansRead, DataInOrder, Unbroken, Upload
<1>10. AnsweredForItself'
  BY <1>1, <1>2 DEF IInv, AnsweredForItself, TypeInv, PlaceInv
<1> QED  BY <1>4, <1>5, <1>6, <1>7, <1>8, <1>9, <1>10 DEF IInv

LEMMA DeviceInv == ASSUME IInv, Device PROVE IInv'
<1>1. UNCHANGED <<argvars, remain, pc, polls, bufferLen, out, ret, unseen>>
  BY DEF Device
<1>2. ASSUME NEW s \in BOOLEAN, DevBusy(s) PROVE IInv'
  <2>1. PICK r \in Replies : r = Reply("Continue:34", TRUE, s) /\ r.now /\ r.text = "Continue:34"
    BY ReplyType DEF Texts
  <2> QED  BY <1>1, <1>2, <2>1, DeviceReplies DEF DevBusy
<1>3. ASSUME NEW s \in BOOLEAN, NEW good \in BOOLEAN, DevAnswer(good, s) PROVE IInv'
  <2>1. PICK t \in Texts : t = IF good THEN "success" ELSE "failed"
    BY DEF Texts
  <2>2. PICK r \in Replies : r = Reply(t, TRUE, s) /\ r.now /\ r.text = t
    BY ReplyType
  <2>3. /\ dev = "command" /\ pipe' = Append(pipe, r) /\ UNCHANGED <<next, keeps>>
        /\ dev' = IF good /\ cmd = "mread" THEN "upload" ELSE "idle"
    BY <1>3, <2>1, <2>2 DEF DevAnswer, Answered
  <2>4. /\ dev' \in {"upload", "idle"}
        /\ dev' = "upload" => cmd = "mread"
        /\ r.text = "success" /\ cmd = "mread" => dev' = "upload"
    BY <2>1, <2>2, <2>3
  <2> QED  BY <1>1, <2>2, <2>3, <2>4, DeviceReplies
<1> QED  BY <1>2, <1>3 DEF Device

-----------------------------------------------------------------------------
\* The program gives up: with another code than 0 it promises nothing but the order of
\* what is in the file.
LEMMA GivesUpInv ==
    ASSUME IInv, pc # "exit", pc' = "exit", ret' # 0, pipe' \in Seq(Packets),
           dev' \in {"idle", "command", "upload"}, dev' = "upload" => cmd = "mread",
           next' \in Nat, UNCHANGED <<keeps, argvars, remain, bufferLen, out, unseen>>
    PROVE  IInv'
<1>1. TypeInv /\ PlaceInv
  BY DEF IInv
<1>2. UNCHANGED <<cmd, size, saving>>
  BY DEF argvars
<1>3. TypeInv' /\ PlaceInv'
  BY <1>1, <1>2 DEF TypeInv, PlaceInv
<1>4. ReplyInv' /\ CleanInv' /\ StreamInv' /\ SuccessMeansRead' /\ AnsweredForItself'
  BY DEF ReplyInv, CleanInv, StreamInv, SuccessMeansRead, AnsweredForItself
<1>5. DataInOrder'
  BY DEF IInv, DataInOrder, Unbroken
<1> QED  BY <1>3, <1>4, <1>5 DEF IInv

\* What reaches the device, and what the device then sends, keeps the types.
LEMMA DeviceTypes ==
    ASSUME TypeInv, PlaceInv,
           \/ AcceptText
           \/ \E n \in Nat : AcceptRead(n)
           \/ \E n \in Nat : Received(n)
           \/ UNCHANGED devvars
           \/ TakeReply
    PROVE  /\ pipe' \in Seq(Packets) /\ next' \in Nat /\ keeps' = keeps
           /\ dev' \in {"idle", "command", "upload"}
           /\ dev' = "upload" => cmd = "mread"
<1>1. /\ pipe \in Seq(Packets) /\ next \in Nat /\ dev \in {"idle", "command", "upload"}
      /\ dev = "upload" => cmd = "mread"
  BY DEF TypeInv, PlaceInv
<1>2. CASE AcceptText
  BY <1>1, <1>2, EmptySeq DEF AcceptText
<1>3. ASSUME NEW n \in Nat, AcceptRead(n)
      PROVE  /\ pipe' \in Seq(Packets) /\ next' \in Nat /\ keeps' = keeps
             /\ dev' \in {"idle", "command", "upload"}
             /\ dev' = "upload" => cmd = "mread"
  <2>1. ASSUME dev = "upload", UNCHANGED <<dev, keeps>>, NEW m \in 0 .. n,
               pipe' = pipe \o [k \in 1 .. m |-> Data(next + k - 1)], next' = next + m
        PROVE  pipe' \in Seq(Packets) /\ next' \in Nat
    <3>1. m \in Nat
      OBVIOUS
    <3>2. pipe' \in Seq(Packets)
      BY <2>1, <3>1, DataArrives
    <3>3. next + m \in Nat
      BY <1>1, <3>1
    <3> QED  BY <2>1, <3>2, <3>3
  <2>2. ASSUME NEW good \in BOOLEAN, NEW s \in BOOLEAN, Answered(good, s), UNCHANGED <<next, keeps>>
        PROVE  /\ pipe' \in Seq(Packets) /\ next' \in Nat /\ keeps' = keeps
               /\ dev' \in {"idle", "command", "upload"}
               /\ dev' = "upload" => cmd = "mread"
    <3>1. PICK t \in Texts : t = IF good THEN "success" ELSE "failed"
      BY DEF Texts
    <3>2. PICK r \in Replies : r = Reply(t, TRUE, s)
      BY ReplyType
    <3>3. pipe' = Append(pipe, r) /\ dev' = IF good /\ cmd = "mread" THEN "upload" ELSE "idle"
      BY <2>2, <3>1, <3>2 DEF Answered
    <3>4. pipe' \in Seq(Packets)
      BY <3>3, ReplyArrives
    <3> QED  BY <1>1, <2>2, <3>3, <3>4
  <2>3. ASSUME UNCHANGED devvars
        PROVE  /\ pipe' \in Seq(Packets) /\ next' \in Nat /\ keeps' = keeps
               /\ dev' \in {"idle", "command", "upload"}
               /\ dev' = "upload" => cmd = "mread"
    BY <1>1, <2>3 DEF devvars
  <2> QED  BY <1>1, <1>3, <2>1, <2>2, <2>3 DEF AcceptRead
<1>4. ASSUME NEW n \in Nat, Received(n)
      PROVE  /\ pipe' \in Seq(Packets) /\ UNCHANGED <<dev, next, keeps>>
  <2>1. \A k \in n + 1 .. Len(pipe) : pipe[k] \in Packets
    BY <1>1, ElementOfSeq
  <2>2. SubSeq(pipe, n + 1, Len(pipe)) \in Seq(Packets)
    BY <1>1, <2>1, SubSeqProperties, LenProperties
  <2> QED  BY <1>4, <2>2 DEF Received
<1>5. CASE UNCHANGED devvars
  BY <1>1, <1>5 DEF devvars
<1>6. CASE TakeReply
  BY <1>1, <1>6, HeadTailProperties DEF TakeReply
<1> QED  BY <1>1, <1>2, <1>3, <1>4, <1>5, <1>6

\* Every exit with an error.
LEMMA FailuresInv ==
    ASSUME IInv,
           \/ BadArgs \/ SendTextFail \/ PollRefused \/ PollFail
           \/ OpenFileFail \/ AskChunkFail \/ ReadChunkFail
    PROVE  IInv'
<1>1. TypeInv /\ PlaceInv
  BY DEF IInv
<1>2. Chunk \in Nat
  BY <1>1, MreadAssumption DEF Chunk, aml_min, TypeInv
<1>3. \/ AcceptText
      \/ \E n \in Nat : AcceptRead(n)
      \/ \E n \in Nat : Received(n)
      \/ UNCHANGED devvars
      \/ TakeReply
  <2>1. CASE BadArgs
    BY <2>1 DEF BadArgs
  <2>2. CASE SendTextFail
    BY <2>2 DEF SendTextFail
  <2>3. CASE PollRefused
    BY <2>3 DEF PollRefused
  <2>4. CASE PollFail
    BY <2>4 DEF PollFail
  <2>5. CASE OpenFileFail
    BY <2>5 DEF OpenFileFail
  <2>6. CASE AskChunkFail
    BY <1>2, <2>6 DEF AskChunkFail
  <2>7. CASE ReadChunkFail
    <3>1. \A n \in 0 .. bufferLen : n \in Nat
      OBVIOUS
    <3> QED  BY <2>7, <3>1 DEF ReadChunkFail
  <2> QED  BY <2>1, <2>2, <2>3, <2>4, <2>5, <2>6, <2>7
<1>4. /\ pipe' \in Seq(Packets) /\ next' \in Nat /\ keeps' = keeps
      /\ dev' \in {"idle", "command", "upload"}
      /\ dev' = "upload" => cmd = "mread"
  BY <1>1, <1>3, DeviceTypes
<1>5. pc # "exit" /\ pc' = "exit" /\ ret' # 0
  BY DEF BadArgs, SendTextFail, PollRefused, TakeReply, PollFail, OpenFileFail,
         AskChunkFail, ReadChunkFail, Exit, BulkCmdFailed
<1>6. UNCHANGED <<argvars, remain, bufferLen, out, unseen>>
  BY DEF BadArgs, SendTextFail, PollRefused, TakeReply, PollFail, OpenFileFail,
         AskChunkFail, ReadChunkFail
<1> QED  BY <1>4, <1>5, <1>6, GivesUpInv

-----------------------------------------------------------------------------
LEMMA SendTextInv == ASSUME IInv, SendText PROVE IInv'
<1>1. TypeInv /\ PlaceInv /\ ReplyInv
  BY DEF IInv
<1>2. /\ pc = "start" /\ pc' = "poll" /\ dev' = "command" /\ next' = 0
      /\ pipe' = IF keeps THEN pipe ELSE <<>>
      /\ UNCHANGED <<keeps, cmd, size, saving, remain, bufferLen, out, ret, unseen>>
  BY DEF SendText, AcceptText, argvars
<1>3. out = <<>> /\ unseen = {}
  BY <1>1, <1>2 DEF PlaceInv
<1>4. TypeInv'
  BY <1>1, <1>2, EmptySeq DEF TypeInv
<1>5. PlaceInv'
  BY <1>1, <1>2 DEF PlaceInv
<1>6. ReplyInv'
  <2>1. CASE keeps
    BY <1>1, <1>2, <2>1 DEF ReplyInv
  <2>2. CASE ~ keeps
    BY <1>2, <2>2 DEF ReplyInv
  <2> QED  BY <2>1, <2>2
<1>7. CleanInv' /\ StreamInv' /\ SuccessMeansRead' /\ AnsweredForItself'
  BY <1>2 DEF CleanInv, StreamInv, SuccessMeansRead, AnsweredForItself
<1>8. DataInOrder'
  BY <1>2 DEF IInv, DataInOrder, Unbroken
<1> QED  BY <1>4, <1>5, <1>6, <1>7, <1>8 DEF IInv

\* The pipe without its first packet, which was a reply.
LEMMA ReplyTaken ==
    ASSUME IInv, TakeReply
    PROVE  /\ pc = "poll" /\ pipe # <<>> /\ Head(pipe) = pipe[1] /\ Len(pipe) \in Nat \ {0}
           /\ pipe' \in Seq(Packets) /\ Len(pipe') = Len(pipe) - 1
           /\ \A k \in 1 .. Len(pipe') : pipe'[k] = pipe[k + 1] /\ k + 1 \in 1 .. Len(pipe)
           /\ UNCHANGED <<dev, next, keeps, cmd, size, saving, bufferLen, out>>
<1>1. pipe \in Seq(Packets) /\ pipe # <<>> /\ pipe' = Tail(pipe)
  BY DEF IInv, TypeInv, TakeReply
<1>2. /\ Head(pipe) = pipe[1] /\ Len(pipe) \in Nat \ {0}
      /\ pipe' \in Seq(Packets) /\ Len(pipe') = Len(pipe) - 1
  BY <1>1
<1>3. \A k \in 1 .. Len(pipe') : pipe'[k] = pipe[k + 1] /\ k + 1 \in 1 .. Len(pipe)
  BY <1>1
<1> QED  BY <1>1, <1>2, <1>3 DEF TakeReply, argvars

LEMMA PollBusyInv == ASSUME IInv, PollBusy PROVE IInv'
<1>1. TypeInv /\ PlaceInv /\ ReplyInv
  BY DEF IInv
<1>2. TakeReply /\ UNCHANGED <<remain, pc, ret, unseen>>
  BY DEF PollBusy
<1>3. /\ pc = "poll" /\ Len(pipe) \in Nat \ {0}
      /\ pipe' \in Seq(Packets) /\ Len(pipe') = Len(pipe) - 1
      /\ \A k \in 1 .. Len(pipe') : pipe'[k] = pipe[k + 1] /\ k + 1 \in 1 .. Len(pipe)
      /\ UNCHANGED <<dev, next, keeps, cmd, size, saving, bufferLen, out>>
  BY <1>2, ReplyTaken
<1>4. TypeInv'
  BY <1>1, <1>2, <1>3 DEF TypeInv
<1>5. PlaceInv'
  BY <1>1, <1>2, <1>3 DEF PlaceInv
<1>6. ReplyInv'
  <2> SUFFICES ASSUME NEW k \in 1 .. Len(pipe')
               PROVE  /\ pipe'[k] \in Replies
                      /\ ~keeps => pipe'[k].now
                      /\ pipe'[k].now /\ pipe'[k].text # "Continue:34" =>
                            /\ k = Len(pipe') /\ dev # "command"
                            /\ pipe'[k].text = "success" /\ cmd = "mread" => dev = "upload"
    BY <1>1, <1>2, <1>3 DEF ReplyInv
  <2>1. PICK j \in 1 .. Len(pipe) : j = k + 1 /\ pipe'[k] = pipe[j]
    BY <1>3
  <2>2. /\ pipe[j] \in Replies
        /\ ~keeps => pipe[j].now
        /\ pipe[j].now /\ pipe[j].text # "Continue:34" =>
              /\ j = Len(pipe) /\ dev # "command"
              /\ pipe[j].text = "success" /\ cmd = "mread" => dev = "upload"
    BY <1>1, <1>3 DEF ReplyInv
  <2>3. j = Len(pipe) => k = Len(pipe')
    BY <1>3, <2>1
  <2> QED  BY <2>1, <2>2, <2>3
<1>7. CleanInv' /\ StreamInv' /\ SuccessMeansRead' /\ AnsweredForItself'
  BY <1>2, <1>3 DEF CleanInv, StreamInv, SuccessMeansRead, AnsweredForItself
<1>8. DataInOrder'
  BY <1>2, <1>3 DEF IInv, DataInOrder, Unbroken
<1> QED  BY <1>4, <1>5, <1>6, <1>7, <1>8 DEF IInv

\* The text "success" is taken for the answer, whichever command it answers.
LEMMA PollSuccessInv == ASSUME IInv, PollSuccess PROVE IInv'
<1>1. TypeInv /\ PlaceInv /\ ReplyInv
  BY DEF IInv
<1>2. TakeReply /\ UNCHANGED remain
  BY DEF PollSuccess, Accepted
<1>3. /\ pc = "poll" /\ pipe # <<>> /\ Head(pipe) = pipe[1] /\ Len(pipe) \in Nat \ {0}
      /\ pipe' \in Seq(Packets) /\ Len(pipe') = Len(pipe) - 1
      /\ \A k \in 1 .. Len(pipe') : pipe'[k] = pipe[k + 1] /\ k + 1 \in 1 .. Len(pipe)
      /\ UNCHANGED <<dev, next, keeps, cmd, size, saving, bufferLen, out>>
  BY <1>2, ReplyTaken
<1>4. /\ out = <<>> /\ unseen = {}
  BY <1>1, <1>3 DEF PlaceInv
<1>5. unseen' = IF pipe[1].now THEN {} ELSE {"stale"}
  BY <1>3, <1>4 DEF PollSuccess, Accepted
<1>6. \/ cmd = "mread" /\ pc' = "ReadMediaFile" /\ UNCHANGED ret
      \/ cmd = "bulkcmd" /\ pc' = "exit" /\ ret' = 0
  BY <1>1 DEF PollSuccess, Accepted, Exit, TypeInv
<1>7. /\ ~keeps => pipe[1].now
      /\ pipe[1].now => 1 = Len(pipe) /\ (cmd = "mread" => dev = "upload")
  <2>1. pipe[1].text = "success"
    BY <1>3 DEF PollSuccess
  <2>2. 1 \in 1 .. Len(pipe)
    BY <1>3
  <2> QED  BY <1>1, <1>3, <2>1, <2>2 DEF ReplyInv
<1>8. TypeInv'
  BY <1>1, <1>2, <1>3, <1>5, <1>6 DEF TypeInv
<1>9. PlaceInv'
  BY <1>1, <1>3, <1>4, <1>5, <1>6 DEF PlaceInv
<1>10. ReplyInv'
  BY <1>1, <1>3, <1>6 DEF ReplyInv
<1>11. CleanInv'
  <2> SUFFICES ASSUME pc' = "ReadMediaFile", "stale" \notin unseen' PROVE CleanInv'
    BY <1>6 DEF CleanInv
  <2>1. pipe[1].now /\ dev = "upload"
    BY <1>5, <1>6, <1>7
  <2>2. Len(pipe') = 0
    <3>1. 1 = Len(pipe)
      BY <1>7, <2>1
    <3>2. Len(pipe') = Len(pipe) - 1
      BY <1>3
    <3> QED  BY <3>1, <3>2
  <2>3. pipe' = <<>>
    BY <1>3, <2>2, EmptySeq
  <2>4. Len(out) = 0 /\ next = 0
    BY <1>1, <1>3, <1>4 DEF ReplyInv
  <2>5. /\ \A k \in 1 .. Len(out) : out[k] = Data(k - 1)
        /\ \A k \in 1 .. Len(pipe') : pipe'[k] = Data(Len(out) + k - 1)
    BY <2>2, <2>4
  <2>6. /\ dev' = "upload" /\ out' = out /\ Len(out') + Len(pipe') = next'
        /\ pc' = "ReadMediaFile"
    BY <1>3, <2>1, <2>2, <2>4
  <2> QED  BY <2>3, <2>5, <2>6 DEF CleanInv
<1>12. StreamInv' /\ SuccessMeansRead'
  BY <1>3, <1>6 DEF StreamInv, SuccessMeansRead
<1>13. DataInOrder'
  BY <1>3, <1>4 DEF DataInOrder, Unbroken
<1>14. AnsweredForItself'
  BY <1>1, <1>3, <1>5, <1>6, <1>7 DEF AnsweredForItself
<1> QED  BY <1>8, <1>9, <1>10, <1>11, <1>12, <1>13, <1>14 DEF IInv

-----------------------------------------------------------------------------
\* The transfer begins: what is left is the whole upload.
LEMMA OpenFileInv == ASSUME IInv, OpenFile PROVE IInv'
<1>1. TypeInv /\ PlaceInv /\ ReplyInv /\ CleanInv
  BY DEF IInv
<1>2. /\ pc = "ReadMediaFile" /\ pc' = "chunk" /\ remain' = size
      /\ UNCHANGED <<dev, next, pipe, keeps, cmd, size, saving, bufferLen, out, ret, unseen>>
  BY DEF OpenFile, devvars, argvars
<1>3. out = <<>> /\ Len(out) = 0 /\ next = 0
  BY <1>1, <1>2 DEF PlaceInv, ReplyInv
<1>4. TypeInv'
  BY <1>1, <1>2 DEF TypeInv
<1>5. PlaceInv'
  BY <1>1, <1>2 DEF PlaceInv, TypeInv
<1>6. ReplyInv' /\ SuccessMeansRead'
  BY <1>2 DEF ReplyInv, SuccessMeansRead
<1>7. CleanInv'
  <2>1. size \in Nat
    BY <1>1 DEF TypeInv
  <2>2. size - remain' = 0
    BY <1>2, <2>1
  <2> QED  BY <1>1, <1>2, <1>3, <2>2 DEF CleanInv
<1>8. StreamInv'
  <2>1. pipe \in Seq(Packets) /\ \A k \in 1 .. Len(pipe) : ~ IsData(pipe[k])
    BY <1>1, <1>2, PacketKinds DEF TypeInv, ReplyInv
  <2>2. out \o pipe = pipe
    BY <1>3, <2>1, ConcatEmptySeq
  <2>3. Ordered(out \o pipe, next)
    BY <1>3, <2>1, <2>2, NoDataOrdered
  <2> QED  BY <1>2, <2>3 DEF StreamInv
<1>9. DataInOrder' /\ AnsweredForItself'
  BY <1>2 DEF IInv, DataInOrder, Unbroken, AnsweredForItself
<1> QED  BY <1>4, <1>5, <1>6, <1>7, <1>8, <1>9 DEF IInv

\* The request for a chunk makes the device send, or finds it still at work.
LEMMA AskChunkInv == ASSUME IInv, AskChunk PROVE IInv'
<1>1. TypeInv /\ PlaceInv /\ ReplyInv /\ CleanInv /\ StreamInv
  BY DEF IInv
<1>2. /\ pc = "chunk" /\ pc' = "read" /\ remain # 0 /\ bufferLen' = Chunk
      /\ AcceptRead(Chunk)
      /\ UNCHANGED <<cmd, size, saving, remain, out, ret, unseen>>
  BY DEF AskChunk, argvars
<1>3. Chunk \in 1 .. remain /\ Chunk \in Nat /\ Chunk \in 0 .. MaxSize
  BY <1>1, <1>2, MreadAssumption DEF Chunk, aml_min, TypeInv
<1>4. /\ pipe' \in Seq(Packets) /\ next' \in Nat /\ keeps' = keeps
      /\ dev' \in {"idle", "command", "upload"}
      /\ dev' = "upload" => cmd = "mread"
  BY <1>1, <1>2, <1>3, DeviceTypes
<1>5. TypeInv'
  BY <1>1, <1>2, <1>3, <1>4 DEF TypeInv
<1>6. PlaceInv'
  BY <1>1, <1>2, <1>3, <1>4 DEF PlaceInv
<1>7. ReplyInv' /\ SuccessMeansRead'
  BY <1>2 DEF ReplyInv, SuccessMeansRead
<1>8. CleanInv' /\ StreamInv' /\ (dev = "upload" => dev' = "upload")
  <2>1. ASSUME dev = "upload", UNCHANGED <<dev, keeps>>, NEW m \in 0 .. Chunk,
               pipe' = pipe \o [k \in 1 .. m |-> Data(next + k - 1)], next' = next + m
        PROVE  CleanInv' /\ StreamInv' /\ (dev = "upload" => dev' = "upload")
    <3>1. m \in Nat
      BY <1>3
    <3>2. /\ Len(pipe') = Len(pipe) + m
          /\ \A k \in 1 .. Len(pipe) : pipe'[k] = pipe[k]
          /\ \A k \in 1 .. m : pipe'[Len(pipe) + k] = Data(next + k - 1)
          /\ Ordered(out \o pipe, next) => Ordered(out \o pipe', next + m)
      BY <1>1, <2>1, <3>1, DataArrives
    <3>3. StreamInv'
      BY <1>1, <1>2, <2>1, <3>2 DEF StreamInv
    <3>4. ASSUME "stale" \notin unseen, saving, "fwrite" \notin unseen
          PROVE  /\ Len(out) = size - remain
                 /\ Len(out) + Len(pipe') = next + m
                 /\ \A k \in 1 .. Len(out) : out[k] = Data(k - 1)
                 /\ \A k \in 1 .. Len(pipe') : pipe'[k] = Data(Len(out) + k - 1)
      <4>1. PICK o \in Nat, p \in Nat : o = Len(out) /\ p = Len(pipe)
        BY <1>1, LenProperties DEF TypeInv
      <4>2. /\ o = size - remain /\ o + p = next
            /\ \A k \in 1 .. o : out[k] = Data(k - 1)
            /\ \A k \in 1 .. p : pipe[k] = Data(o + k - 1)
        BY <1>1, <1>2, <3>4, <4>1 DEF CleanInv
      <4>3. ASSUME NEW k \in 1 .. p + m PROVE pipe'[k] = Data(o + k - 1)
        <5>1. CASE k <= p
          BY <3>2, <4>1, <4>2, <5>1
        <5>2. CASE k > p
          <6>1. PICK i \in 1 .. m : k = p + i /\ next + i - 1 = o + k - 1
            <7>1. k - p \in 1 .. m /\ k = p + (k - p)
              BY <5>2, <3>1
            <7>2. next + (k - p) - 1 = o + k - 1
              BY <4>2
            <7> QED  BY <7>1, <7>2
          <6>2. pipe'[p + i] = Data(next + i - 1)
            BY <3>2, <4>1
          <6> QED  BY <6>1, <6>2
        <5> QED  BY <5>1, <5>2
      <4>4. Len(pipe') = p + m
        BY <3>2, <4>1
      <4>5. o + (p + m) = next + m
        BY <3>1, <4>2
      <4> QED  BY <4>1, <4>2, <4>3, <4>4, <4>5
    <3>5. CleanInv'
      BY <1>2, <2>1, <3>4 DEF CleanInv
    <3> QED  BY <2>1, <3>3, <3>5
  <2>2. ASSUME dev = "command", NEW good \in BOOLEAN, NEW s \in BOOLEAN, Answered(good, s),
               UNCHANGED <<next, keeps>>
        PROVE  CleanInv' /\ StreamInv' /\ (dev = "upload" => dev' = "upload")
    <3>1. PICK t \in Texts : t = IF good THEN "success" ELSE "failed"
      BY DEF Texts
    <3>2. PICK r \in Replies : r = Reply(t, TRUE, s)
      BY ReplyType
    <3>3. pipe' = Append(pipe, r)
      BY <2>2, <3>1, <3>2 DEF Answered
    <3>4. StreamInv'
      BY <1>1, <1>2, <2>2, <3>3, ReplyJoinsStream DEF StreamInv, TypeInv
    <3>5. "stale" \in unseen
      BY <1>1, <1>2, <2>2 DEF CleanInv
    <3>6. CleanInv'
      BY <1>2, <3>5 DEF CleanInv
    <3> QED  BY <2>2, <3>4, <3>6
  <2>3. CASE UNCHANGED devvars
    <3>1. UNCHANGED <<dev, next, pipe>>
      BY <2>3 DEF devvars
    <3>2. CleanInv'
      BY <1>1, <1>2, <3>1 DEF CleanInv
    <3>3. StreamInv'
      BY <1>1, <1>2, <3>1 DEF StreamInv
    <3> QED  BY <3>1, <3>2, <3>3
  <2> QED  BY <1>2, <2>1, <2>2, <2>3 DEF AcceptRead
<1>9. DataInOrder'
  BY <1>2 DEF IInv, DataInOrder, Unbroken
<1>10. AnsweredForItself'
  BY <1>2, <1>4, <1>8 DEF IInv, AnsweredForItself
<1> QED  BY <1>5, <1>6, <1>7, <1>8, <1>9, <1>10 DEF IInv

\* The packets of two sequences, one after the other.
LEMMA Joined ==
    ASSUME NEW s \in Seq(Packets), NEW t \in Seq(Packets)
    PROVE  /\ s \o t \in Seq(Packets) /\ Len(s \o t) = Len(s) + Len(t)
           /\ \A k \in 1 .. Len(s) + Len(t) :
                 (s \o t)[k] = IF k <= Len(s) THEN s[k] ELSE t[k - Len(s)]
BY ConcatProperties

\* The file after n packets of the pipe have moved to it, and the pipe then.
Moved(o, p, n) == o \o SubSeq(p, 1, n)
Left(p, n) == SubSeq(p, n + 1, Len(p))

\* File and pipe together stay what they were.
LEMMA StreamMoves ==
    ASSUME NEW o \in Seq(Packets), NEW p \in Seq(Packets), NEW n \in Nat, n <= Len(p)
    PROVE  /\ Moved(o, p, n) \in Seq(Packets) /\ Left(p, n) \in Seq(Packets)
           /\ Len(Moved(o, p, n)) = Len(o) + n /\ Len(Left(p, n)) = Len(p) - n
           /\ \A k \in 1 .. Len(o) : Moved(o, p, n)[k] = o[k]
           /\ \A k \in 1 .. n : Moved(o, p, n)[Len(o) + k] = p[k]
           /\ \A k \in 1 .. Len(Left(p, n)) : Left(p, n)[k] = p[n + k]
           /\ Moved(o, p, n) \o Left(p, n) = o \o p
<1>a. PICK o2, p2 : o2 = Moved(o, p, n) /\ p2 = Left(p, n)
  OBVIOUS
<1>b. o2 = o \o SubSeq(p, 1, n) /\ p2 = SubSeq(p, n + 1, Len(p))
  BY <1>a DEF Moved, Left
<1> DEFINE c == SubSeq(p, 1, n)
<1>1. PICK a \in Nat, b \in Nat : a = Len(o) /\ b = Len(p)
  BY LenProperties
<1>2. /\ c \in Seq(Packets) /\ Len(c) = n
      /\ \A k \in 1 .. n : c[k] = p[k]
  <2>1. \A k \in 1 .. n : p[k] \in Packets
    BY <1>1, ElementOfSeq
  <2> QED  BY <1>1, <2>1
<1>3. /\ p2 \in Seq(Packets) /\ Len(p2) = b - n
      /\ \A k \in 1 .. b - n : p2[k] = p[n + k]
  <2>1. \A k \in n + 1 .. b : p[k] \in Packets
    BY <1>1, ElementOfSeq
  <2> QED  BY <1>1, <1>b, <2>1
<1>4. o2 = o \o c
  BY <1>b
<1> HIDE DEF c
<1>5. /\ o2 \in Seq(Packets) /\ Len(o2) = a + n
      /\ \A k \in 1 .. a + n : o2[k] = IF k <= a THEN o[k] ELSE c[k - a]
  <2>1. /\ o \o c \in Seq(Packets) /\ Len(o \o c) = Len(o) + Len(c)
        /\ \A k \in 1 .. Len(o) + Len(c) :
              (o \o c)[k] = IF k <= Len(o) THEN o[k] ELSE c[k - Len(o)]
    BY <1>2, ConcatProperties
  <2>2. Len(o) = a /\ Len(c) = n
    BY <1>1, <1>2
  <2> QED  BY <1>4, <2>1, <2>2
<1>6. \A k \in 1 .. a : o2[k] = o[k]
  <2> TAKE k \in 1 .. a
  <2>1. k \in 1 .. a + n /\ k <= a
    OBVIOUS
  <2>2. o2[k] = IF k <= a THEN o[k] ELSE c[k - a]
    BY <1>5, <2>1
  <2> QED  BY <2>1, <2>2, Zenon
<1>7. \A k \in 1 .. n : o2[a + k] = p[k]
  <2> TAKE k \in 1 .. n
  <2>1. PICK e \in 1 .. a + n : e = a + k /\ ~ (e <= a) /\ e - a = k
    OBVIOUS
  <2>2. o2[e] = IF e <= a THEN o[e] ELSE c[e - a]
    BY <1>5, Zenon
  <2>3. o2[a + k] = c[k]
    BY <2>1, <2>2, Zenon
  <2> QED  BY <1>2, <2>3
<1> DEFINE s == o \o p
           t == o2 \o p2
<1>8. /\ s \in Seq(Packets) /\ Len(s) = a + b
      /\ \A k \in 1 .. a + b : s[k] = IF k <= a THEN o[k] ELSE p[k - a]
  <2>1. /\ s \in Seq(Packets) /\ Len(s) = Len(o) + Len(p)
        /\ \A k \in 1 .. Len(o) + Len(p) : s[k] = IF k <= Len(o) THEN o[k] ELSE p[k - Len(o)]
    BY ConcatProperties
  <2> QED  BY <1>1, <2>1
<1>9. /\ t \in Seq(Packets) /\ Len(t) = a + b
      /\ \A k \in 1 .. a + b : t[k] = IF k <= a + n THEN o2[k] ELSE p2[k - (a + n)]
  <2>0. o2 \in Seq(Packets) /\ p2 \in Seq(Packets)
    BY <1>3, <1>5
  <2>1. /\ t \in Seq(Packets) /\ Len(t) = Len(o2) + Len(p2)
        /\ \A k \in 1 .. Len(o2) + Len(p2) : t[k] = IF k <= Len(o2) THEN o2[k] ELSE p2[k - Len(o2)]
    BY <2>0, Joined DEF t
  <2>2. Len(o2) = a + n /\ Len(o2) + Len(p2) = a + b
    <3>1. Len(o2) = a + n /\ Len(p2) = b - n
      BY <1>3, <1>5
    <3>2. (a + n) + (b - n) = a + b
      OBVIOUS
    <3> QED  BY <3>1, <3>2
  <2> QED  BY <2>1, <2>2
<1> HIDE DEF s, t
<1>10. ASSUME NEW k \in 1 .. a + b PROVE t[k] = s[k]
  <2>1. /\ s[k] = IF k <= a THEN o[k] ELSE p[k - a]
        /\ t[k] = IF k <= a + n THEN o2[k] ELSE p2[k - (a + n)]
    BY <1>8, <1>9
  <2>2. CASE k <= a
    <3>1. k <= a + n
      BY <2>2
    <3>2. o2[k] = o[k]
      <4>1. k \in 1 .. a
        BY <2>2
      <4> QED  BY <1>6, <4>1, Zenon
    <3> QED  BY <2>1, <2>2, <3>1, <3>2, Zenon
  <2>3. CASE k > a /\ k <= a + n
    <3>1. PICK i \in 1 .. n : k = a + i /\ k - a = i /\ ~ (k <= a)
      <4>1. k - a \in 1 .. n /\ k = a + (k - a) /\ ~ (k <= a)
        BY <2>3
      <4> QED  BY <4>1
    <3>2. o2[a + i] = p[i]
      BY <1>7
    <3> QED  BY <2>1, <2>3, <3>1, <3>2, Zenon
  <2>4. CASE k > a + n
    <3>1. PICK i \in 1 .. b - n : k - (a + n) = i /\ k - a = n + i /\ ~ (k <= a) /\ ~ (k <= a + n)
      <4>1. k - (a + n) \in 1 .. b - n /\ k - a = n + (k - (a + n)) /\ ~ (k <= a) /\ ~ (k <= a + n)
        BY <1>1, <2>4
      <4> QED  BY <4>1
    <3>2. p2[i] = p[n + i]
      BY <1>3
    <3> QED  BY <2>1, <3>1, <3>2, Zenon
  <2> QED  BY <2>2, <2>3, <2>4
<1>11. t = s
  BY <1>8, <1>9, <1>10, SeqEqual
<1> QED  BY <1>a, <1>1, <1>3, <1>5, <1>6, <1>7, <1>11 DEF s, t

\* The chunk moves from the pipe to the file: what the device has sent stays the same.
LEMMA ReadChunkInv == ASSUME IInv, NEW m \in 0 .. bufferLen, ReadChunk(m) PROVE IInv'
<1>1. TypeInv /\ PlaceInv /\ CleanInv /\ StreamInv
  BY DEF IInv
<1>0. PICK n : n = bufferLen
  OBVIOUS
<1>2. /\ pc = "read" /\ pc' = "chunk" /\ remain' = remain - n
      /\ Received(n) /\ Save(n, m)
      /\ UNCHANGED <<dev, next, keeps, cmd, size, saving, bufferLen, ret>>
  BY <1>0 DEF ReadChunk, Received, argvars
<1>3. n \in 1 .. remain /\ n \in Nat /\ m \in Nat /\ m <= n
  BY <1>0, <1>1, <1>2 DEF PlaceInv, TypeInv
<1>4. /\ pipe \in Seq(Packets) /\ out \in Seq(Packets) /\ Len(pipe) \in Nat /\ Len(out) \in Nat
      /\ next \in Nat /\ size \in Nat /\ remain \in 0 .. size
  BY <1>1, LenProperties DEF TypeInv
<1>5. n <= Len(pipe) /\ pipe' = SubSeq(pipe, n + 1, Len(pipe))
  BY <1>2 DEF Received
<1>6. /\ m = n \/ saving
      /\ out' = IF saving THEN out \o SubSeq(pipe, 1, m) ELSE out
      /\ unseen' = IF m < n THEN unseen \cup {"fwrite"} ELSE unseen
  BY <1>2 DEF Save
<1>7. pipe' \in Seq(Packets)
  <2>1. \A k \in n + 1 .. Len(pipe) : pipe[k] \in Packets
    BY <1>3, <1>4, ElementOfSeq
  <2> QED  BY <1>3, <1>4, <1>5, <2>1, SubSeqProperties
<1>8. out' \in Seq(Packets)
  <2>1. m <= Len(pipe)
    BY <1>3, <1>4, <1>5
  <2>2. out \o SubSeq(pipe, 1, m) \in Seq(Packets)
    BY <1>3, <1>4, <2>1, StreamMoves DEF Moved
  <2> QED  BY <1>4, <1>6, <2>2
<1>9. TypeInv'
  <2>1. remain' \in 0 .. size
    BY <1>2, <1>3, <1>4
  <2>2. unseen' \subseteq {"stale", "fwrite"}
    BY <1>1, <1>6 DEF TypeInv
  <2> QED  BY <1>1, <1>2, <1>7, <1>8, <2>1, <2>2 DEF TypeInv
<1>10. PlaceInv'
  <2>1. cmd = "mread"
    BY <1>1, <1>2 DEF PlaceInv
  <2> QED  BY <1>1, <1>2, <1>6, <2>1 DEF PlaceInv
<1>11. ReplyInv' /\ SuccessMeansRead'
  BY <1>2 DEF ReplyInv, SuccessMeansRead
<1>12. ASSUME "fwrite" \notin unseen', saving
       PROVE  /\ out' = out \o SubSeq(pipe, 1, n)
              /\ "fwrite" \notin unseen /\ unseen' = unseen
  <2>1. m = n
    <3>1. ~ (m < n)
      BY <1>6, <1>12
    <3> QED  BY <1>3, <3>1
  <2>2. ~ (m < n)
    BY <1>3, <2>1
  <2> QED  BY <1>6, <1>12, <2>1, <2>2
<1>13. ASSUME "fwrite" \notin unseen', saving
       PROVE  /\ Len(out') = Len(out) + n /\ Len(pipe') = Len(pipe) - n
              /\ \A k \in 1 .. Len(out) : out'[k] = out[k]
              /\ \A k \in 1 .. n : out'[Len(out) + k] = pipe[k]
              /\ \A k \in 1 .. Len(pipe') : pipe'[k] = pipe[n + k]
              /\ out' \o pipe' = out \o pipe
  <2>1. out' = Moved(out, pipe, n) /\ pipe' = Left(pipe, n)
    BY <1>5, <1>12, <1>13 DEF Moved, Left
  <2>2. out \in Seq(Packets) /\ pipe \in Seq(Packets) /\ n \in Nat /\ n <= Len(pipe)
    BY <1>3, <1>4, <1>5
  <2>3. Len(Moved(out, pipe, n)) = Len(out) + n /\ Len(Left(pipe, n)) = Len(pipe) - n
    BY <2>2, StreamMoves
  <2>4. \A k \in 1 .. Len(out) : Moved(out, pipe, n)[k] = out[k]
    BY <2>2, StreamMoves
  <2>5. \A k \in 1 .. n : Moved(out, pipe, n)[Len(out) + k] = pipe[k]
    BY <2>2, StreamMoves
  <2>6. \A k \in 1 .. Len(Left(pipe, n)) : Left(pipe, n)[k] = pipe[n + k]
    BY <2>2, StreamMoves
  <2>7. Moved(out, pipe, n) \o Left(pipe, n) = out \o pipe
    BY <2>2, StreamMoves
  <2> QED  BY <2>1, <2>3, <2>4, <2>5, <2>6, <2>7
<1>14. ASSUME "fwrite" \notin unseen', saving
       PROVE  Ordered(out' \o pipe', next) /\ Unbroken(out')
  <2>1. Ordered(out \o pipe, next)
    BY <1>1, <1>2, <1>12, <1>14 DEF StreamInv
  <2>2. Ordered(out' \o pipe', next)
    BY <1>13, <1>14, <2>1
  <2>3. /\ out' \o pipe' \in Seq(Packets) /\ Len(out' \o pipe') = Len(out') + Len(pipe')
        /\ \A k \in 1 .. Len(out') + Len(pipe') :
              (out' \o pipe')[k] = IF k <= Len(out') THEN out'[k] ELSE pipe'[k - Len(out')]
    BY <1>7, <1>8, Joined
  <2>4. Len(out') \in Nat /\ Len(pipe') \in Nat
    BY <1>7, <1>8, LenProperties
  <2>5. \A k \in 1 .. Len(out') : out'[k] = (out' \o pipe')[k]
    BY <2>3, <2>4
  <2>6. Len(out') <= Len(out' \o pipe') /\ Unbroken(out' \o pipe')
    BY <2>2, <2>3, <2>4 DEF Ordered
  <2>7. Unbroken(out')
    BY <1>8, <2>3, <2>5, <2>6, PrefixUnbroken
  <2> QED  BY <2>2, <2>7
<1>15. StreamInv'
  BY <1>2, <1>14 DEF StreamInv
<1>16. DataInOrder'
  <2>1. CASE saving
    BY <1>14, <2>1 DEF DataInOrder
  <2>2. CASE ~ saving
    <3>1. out' = out /\ unseen' = unseen
      BY <1>3, <1>6, <2>2
    <3> QED  BY <3>1 DEF IInv, DataInOrder, Unbroken
  <2> QED  BY <2>1, <2>2
<1>17. CleanInv'
  <2>1. "stale" \notin unseen' => "stale" \notin unseen
    BY <1>6
  <2>2. ASSUME "stale" \notin unseen' PROVE dev' = "upload"
    BY <1>1, <1>2, <2>1, <2>2 DEF CleanInv
  <2>3. ASSUME "stale" \notin unseen', "fwrite" \notin unseen', saving
        PROVE  /\ Len(out') = size - remain'
               /\ Len(out') + Len(pipe') = next
               /\ \A k \in 1 .. Len(out') : out'[k] = Data(k - 1)
               /\ \A k \in 1 .. Len(pipe') : pipe'[k] = Data(Len(out') + k - 1)
    <3>1. PICK o \in Nat, p \in Nat : o = Len(out) /\ p = Len(pipe)
      BY <1>4
    <3>2. /\ o = size - remain /\ o + p = next
          /\ \A k \in 1 .. o : out[k] = Data(k - 1)
          /\ \A k \in 1 .. p : pipe[k] = Data(o + k - 1)
      BY <1>1, <1>2, <1>12, <2>1, <2>3, <3>1 DEF CleanInv
    <3>3. /\ Len(out') = o + n /\ Len(pipe') = p - n
          /\ \A k \in 1 .. o : out'[k] = out[k]
          /\ \A k \in 1 .. n : out'[o + k] = pipe[k]
          /\ \A k \in 1 .. p - n : pipe'[k] = pipe[n + k]
      BY <1>13, <2>3, <3>1
    <3>4. n <= p
      BY <1>5, <3>1
    <3>5. ASSUME NEW k \in 1 .. o + n PROVE out'[k] = Data(k - 1)
      <4>1. CASE k <= o
        BY <3>2, <3>3, <4>1
      <4>2. CASE k > o
        <5>1. PICK i \in 1 .. n : k = o + i /\ i \in 1 .. p
          <6>1. k - o \in 1 .. n /\ k = o + (k - o) /\ k - o \in 1 .. p
            BY <1>3, <3>4, <4>2
          <6> QED  BY <6>1
        <5>2. out'[o + i] = pipe[i] /\ pipe[i] = Data(o + i - 1)
          BY <3>2, <3>3, <5>1
        <5> QED  BY <5>1, <5>2
      <4> QED  BY <4>1, <4>2
    <3>6. ASSUME NEW k \in 1 .. p - n PROVE pipe'[k] = Data((o + n) + k - 1)
      <4>1. PICK i \in 1 .. p : i = n + k /\ o + i - 1 = (o + n) + k - 1
        BY <1>3, <3>4
      <4>2. pipe'[k] = pipe[i] /\ pipe[i] = Data(o + i - 1)
        BY <3>2, <3>3, <4>1
      <4> QED  BY <4>1, <4>2
    <3>7. o + n = size - remain' /\ (o + n) + (p - n) = next
      BY <1>2, <1>3, <1>4, <3>2
    <3> QED  BY <3>3, <3>5, <3>6, <3>7
  <2> QED  BY <1>2, <2>2, <2>3 DEF CleanInv
<1>18. AnsweredForItself'
  BY <1>2, <1>6 DEF IInv, AnsweredForItself
<1> QED  BY <1>9, <1>10, <1>11, <1>15, <1>16, <1>17, <1>18 DEF IInv

\* Nothing is left: the file is the upload, if nothing went wrong unseen.
LEMMA AllReadInv == ASSUME IInv, AllRead PROVE IInv'
<1>1. TypeInv /\ PlaceInv /\ CleanInv
  BY DEF IInv
<1>2. /\ pc = "chunk" /\ remain = 0 /\ pc' = "exit" /\ ret' = 0
      /\ UNCHANGED <<dev, next, pipe, keeps, cmd, size, saving, remain, bufferLen, out, unseen>>
  BY DEF AllRead, Exit, devvars, argvars
<1>3. TypeInv'
  BY <1>1, <1>2 DEF TypeInv
<1>4. PlaceInv'
  BY <1>1, <1>2 DEF PlaceInv
<1>5. ReplyInv' /\ CleanInv' /\ StreamInv'
  BY <1>2 DEF ReplyInv, CleanInv, StreamInv
<1>6. SuccessMeansRead'
  <2> SUFFICES ASSUME saving, unseen = {} PROVE out = Upload
    BY <1>2 DEF SuccessMeansRead, Upload
  <2>1. size \in Nat /\ out \in Seq(Packets)
    BY <1>1 DEF TypeInv
  <2>2. Len(out) = size /\ \A k \in 1 .. Len(out) : out[k] = Data(k - 1)
    BY <1>1, <1>2, <2>1 DEF CleanInv
  <2>3. Upload \in Seq(Packets) /\ Len(Upload) = size /\ \A k \in 1 .. size : Upload[k] = Data(k - 1)
    <3>1. ASSUME NEW k \in 1 .. size PROVE Data(k - 1) \in Packets
      <4>1. k - 1 \in Nat
        BY <2>1
      <4> QED  BY <4>1, PacketKinds
    <3>2. Upload \in [1 .. size -> Packets]
      BY <3>1 DEF Upload
    <3> QED  BY <2>1, <3>2 DEF Upload
  <2> QED  BY <2>1, <2>2, <2>3, SeqEqual
<1>7. DataInOrder' /\ AnsweredForItself'
  BY <1>2 DEF IInv, DataInOrder, Unbroken, AnsweredForItself
<1> QED  BY <1>3, <1>4, <1>5, <1>6, <1>7 DEF IInv

\* Standing still changes nothing.
LEMMA StutterInv == ASSUME IInv, UNCHANGED vars PROVE IInv'
<1>1. UNCHANGED <<dev, next, pipe, keeps, cmd, size, saving, remain, pc, polls, bufferLen,
                  out, ret, unseen>>
  BY DEF vars, devvars, argvars
<1>2. TypeInv' /\ PlaceInv'
  BY <1>1 DEF IInv, TypeInv, PlaceInv
<1>3. ReplyInv' /\ CleanInv' /\ StreamInv'
  BY <1>1 DEF IInv, ReplyInv, CleanInv, StreamInv
<1>4. SuccessMeansRead' /\ DataInOrder' /\ AnsweredForItself'
  BY <1>1 DEF IInv, SuccessMeansRead, Upload, DataInOrder, Unbroken, AnsweredForItself
<1> QED  BY <1>2, <1>3, <1>4 DEF IInv

LEMMA NextInv == IInv /\ [Next]_vars => IInv'
<1> SUFFICES ASSUME IInv, [Next]_vars PROVE IInv'
  OBVIOUS
<1>1. CASE Device
  BY <1>1, DeviceInv
<1>2. CASE BadArgs \/ SendTextFail \/ PollRefused \/ PollFail
           \/ OpenFileFail \/ AskChunkFail \/ ReadChunkFail
  BY <1>2, FailuresInv
<1>3. CASE SendText
  BY <1>3, SendTextInv
<1>4. CASE PollBusy
  BY <1>4, PollBusyInv
<1>5. CASE PollSuccess
  BY <1>5, PollSuccessInv
<1>6. CASE OpenFile
  BY <1>6, OpenFileInv
<1>7. CASE AskChunk
  BY <1>7, AskChunkInv
<1>8. ASSUME NEW m \in 0 .. bufferLen, ReadChunk(m) PROVE IInv'
  BY <1>8, ReadChunkInv
<1>9. CASE AllRead
  BY <1>9, AllReadInv
<1>10. CASE UNCHANGED vars
  BY <1>10, StutterInv
<1> QED
  BY <1>1, <1>2, <1>3, <1>4, <1>5, <1>6, <1>7, <1>8, <1>9, <1>10 DEF Next, Host

-----------------------------------------------------------------------------
\* The inductive invariant holds whatever the device sends and however long it takes.
THEOREM InductiveInvariant == Spec => []IInv
<1>1. Init => IInv
  BY InitInv
<1>2. IInv /\ [Next]_vars => IInv'
  BY NextInv
<1> QED  BY <1>1, <1>2, PTL DEF Spec

\* An mread that returns 0 has written the upload and nothing else, whatever its size,
\* unless fwrite came up short or the reply of an earlier run was taken for its own.
THEOREM SuccessIsRead == Spec => []SuccessMeansRead
<1>1. IInv => SuccessMeansRead
  BY DEF IInv
<1> QED  BY <1>1, InductiveInvariant, PTL

\* Whatever the program takes for a reply or for data, the packets of the upload are
\* never lost from the middle of the file, repeated or reordered.
THEOREM DataStaysInOrder == Spec => []DataInOrder
<1>1. IInv => DataInOrder
  BY DEF IInv
<1> QED  BY <1>1, InductiveInvariant, PTL

\* A device that discards what an earlier run left behind answers the command at hand.
THEOREM AnswerIsOwn == Spec => []AnsweredForItself
<1>1. IInv => AnsweredForItself
  BY DEF IInv
<1> QED  BY <1>1, InductiveInvariant, PTL

-----------------------------------------------------------------------------
\* Another poll still fits into the deadline.
PollsInv == polls \in 0 .. MaxPolls - 1

LEMMA PollsNext == PollsInv /\ [Next]_vars => PollsInv'
<1> SUFFICES ASSUME PollsInv, [Next]_vars PROVE PollsInv'
  OBVIOUS
<1>1. MaxPolls \in Nat \ {0}
  BY MreadAssumption
<1>2. CASE SendText \/ PollBusy
  BY <1>1, <1>2 DEF PollsInv, SendText, PollBusy
<1>3. CASE BadArgs \/ SendTextFail \/ PollRefused \/ PollFail \/ PollSuccess
  BY <1>3 DEF PollsInv, BadArgs, SendTextFail, PollRefused, PollFail, PollSuccess, Accepted
<1>4. CASE OpenFile \/ OpenFileFail \/ AskChunk \/ AskChunkFail
  BY <1>4 DEF PollsInv, OpenFile, OpenFileFail, AskChunk, AskChunkFail
<1>5. CASE (\E m \in 0 .. bufferLen : ReadChunk(m)) \/ ReadChunkFail \/ AllRead
  BY <1>5 DEF PollsInv, ReadChunk, ReadChunkFail, AllRead
<1>6. CASE Device \/ UNCHANGED vars
  BY <1>6 DEF PollsInv, Device, vars
<1> QED  BY <1>2, <1>3, <1>4, <1>5, <1>6 DEF Next, Host

\* What the command has left to do: the places it has still to pass, the packets of
\* the upload, the request for a chunk, and the polls.
Phase ==
    CASE pc = "start" -> 4 [] pc = "poll" -> 3 [] pc = "ReadMediaFile" -> 2
      [] pc \in {"chunk", "read"} -> 1 [] OTHER -> 0

Remaining == <<Phase, remain, IF pc = "chunk" THEN 1 ELSE 0, MaxPolls - polls>>

LEMMA Falls ==
    ASSUME NEW p, NEW q, NEW r, NEW s, NEW p2, NEW q2, NEW r2, NEW s2,
           \/ p2 < p
           \/ p2 = p /\ q2 < q
           \/ p2 = p /\ q2 = q /\ r2 < r
           \/ p2 = p /\ q2 = q /\ r2 = r /\ s2 < s
    PROVE  Below(<<p2, q2, r2, s2>>, <<p, q, r, s>>)
<1> DEFINE m == <<p2, q2, r2, s2>>
           n == <<p, q, r, s>>
<1>1. CASE p2 < p
  <2>1. 1 \in 1 .. Len(n) /\ m[1] < n[1] /\ \A j \in 1 .. 1 - 1 : m[j] = n[j]
    BY <1>1
  <2> QED  BY <2>1 DEF Below
<1>2. CASE p2 = p /\ q2 < q
  <2>1. 2 \in 1 .. Len(n) /\ m[2] < n[2] /\ \A j \in 1 .. 2 - 1 : m[j] = n[j]
    BY <1>2
  <2> QED  BY <2>1 DEF Below
<1>3. CASE p2 = p /\ q2 = q /\ r2 < r
  <2>1. 3 \in 1 .. Len(n) /\ m[3] < n[3] /\ \A j \in 1 .. 3 - 1 : m[j] = n[j]
    BY <1>3
  <2> QED  BY <2>1 DEF Below
<1>4. CASE p2 = p /\ q2 = q /\ r2 = r /\ s2 < s
  <2>1. 4 \in 1 .. Len(n) /\ m[4] < n[4] /\ \A j \in 1 .. 4 - 1 : m[j] = n[j]
    BY <1>4
  <2> QED  BY <2>1 DEF Below
<1> QED  BY <1>1, <1>2, <1>3, <1>4

\* Each step of the host brings the end nearer.
LEMMA HostFalls ==
    ASSUME IInv, PollsInv, Host
    PROVE  \/ Phase' < Phase
           \/ Phase' = Phase /\ remain' < remain
           \/ Phase' = Phase /\ remain' = remain /\ pc = "chunk" /\ pc' # "chunk"
           \/ /\ Phase' = Phase /\ remain' = remain /\ pc' = pc
              /\ MaxPolls - polls' < MaxPolls - polls
<1>1. polls \in Nat /\ MaxPolls \in Nat /\ remain \in Nat
  BY MreadAssumption DEF PollsInv, IInv, TypeInv
<1>2. pc # "exit" /\ pc' = "exit" => Phase' < Phase
  BY DEF Phase, IInv, TypeInv
<1>3. CASE BadArgs \/ SendTextFail \/ PollRefused \/ PollFail
  BY <1>2, <1>3 DEF BadArgs, SendTextFail, PollRefused, PollFail, TakeReply, BulkCmdFailed, Exit
<1>4. CASE OpenFileFail \/ AskChunkFail \/ ReadChunkFail \/ AllRead
  BY <1>2, <1>4 DEF OpenFileFail, AskChunkFail, ReadChunkFail, AllRead, Exit
<1>5. CASE SendText \/ OpenFile
  BY <1>5 DEF SendText, OpenFile, Phase
<1>6. CASE PollBusy
  BY <1>1, <1>6 DEF PollBusy, TakeReply, Phase
<1>7. CASE PollSuccess
  BY <1>2, <1>7 DEF PollSuccess, TakeReply, Accepted, Exit, Phase
<1>8. CASE AskChunk
  BY <1>8 DEF AskChunk, Phase
<1>9. ASSUME NEW m \in 0 .. bufferLen, ReadChunk(m) PROVE Phase' = Phase /\ remain' < remain
  <2>1. bufferLen \in 1 .. remain
    BY <1>9 DEF ReadChunk, IInv, PlaceInv
  <2> QED  BY <1>1, <1>9, <2>1 DEF ReadChunk, Phase
<1> QED  BY <1>3, <1>4, <1>5, <1>6, <1>7, <1>8, <1>9 DEF Host

\* mread and bulkcmd come to their end after finitely many steps of the host, for every
\* size and every number of polls and whatever the device sends or withholds: each of
\* its steps takes the four numbers down, in lexicographic order, none of them falls
\* below 0, and no step of the device brings them up (the loops of AmlUsbBulkCmd and
\* ReadMediaFile).
THEOREM CommandProgress ==
    Spec => /\ [](Remaining \in Nat \X Nat \X Nat \X Nat)
            /\ [][IF Host THEN Below(Remaining', Remaining) ELSE Remaining' = Remaining]_vars
<1>1. IInv /\ PollsInv => Remaining \in Nat \X Nat \X Nat \X Nat
  <2> SUFFICES ASSUME IInv, PollsInv PROVE Remaining \in Nat \X Nat \X Nat \X Nat
    OBVIOUS
  <2>1. Phase \in Nat
    BY DEF Phase
  <2>2. remain \in Nat /\ MaxPolls - polls \in Nat
    BY MreadAssumption DEF IInv, TypeInv, PollsInv
  <2> QED  BY <2>1, <2>2 DEF Remaining
<1>2. IInv /\ PollsInv /\ [Next]_vars
      => [IF Host THEN Below(Remaining', Remaining) ELSE Remaining' = Remaining]_vars
  <2> SUFFICES ASSUME IInv, PollsInv, Next
               PROVE  IF Host THEN Below(Remaining', Remaining) ELSE Remaining' = Remaining
    OBVIOUS
  <2>1. CASE Host
    BY <2>1, HostFalls, Falls DEF Remaining
  <2>2. CASE ~Host
    BY <2>2 DEF Next, Device, Remaining, Phase
  <2> QED  BY <2>1, <2>2
<1>3. Init => PollsInv
  BY MreadAssumption DEF Init, PollsInv
<1> QED  BY <1>1, <1>2, <1>3, PollsNext, InductiveInvariant, PTL DEF Spec

=============================================================================
