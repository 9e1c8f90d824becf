--------------------------- MODULE Mwrite_proofs ---------------------------
(***************************************************************************)
(* Proofs about Mwrite for every number of chunks, attempts and polls.     *)
(***************************************************************************)
EXTENDS Mwrite, Progress, SequenceTheorems, FiniteSetTheorems, TLAPS

\* The host waits for the answer to the request with the number sent.
Awaiting == pc \in {"poll", "bulkpoll"}

\* The messages in p are in the order of the n requests: a request has one final
\* message and none after it.
Ordered(p, n) ==
    /\ \A k \in 1 .. Len(p) : p[k].of <= n
    /\ \A j, k \in 1 .. Len(p) : j < k => /\ p[j].of <= p[k].of
                                          /\ IsFinal(p[j]) => p[j].of < p[k].of
    /\ \A k \in 1 .. Len(p) : p[k].of = 0 => k = 1

\* The final message of request id is in p.
Answer(p, id) == \E k \in 1 .. Len(p) : IsFinal(p[k]) /\ p[k].of = id

\* Once one final message is in p that of every later request is, or is still to
\* come from a device that is at work.
Complete(p, n, atWork) ==
    /\ \A k \in 1 .. Len(p) : IsFinal(p[k]) =>
          \A id \in p[k].of + 1 .. n : (id = n /\ atWork) \/ Answer(p, id)
    /\ atWork => n > 0 /\ \A k \in 1 .. Len(p) : IsFinal(p[k]) => p[k].of < n

\* The answer to a request before the n-th is in p.
Late(p, n) == \E k \in 1 .. Len(p) : IsFinal(p[k]) /\ p[k].of < n

\* The host will read an answer that it does not wait for: it has given up waiting
\* for it, or it was there before the program started.
Lags ==
    /\ keeps
    /\ IF Awaiting THEN Late(pipe, sent) ELSE job # NoJob \/ Late(pipe, sent + 1)

\* The loop variables at each point of the program.
LoopInv ==
    /\ pc \in {"start", "status", "WriteMediaFile"} =>
          addr = 0 /\ pos = 0 /\ remain = 0 /\ bulkcmd = "none"
    /\ pc = "chunk" => pos = addr /\ remain = Chunks - addr /\ bulkcmd = "none"
    /\ pc \in {"command", "data", "poll"} =>
          /\ buf = addr /\ pos = addr + 1 /\ remain = Chunks - addr /\ remain # 0
          /\ bulkcmd = "none"
    /\ pc = "written" => bulkcmd = "none" /\ (wret = 0 => addr = Chunks)
    /\ pc \in {"bulkcmd", "bulkpoll", "verify", "success"} =>
          addr = Chunks /\ bulkcmd \in {"get_status", "verify"}
    /\ Awaiting => polls < MaxPolls

\* The answers in the pipe and the one to come are those to all requests from some
\* number on; of a device that forgets they are those to the last.
PipeInv ==
    /\ Ordered(pipe, sent)
    /\ Complete(pipe, sent, job # NoJob)
    /\ job # NoJob => job.id = sent
    /\ Awaiting => /\ sent > 0
                   /\ job # NoJob \/ Answer(pipe, sent)
                   /\ ~keeps => \A k \in 1 .. Len(pipe) : pipe[k].of = sent
    /\ pc = "data" /\ ~keeps => pipe = <<>>

\* What the device works on, and which messages say "success".
KindInv ==
    /\ pc \in {"start", "status", "WriteMediaFile", "data", "verify", "success"} => job = NoJob
    /\ bulkcmd = "none" \/ (bulkcmd = "get_status" /\ pc = "bulkcmd") =>
          /\ job # NoJob => job.req = "chunk"
          /\ \A k \in 1 .. Len(pipe) : pipe[k].of >= 1 => pipe[k].text # "success"
    /\ pc = "poll" /\ job # NoJob => job.at = addr /\ job.data = addr
    /\ pc = "bulkcmd" /\ bulkcmd = "verify" => job = NoJob
    /\ pc = "bulkpoll" /\ job # NoJob => job.req = bulkcmd
    /\ pc = "bulkpoll" /\ bulkcmd = "get_status" =>
          \A k \in 1 .. Len(pipe) : pipe[k].of < sent => pipe[k].text # "success"
    /\ addr > 0 => \A k \in 1 .. Len(pipe) : pipe[k].of >= 1

\* A host that does not lag has the chunks before addr in place, and what the
\* device may still do concerns the place addr.
MediaInv ==
    /\ ~Lags /\ pc # "exit" =>
          /\ \A c \in 0 .. addr - 1 : media[c] = c
          /\ job # NoJob =>
                /\ pc \in {"command", "poll", "written", "bulkpoll"}
                /\ pc = "written" => wret # 0
                /\ pc \in {"command", "written"} => job.at = addr
    /\ pc = "poll" =>
          \A k \in 1 .. Len(pipe) :
              pipe[k].of = sent /\ pipe[k].text = "OK!!" => media[addr] = addr

\* A host that has mistaken a message lags, and one that lags never gets past
\* get_status.
EndInv ==
    /\ mixed => keeps /\ (pc # "exit" => Lags)
    /\ pc \in {"verify", "success"} \/ (pc \in {"bulkcmd", "bulkpoll"} /\ bulkcmd = "verify") =>
          ~Lags
    /\ success => pc = "exit" /\ job = NoJob /\ Burned /\ ~mixed

\* The inductive invariant.
IInv == TypeOK /\ LoopInv /\ PipeInv /\ KindInv /\ MediaInv /\ EndInv

Messages == [text : Texts, of : Nat]

\* The fields of a message in the pipe.
LEMMA MessageFields ==
    ASSUME NEW p \in Seq(Messages)
    PROVE  /\ Len(p) \in Nat
           /\ \A k \in 1 .. Len(p) : p[k] \in Messages /\ p[k].of \in Nat /\ p[k].text \in Texts
<1>1. \A k \in 1 .. Len(p) : p[k] \in Messages
  BY ElementOfSeq
<1> QED  BY <1>1, LenProperties DEF Messages

\* One message more in the pipe.
LEMMA AppendMessage ==
    ASSUME NEW p \in Seq(Messages), NEW m \in Messages, NEW s, s = Append(p, m)
    PROVE  /\ s \in Seq(Messages)
           /\ Len(s) = Len(p) + 1 /\ Len(p) \in Nat
           /\ \A k \in 1 .. Len(p) : s[k] = p[k] /\ k \in 1 .. Len(s)
           /\ s[Len(p) + 1] = m
           /\ \A k \in 1 .. Len(s) : k \in 1 .. Len(p) \/ k = Len(p) + 1
           /\ Len(p) + 1 \in 1 .. Len(s)
<1>1. Len(p) \in Nat
  BY LenProperties
<1>2. /\ s \in Seq(Messages)
      /\ Len(s) = Len(p) + 1
      /\ \A k \in 1 .. Len(p) : s[k] = p[k]
      /\ s[Len(p) + 1] = m
  BY AppendProperties
<1> QED  BY <1>1, <1>2

\* One message less.
LEMMA TailMessage ==
    ASSUME NEW p \in Seq(Messages), p # <<>>, NEW s, s = Tail(p)
    PROVE  /\ s \in Seq(Messages)
           /\ Len(s) = Len(p) - 1 /\ Len(p) \in Nat \ {0}
           /\ \A k \in 1 .. Len(s) : s[k] = p[k + 1] /\ k + 1 \in 1 .. Len(p)
           /\ \A k \in 1 .. Len(p) : k = 1 \/ (k - 1 \in 1 .. Len(s) /\ s[k - 1] = p[k])
           /\ Head(p) = p[1] /\ 1 \in 1 .. Len(p)
           /\ Head(p) \in Messages
<1>1. /\ s \in Seq(Messages)
      /\ Len(s) = Len(p) - 1
      /\ \A i \in 1 .. Len(s) : s[i] = p[i + 1]
      /\ Head(p) \in Messages
  BY HeadTailProperties
<1>2. Len(p) \in Nat \ {0}
  BY EmptySeq
<1>3. Head(p) = p[1]
  OBVIOUS
<1> QED  BY <1>1, <1>2, <1>3

-----------------------------------------------------------------------------
\* What the messages of the pipe are after each thing that can happen to it.

\* A busy message, and a final one.
LEMMA BusyKeepsAnswers ==
    ASSUME NEW p \in Seq(Messages), NEW n \in Nat, NEW m \in Messages,
           Ordered(p, n), Complete(p, n, TRUE), m.of = n, ~IsFinal(m)
    PROVE  Ordered(Append(p, m), n) /\ Complete(Append(p, m), n, TRUE)
<1> DEFINE s == Append(p, m)
<1> HIDE DEF s
<1>1. /\ s \in Seq(Messages) /\ Len(s) = Len(p) + 1 /\ Len(p) \in Nat
      /\ \A k \in 1 .. Len(p) : s[k] = p[k] /\ k \in 1 .. Len(s)
      /\ s[Len(p) + 1] = m
      /\ \A k \in 1 .. Len(s) : k \in 1 .. Len(p) \/ k = Len(p) + 1
  BY AppendMessage DEF s
<1>2. Ordered(s, n)
  <2>1. \A k \in 1 .. Len(p) : p[k].of \in Nat
    BY MessageFields
  <2>2. \A k \in 1 .. Len(s) : s[k].of <= n /\ (s[k].of = 0 => k = 1)
    BY <1>1, <2>1 DEF Ordered, Complete
  <2>3. ASSUME NEW j \in 1 .. Len(s), NEW k \in 1 .. Len(s), j < k
        PROVE  s[j].of <= s[k].of /\ (IsFinal(s[j]) => s[j].of < s[k].of)
    <3>1. j \in 1 .. Len(p) /\ s[j] = p[j]
      BY <1>1, <2>3
    <3>2. CASE k \in 1 .. Len(p)
      BY <1>1, <2>3, <3>1, <3>2 DEF Ordered
    <3>3. CASE k = Len(p) + 1
      BY <1>1, <3>1, <3>3 DEF Ordered, Complete
    <3>4. k \in 1 .. Len(p) \/ k = Len(p) + 1
      BY <1>1
    <3> QED  BY <3>2, <3>3, <3>4
  <2> QED  BY <2>2, <2>3 DEF Ordered
<1>3. Complete(s, n, TRUE)
  <2>1. \A k \in 1 .. Len(s) : IsFinal(s[k]) => k \in 1 .. Len(p) /\ s[k] = p[k]
    BY <1>1
  <2>2. ASSUME NEW k \in 1 .. Len(s), IsFinal(s[k]), NEW id \in s[k].of + 1 .. n
        PROVE  id = n \/ Answer(s, id)
    <3>1. id = n \/ Answer(p, id)
      BY <2>1, <2>2 DEF Complete
    <3>2. Answer(p, id) => Answer(s, id)
      BY <1>1 DEF Answer
    <3> QED  BY <3>1, <3>2
  <2>3. \A k \in 1 .. Len(s) : IsFinal(s[k]) => s[k].of < n
    BY <2>1 DEF Complete
  <2> QED  BY <2>2, <2>3 DEF Complete
<1> QED  BY <1>2, <1>3 DEF s

LEMMA FinalKeepsAnswers ==
    ASSUME NEW p \in Seq(Messages), NEW n \in Nat, NEW m \in Messages,
           Ordered(p, n), Complete(p, n, TRUE), m.of = n, IsFinal(m)
    PROVE  /\ Ordered(Append(p, m), n) /\ Complete(Append(p, m), n, FALSE)
           /\ Answer(Append(p, m), n)
<1> DEFINE s == Append(p, m)
<1> HIDE DEF s
<1>1. /\ s \in Seq(Messages) /\ Len(s) = Len(p) + 1 /\ Len(p) \in Nat
      /\ \A k \in 1 .. Len(p) : s[k] = p[k] /\ k \in 1 .. Len(s)
      /\ s[Len(p) + 1] = m
      /\ \A k \in 1 .. Len(s) : k \in 1 .. Len(p) \/ k = Len(p) + 1
      /\ Len(p) + 1 \in 1 .. Len(s)
  BY AppendMessage DEF s
<1>2. Ordered(s, n)
  <2>1. \A k \in 1 .. Len(p) : p[k].of \in Nat
    BY MessageFields
  <2>2. \A k \in 1 .. Len(s) : s[k].of <= n /\ (s[k].of = 0 => k = 1)
    BY <1>1, <2>1 DEF Ordered, Complete
  <2>3. ASSUME NEW j \in 1 .. Len(s), NEW k \in 1 .. Len(s), j < k
        PROVE  s[j].of <= s[k].of /\ (IsFinal(s[j]) => s[j].of < s[k].of)
    <3>1. j \in 1 .. Len(p) /\ s[j] = p[j]
      BY <1>1, <2>3
    <3>2. CASE k \in 1 .. Len(p)
      BY <1>1, <2>3, <3>1, <3>2 DEF Ordered
    <3>3. CASE k = Len(p) + 1
      BY <1>1, <3>1, <3>3 DEF Ordered, Complete
    <3> QED  BY <1>1, <3>2, <3>3
  <2> QED  BY <2>2, <2>3 DEF Ordered
<1>3. Answer(s, n)
  BY <1>1 DEF Answer
<1>4. Complete(s, n, FALSE)
  <2>1. ASSUME NEW k \in 1 .. Len(s), IsFinal(s[k]), NEW id \in s[k].of + 1 .. n
        PROVE  Answer(s, id)
    <3>1. CASE id = n
      BY <1>3, <3>1
    <3>2. CASE id # n
      <4>1. k \in 1 .. Len(p) /\ s[k] = p[k] /\ p[k].of \in Nat
        BY <1>1, <2>1, <3>2, MessageFields
      <4>2. Answer(p, id)
        BY <2>1, <3>2, <4>1 DEF Complete
      <4> QED  BY <1>1, <4>2 DEF Answer
    <3> QED  BY <3>1, <3>2
  <2> QED  BY <2>1 DEF Complete
<1> QED  BY <1>2, <1>3, <1>4 DEF s

\* The host takes a message.
LEMMA TailKeepsAnswers ==
    ASSUME NEW p \in Seq(Messages), NEW n \in Nat, p # <<>>, Ordered(p, n)
    PROVE  /\ Ordered(Tail(p), n)
           /\ Complete(p, n, TRUE) => Complete(Tail(p), n, TRUE)
           /\ Complete(p, n, FALSE) => Complete(Tail(p), n, FALSE)
<1> DEFINE s == Tail(p)
<1> HIDE DEF s
<1>1. /\ s \in Seq(Messages) /\ Len(s) = Len(p) - 1 /\ Len(p) \in Nat \ {0}
      /\ \A k \in 1 .. Len(s) : s[k] = p[k + 1] /\ k + 1 \in 1 .. Len(p)
      /\ \A k \in 1 .. Len(p) : k = 1 \/ (k - 1 \in 1 .. Len(s) /\ s[k - 1] = p[k])
      /\ 1 \in 1 .. Len(p)
  BY TailMessage DEF s
<1>2. Ordered(s, n)
  <2>1. \A k \in 1 .. Len(p) : p[k].of \in Nat
    BY MessageFields
  <2>2. ASSUME NEW k \in 1 .. Len(s) PROVE s[k].of <= n /\ (s[k].of = 0 => k = 1)
    <3>1. s[k] = p[k + 1] /\ k + 1 \in 1 .. Len(p) /\ k + 1 # 1
      BY <1>1
    <3> QED  BY <3>1 DEF Ordered
  <2>3. ASSUME NEW j \in 1 .. Len(s), NEW k \in 1 .. Len(s), j < k
        PROVE  s[j].of <= s[k].of /\ (IsFinal(s[j]) => s[j].of < s[k].of)
    BY <1>1, <2>3 DEF Ordered
  <2> QED  BY <2>2, <2>3 DEF Ordered
<1>3. ASSUME NEW k \in 1 .. Len(s), IsFinal(s[k]), NEW id \in s[k].of + 1 .. n, Answer(p, id)
      PROVE  Answer(s, id)
  <2>1. PICK j \in 1 .. Len(p) : IsFinal(p[j]) /\ p[j].of = id
    BY <1>3 DEF Answer
  <2>2. j # 1
    BY <1>1, <1>3, <2>1, MessageFields DEF Ordered
  <2> QED  BY <1>1, <2>1, <2>2 DEF Answer
<1>4. ASSUME Complete(p, n, TRUE) PROVE Complete(s, n, TRUE)
  BY <1>1, <1>3, <1>4 DEF Complete
<1>5. ASSUME Complete(p, n, FALSE) PROVE Complete(s, n, FALSE)
  BY <1>1, <1>3, <1>5 DEF Complete
<1> QED  BY <1>2, <1>4, <1>5 DEF s

\* The host sends a request.
LEMMA RequestKeepsAnswers ==
    ASSUME NEW p \in Seq(Messages), NEW n \in Nat, Ordered(p, n), Complete(p, n, FALSE)
    PROVE  Ordered(p, n + 1) /\ Complete(p, n + 1, TRUE)
<1>1. Ordered(p, n + 1)
  BY MessageFields DEF Ordered
<1>2. \A k \in 1 .. Len(p) : p[k].of \in Nat /\ p[k].of < n + 1
  BY MessageFields DEF Ordered
<1>3. ASSUME NEW k \in 1 .. Len(p), IsFinal(p[k]), NEW id \in p[k].of + 1 .. n + 1
      PROVE  id = n + 1 \/ Answer(p, id)
  BY <1>2, <1>3 DEF Complete
<1>4. Complete(p, n + 1, TRUE)
  BY <1>2, <1>3 DEF Complete
<1> QED  BY <1>1, <1>4

\* The device forgets what it has said.
LEMMA NoAnswers ==
    ASSUME NEW n \in Nat
    PROVE  Ordered(<<>>, n) /\ Complete(<<>>, n, FALSE) /\ ~Late(<<>>, n)
BY DEF Ordered, Complete, Late

-----------------------------------------------------------------------------
\* What the device does.

\* Work on a request changes at most the place its command named; good work puts
\* the chunk there.
LEMMA MediaAfterWork ==
    ASSUME media \in [Chunk -> Chunk \cup {Old, Bad}], job \in Requests,
           NEW good \in BOOLEAN, NEW m \in MediaAfter(good)
    PROVE  /\ m \in [Chunk -> Chunk \cup {Old, Bad}]
           /\ \A c \in Chunk : c # job.at => m[c] = media[c]
           /\ job.req # "chunk" => m = media
           /\ job.req = "chunk" /\ good => m[job.at] = job.data
<1>1. job.at \in Chunk /\ job.data \in Chunk
  BY DEF Requests
<1> QED  BY <1>1 DEF MediaAfter

\* The messages it sends.
LEMMA MessageKinds ==
    ASSUME job \in Requests, NEW good \in BOOLEAN
    PROVE  /\ FinalMessage(good) \in Messages
           /\ FinalMessage(good).of = job.id
           /\ IsFinal(FinalMessage(good))
           /\ job.req = "chunk" => FinalMessage(good).text # "success"
           /\ FinalMessage(good).text = "OK!!" => job.req = "chunk" /\ good
           /\ Message(BusyText(job.req), job.id) \in Messages
           /\ Message(BusyText(job.req), job.id).of = job.id
           /\ ~IsFinal(Message(BusyText(job.req), job.id))
           /\ Message(BusyText(job.req), job.id).text \notin {"success", "OK!!"}
BY DEF FinalMessage, Message, BusyText, GoodText, Messages, Texts, IsFinal, Busy, Requests

\* A command that interrupts the device.
LEMMA InterruptEffect ==
    ASSUME TypeOK, Interrupt
    PROVE  /\ media' \in [Chunk -> Chunk \cup {Old, Bad}]
           /\ \A c \in Chunk : media'[c] # media[c] =>
                 job # NoJob /\ job.req = "chunk" /\ c = job.at
           /\ \/ job = NoJob /\ keeps /\ pipe' = pipe
              \/ ~keeps /\ pipe' = <<>>
              \/ /\ job \in Requests /\ job # NoJob /\ keeps
                 /\ \E good \in BOOLEAN : pipe' = Append(pipe, FinalMessage(good))
<1>1. CASE job = NoJob
  BY <1>1 DEF Interrupt, TypeOK
<1>2. CASE job # NoJob
  <2>1. job \in Requests /\ media \in [Chunk -> Chunk \cup {Old, Bad}]
    BY <1>2 DEF TypeOK
  <2>2. PICK good \in BOOLEAN :
           /\ media' \in MediaAfter(good)
           /\ (keeps /\ pipe' = Append(pipe, FinalMessage(good))) \/ (~keeps /\ pipe' = <<>>)
    BY <1>2 DEF Interrupt
  <2>3. /\ media' \in [Chunk -> Chunk \cup {Old, Bad}]
        /\ \A c \in Chunk : c # job.at => media'[c] = media[c]
        /\ job.req # "chunk" => media' = media
    BY <2>1, <2>2, MediaAfterWork
  <2> QED  BY <1>2, <2>1, <2>2, <2>3
<1> QED  BY <1>1, <1>2

\* The pipe it leaves behind.
LEMMA InterruptPipe ==
    ASSUME TypeOK, Interrupt
    PROVE  pipe' \in Seq(Messages)
<1>1. pipe \in Seq(Messages)
  BY DEF TypeOK, Messages
<1>2. ASSUME job \in Requests, NEW good \in BOOLEAN, pipe' = Append(pipe, FinalMessage(good))
      PROVE  pipe' \in Seq(Messages)
  BY <1>1, <1>2, MessageKinds, AppendMessage
<1>3. <<>> \in Seq(Messages)
  BY EmptySeq
<1> QED  BY <1>1, <1>2, <1>3, InterruptEffect

\* The host takes the next message.
LEMMA TakeEffect ==
    ASSUME TypeOK, TakeMessage
    PROVE  /\ pipe \in Seq(Messages) /\ pipe # <<>> /\ pipe' = Tail(pipe)
           /\ pipe' \in Seq(Messages)
           /\ Head(pipe) = pipe[1] /\ pipe[1] \in Messages /\ 1 \in 1 .. Len(pipe)
<1>1. pipe \in Seq(Messages) /\ pipe # <<>> /\ pipe' = Tail(pipe)
  BY DEF TypeOK, Messages, TakeMessage
<1> QED  BY <1>1, TailMessage

-----------------------------------------------------------------------------
\* Before the first step.
LEMMA InitInv == Init => IInv
<1> SUFFICES ASSUME Init PROVE IInv
  OBVIOUS
<1>1. /\ pipe \in Seq(Messages) /\ job = NoJob /\ sent = 0
      /\ \A k \in 1 .. Len(pipe) : k = 1 /\ pipe[k].of = 0
  <2>1. CASE pipe = <<>>
    BY <2>1, EmptySeq DEF Init, DevInit
  <2>2. ASSUME NEW t \in Texts, pipe = <<Message(t, 0)>> 
        PROVE  /\ pipe \in Seq(Messages) /\ job = NoJob /\ sent = 0
               /\ \A k \in 1 .. Len(pipe) : k = 1 /\ pipe[k].of = 0
    <3>1. Message(t, 0) \in Messages
      BY DEF Message, Messages
    <3> QED  BY <2>2, <3>1 DEF Init, DevInit, Message
  <2>3. pipe = <<>> \/ \E t \in Texts : pipe = <<Message(t, 0)>>
    BY DEF Init, DevInit
  <2> QED  BY <2>1, <2>2, <2>3
<1>2. TypeOK
  <2>1. media \in [Chunk -> Chunk \cup {Old, Bad}] /\ keeps \in BOOLEAN /\ sent \in Nat
    BY DEF Init, DevInit
  <2>2. pipe \in Seq([text : Texts, of : Nat]) /\ job \in Requests \cup {NoJob}
    BY <1>1 DEF Messages
  <2>3. /\ addr \in 0 .. Chunks /\ pos \in 0 .. Chunks /\ remain \in 0 .. Chunks
        /\ buf \in Chunk /\ attempt \in 0 .. Attempts - 1 /\ polls \in 0 .. MaxPolls
        /\ wret \in {1, 0, -1} /\ mixed \in BOOLEAN
    <3>1. MediaInit
      BY DEF Init
    <3>2. attempt \in 0 .. Attempts - 1 /\ polls \in 0 .. MaxPolls
      BY <3>1, MediaAssumption DEF MediaInit
    <3>3. mixed \in BOOLEAN
      BY <3>1 DEF MediaInit
    <3> QED  BY <3>1, <3>2, <3>3, ChunksAssumption DEF MediaInit, Chunk
  <2>4. /\ pc \in HostStates /\ verifyFile \in {"none", "file", "missing"}
        /\ bulkcmd \in {"none", "get_status", "verify"}
        /\ ret \in {1, 0, -103, -236, -300, -307, -314, -328, -354}
        /\ success \in BOOLEAN
    BY DEF Init, HostStates
  <2> QED  BY <2>1, <2>2, <2>3, <2>4 DEF TypeOK
<1>3. Ordered(pipe, sent) /\ Complete(pipe, sent, job # NoJob)
  BY <1>1 DEF Ordered, Complete
<1>4. LoopInv
  BY DEF Init, MediaInit, LoopInv, Awaiting
<1>5. PipeInv
  BY <1>1, <1>3 DEF Init, PipeInv, Awaiting
<1>6. KindInv
  BY <1>1 DEF Init, MediaInit, KindInv
<1>7. MediaInv
  BY <1>1 DEF Init, MediaInit, MediaInv
<1>8. EndInv
  BY DEF Init, MediaInit, EndInv
<1> QED  BY <1>2, <1>4, <1>5, <1>6, <1>7, <1>8 DEF IInv

-----------------------------------------------------------------------------
\* What a step may do to the device and its messages.
Silent == UNCHANGED devvars /\ (Awaiting' => Awaiting) /\ (pc' = "data" => pc = "data")
Interrupts ==
    /\ Interrupt /\ job' = NoJob /\ UNCHANGED <<keeps, sent>>
    /\ pc \in {"start", "command"} /\ pc' \in {"status", "data", "written"}
Takes == TakeMessage /\ Awaiting /\ (Awaiting' => ~IsFinal(Head(pipe))) /\ pc' # "data"
Works == Device /\ UNCHANGED <<filevars, pc, polls, mixed, cmdvars>>

LEMMA StepKinds ==
    ASSUME Next
    PROVE  Silent \/ Interrupts \/ MediaDataOk \/ BulkCmdSend \/ Takes \/ Works
<1>1. CASE NoImage \/ TplCmdFail \/ StatusOk \/ StatusFail \/ Written \/ WrittenFail
  BY <1>1 DEF NoImage, TplCmdFail, StatusOk, StatusFail, Written, WrittenFail, Exit, Silent,
     Awaiting
<1>2. CASE OpenImage \/ OpenImageFail \/ ReadChunk \/ ReadChunkFail \/ AllSent
  BY <1>2 DEF OpenImage, OpenImageFail, ReadChunk, ReadChunkFail, AllSent, LeaveLoop, Silent,
     Awaiting
<1>3. CASE MediaDataFail \/ PollFail \/ BulkCmdSendFail \/ BulkPollFail \/ Verify \/ Success
  BY <1>3 DEF MediaDataFail, PollFail, BulkCmdSendFail, BulkPollFail, Verify, Success,
     BulkCmdError, Exit, LeaveLoop, Silent, Awaiting
<1>4. CASE TplCmdOk \/ MediaCommandOk \/ MediaCommandFail
  BY <1>4 DEF TplCmdOk, MediaCommandOk, MediaCommandFail, AcceptChunk, LeaveLoop, Silent,
     Interrupts, Awaiting
<1>5. CASE PollBusy
  BY <1>5 DEF PollBusy, Takes, Awaiting, IsFinal, Busy
<1>6. CASE PollDeadline \/ PollAnswered
  BY <1>6 DEF PollDeadline, PollAnswered, NextAttempt, LeaveLoop, Takes, Awaiting
<1>7. CASE BulkPollBusy
  BY <1>7 DEF BulkPollBusy, Takes, Awaiting, IsFinal, Busy
<1>8. CASE BulkPollRefused \/ BulkPollSuccess
  BY <1>8 DEF BulkPollRefused, BulkPollSuccess, BulkCmdError, Exit, Takes, Awaiting
<1> QED
  BY <1>1, <1>2, <1>3, <1>4, <1>5, <1>6, <1>7, <1>8 DEF Next, Host, WriteMediaFile, Works

\* The device keeps its types...
DeviceType ==
    /\ media \in [Chunk -> Chunk \cup {Old, Bad}]
    /\ job \in Requests \cup {NoJob}
    /\ pipe \in Seq(Messages)
    /\ keeps \in BOOLEAN
    /\ sent \in Nat

\* ... and so does the host.
HostType ==
    /\ pc \in HostStates
    /\ addr \in 0 .. Chunks /\ pos \in 0 .. Chunks /\ remain \in 0 .. Chunks
    /\ buf \in Chunk
    /\ attempt \in 0 .. Attempts - 1 /\ polls \in 0 .. MaxPolls
    /\ wret \in {1, 0, -1}
    /\ verifyFile \in {"none", "file", "missing"}
    /\ bulkcmd \in {"none", "get_status", "verify"}
    /\ ret \in {1, 0, -103, -236, -300, -307, -314, -328, -354}

LEMMA TypeParts == TypeOK <=> DeviceType /\ HostType /\ mixed \in BOOLEAN /\ success \in BOOLEAN
BY DEF TypeOK, DeviceType, HostType, Messages

LEMMA DeviceTypeNext ==
    ASSUME TypeOK, LoopInv, Next
    PROVE  DeviceType'
<1>1. DeviceType
  BY TypeParts
<1>2. CASE Silent
  BY <1>1, <1>2 DEF Silent, devvars, DeviceType
<1>3. CASE Interrupts
  <2>1. pipe' \in Seq(Messages) /\ media' \in [Chunk -> Chunk \cup {Old, Bad}]
    BY <1>3, InterruptPipe, InterruptEffect DEF Interrupts
  <2> QED  BY <1>1, <1>3, <2>1 DEF Interrupts, DeviceType
<1>4. CASE MediaDataOk
  <2>1. addr \in Chunk /\ buf \in Chunk
    BY <1>4, ChunksAssumption DEF MediaDataOk, LoopInv, TypeOK, Chunk
  <2>2. job' \in Requests
    BY <1>1, <1>4, <2>1 DEF MediaDataOk, Requests, DeviceType
  <2> QED  BY <1>1, <1>4, <2>2 DEF MediaDataOk, DeviceType
<1>5. CASE BulkCmdSend
  <2>1. pipe' \in Seq(Messages) /\ media' \in [Chunk -> Chunk \cup {Old, Bad}]
    BY <1>5, InterruptPipe, InterruptEffect DEF BulkCmdSend
  <2>2. bulkcmd \in {"get_status", "verify"} /\ 0 \in Chunk
    BY <1>5, ChunksAssumption DEF BulkCmdSend, LoopInv, Chunk
  <2>3. job' \in Requests
    BY <1>1, <1>5, <2>2 DEF BulkCmdSend, Requests, DeviceType
  <2> QED  BY <1>1, <1>5, <2>1, <2>3 DEF BulkCmdSend, DeviceType
<1>6. CASE Takes
  <2>1. pipe' \in Seq(Messages)
    BY <1>6, TakeEffect DEF Takes
  <2> QED  BY <1>1, <1>6, <2>1 DEF Takes, TakeMessage, DeviceType
<1>7. CASE Works
  <2>1. CASE DevBusy
    <3>1. job \in Requests
      BY <1>1, <2>1 DEF DevBusy, DeviceType
    <3>2. pipe' \in Seq(Messages)
      BY <1>1, <2>1, <3>1, MessageKinds, AppendMessage DEF DevBusy, DeviceType
    <3> QED  BY <1>1, <2>1, <3>2 DEF DevBusy, DeviceType
  <2>2. ASSUME NEW good \in BOOLEAN, DevAnswer(good) PROVE DeviceType'
    <3>1. job \in Requests
      BY <1>1, <2>2 DEF DevAnswer, DeviceType
    <3>2. pipe' \in Seq(Messages)
      BY <1>1, <2>2, <3>1, MessageKinds, AppendMessage DEF DevAnswer, DeviceType
    <3>3. media' \in [Chunk -> Chunk \cup {Old, Bad}]
      BY <1>1, <2>2, <3>1, MediaAfterWork DEF DevAnswer, DeviceType
    <3> QED  BY <1>1, <2>2, <3>2, <3>3 DEF DevAnswer, DeviceType
  <2> QED  BY <1>7, <2>1, <2>2 DEF Works, Device
<1> QED  BY <1>2, <1>3, <1>4, <1>5, <1>6, <1>7, StepKinds

LEMMA HostTypeNext ==
    ASSUME TypeOK, LoopInv, Next
    PROVE  HostType' /\ LoopInv'
<1>1. HostType
  BY TypeParts
<1> USE <1>1 DEF HostType, LoopInv, Awaiting, HostStates, Exit, filevars, cmdvars
<1>2. CASE NoImage \/ TplCmdFail \/ StatusOk \/ StatusFail \/ Written \/ WrittenFail
  BY <1>2 DEF NoImage, TplCmdFail, StatusOk, StatusFail, Written, WrittenFail
<1>3. CASE WriteMediaFile /\ UNCHANGED cmdvars
  <2>1. CASE OpenImage \/ OpenImageFail
    BY <1>3, <2>1, ChunksAssumption DEF OpenImage, OpenImageFail
  <2>2. CASE ReadChunk
    BY <1>3, <2>2, ChunksAssumption, MediaAssumption DEF ReadChunk, Chunk
  <2>3. CASE ReadChunkFail \/ AllSent
    BY <1>3, <2>3, ChunksAssumption DEF ReadChunkFail, AllSent, LeaveLoop
  <2>4. CASE MediaCommandOk
    BY <1>3, <2>4 DEF MediaCommandOk
  <2>9. CASE MediaCommandFail \/ MediaDataFail \/ PollFail
    BY <1>3, <2>9, ChunksAssumption DEF MediaCommandFail, MediaDataFail, PollFail, LeaveLoop
  <2>5. CASE MediaDataOk
    BY <1>3, <2>5, MediaAssumption DEF MediaDataOk
  <2>6. CASE PollBusy
    BY <1>3, <2>6, MediaAssumption DEF PollBusy, TakeMessage
  <2>7. CASE PollDeadline
    BY <1>3, <2>7, MediaAssumption, ChunksAssumption
       DEF PollDeadline, TakeMessage, NextAttempt, LeaveLoop
  <2>8. CASE PollAnswered
    <3>1. pc = "poll" /\ pc' \in {"chunk", "command", "written"} /\ bulkcmd' = bulkcmd
      BY <1>3, <2>8 DEF PollAnswered, NextAttempt, LeaveLoop
    <3>2. CASE pc' = "chunk"
      BY <1>3, <2>8, <3>1, <3>2, MediaAssumption, ChunksAssumption
         DEF PollAnswered, TakeMessage, NextAttempt, LeaveLoop
    <3>3. CASE pc' = "command"
      BY <1>3, <2>8, <3>1, <3>3, MediaAssumption, ChunksAssumption
         DEF PollAnswered, TakeMessage, NextAttempt, LeaveLoop
    <3>4. CASE pc' = "written"
      BY <1>3, <2>8, <3>1, <3>4, MediaAssumption, ChunksAssumption
         DEF PollAnswered, TakeMessage, NextAttempt, LeaveLoop
    <3> QED  BY <3>1, <3>2, <3>3, <3>4
  <2> QED
    BY <1>3, <2>1, <2>2, <2>3, <2>4, <2>5, <2>6, <2>7, <2>8, <2>9 DEF WriteMediaFile
<1>4. CASE TplCmdOk
  BY <1>4 DEF TplCmdOk
<1>5. CASE BulkCmdSend
  BY <1>5, MediaAssumption DEF BulkCmdSend
<1>6. CASE BulkCmdSendFail \/ BulkPollFail
  BY <1>6 DEF BulkCmdSendFail, BulkPollFail, BulkCmdError
<1>7. CASE BulkPollBusy
  BY <1>7, MediaAssumption DEF BulkPollBusy, TakeMessage
<1>8. CASE BulkPollRefused \/ BulkPollSuccess
  <2>1. CASE BulkPollRefused
    BY <2>1, MediaAssumption DEF BulkPollRefused, TakeMessage, BulkCmdError
  <2>2. CASE BulkPollSuccess
    BY <2>2, MediaAssumption DEF BulkPollSuccess, TakeMessage
  <2> QED  BY <1>8, <2>1, <2>2
<1>9. CASE Verify \/ Success
  BY <1>9 DEF Verify, Success
<1>10. CASE Works
  BY <1>10 DEF Works
<1> QED
  BY <1>2, <1>3, <1>4, <1>5, <1>6, <1>7, <1>8, <1>9, <1>10 DEF Next, Host, Works

-----------------------------------------------------------------------------
\* The rest of the types: the two Boolean variables of the host.
LEMMA BooleansNext ==
    ASSUME mixed \in BOOLEAN, success \in BOOLEAN, Next
    PROVE  mixed' \in BOOLEAN /\ success' \in BOOLEAN
<1> USE DEF Exit, filevars, cmdvars
<1>1. CASE mixed' = mixed /\ success' = success
  BY <1>1
<1>2. CASE mixed' = (mixed \/ Head(pipe).of # sent) /\ success' = success
  BY <1>2, Zenon
<1>3. CASE mixed' = mixed /\ success' = TRUE
  BY <1>3
<1>4. CASE NoImage \/ TplCmdOk \/ TplCmdFail \/ StatusOk \/ StatusFail \/ Written \/ WrittenFail
  BY <1>1, <1>4 DEF NoImage, TplCmdOk, TplCmdFail, StatusOk, StatusFail, Written, WrittenFail
<1>5. CASE WriteMediaFile /\ UNCHANGED cmdvars
  <2>1. PollAnswered \/ mixed' = mixed
    BY <1>5 DEF WriteMediaFile, OpenImage, OpenImageFail, ReadChunk, ReadChunkFail, AllSent,
       MediaCommandOk, MediaCommandFail, MediaDataOk, MediaDataFail, PollBusy, PollDeadline,
       PollFail
  <2> QED  BY <1>1, <1>2, <1>5, <2>1 DEF PollAnswered
<1>6. CASE BulkCmdSend \/ BulkCmdSendFail \/ BulkPollBusy \/ BulkPollRefused \/ BulkPollFail
  BY <1>1, <1>6 DEF BulkCmdSend, BulkCmdSendFail, BulkPollBusy, BulkPollRefused, BulkPollFail,
     BulkCmdError
<1>7. CASE BulkPollSuccess
  BY <1>2, <1>7 DEF BulkPollSuccess
<1>8. CASE Verify
  BY <1>1, <1>8 DEF Verify
<1>9. CASE Success
  BY <1>3, <1>9 DEF Success
<1>10. CASE Works
  BY <1>1, <1>10 DEF Works
<1> QED  BY <1>4, <1>5, <1>6, <1>7, <1>8, <1>9, <1>10 DEF Next, Host, Works

LEMMA TypeNext ==
    ASSUME TypeOK, LoopInv, Next
    PROVE  TypeOK' /\ LoopInv'
<1>1. DeviceType' /\ HostType' /\ LoopInv'
  BY DeviceTypeNext, HostTypeNext
<1>2. mixed' \in BOOLEAN /\ success' \in BOOLEAN
  BY TypeParts, BooleansNext
<1>3. TypeOK' <=> DeviceType' /\ HostType' /\ mixed' \in BOOLEAN /\ success' \in BOOLEAN
  BY DEF TypeOK, DeviceType, HostType, Messages
<1> QED  BY <1>1, <1>2, <1>3

-----------------------------------------------------------------------------
\* A command that reaches the device leaves no request open.
LEMMA InterruptAnswers ==
    ASSUME TypeOK, PipeInv, Interrupt
    PROVE  /\ pipe' \in Seq(Messages)
           /\ Ordered(pipe', sent) /\ Complete(pipe', sent, FALSE)
           /\ ~keeps => pipe' = <<>>
           /\ job = NoJob /\ keeps => pipe' = pipe
<1>1. pipe \in Seq(Messages) /\ sent \in Nat
  BY DEF TypeOK, Messages
<1>2. CASE job = NoJob /\ keeps /\ pipe' = pipe
  BY <1>1, <1>2 DEF PipeInv
<1>3. CASE ~keeps /\ pipe' = <<>>
  BY <1>1, <1>3, NoAnswers, EmptySeq
<1>4. ASSUME job \in Requests, job # NoJob, keeps, NEW good \in BOOLEAN,
             pipe' = Append(pipe, FinalMessage(good))
      PROVE  pipe' \in Seq(Messages) /\ Ordered(pipe', sent) /\ Complete(pipe', sent, FALSE)
  <2>1. /\ FinalMessage(good) \in Messages /\ FinalMessage(good).of = sent
        /\ IsFinal(FinalMessage(good))
    BY <1>4, MessageKinds DEF PipeInv
  <2>2. Ordered(pipe, sent) /\ Complete(pipe, sent, TRUE)
    BY <1>4 DEF PipeInv
  <2> QED  BY <1>1, <1>4, <2>1, <2>2, FinalKeepsAnswers, AppendMessage
<1> QED  BY <1>2, <1>3, <1>4, InterruptEffect

LEMMA PipeNext ==
    ASSUME IInv, Next
    PROVE  PipeInv'
<1>1. /\ pipe \in Seq(Messages) /\ sent \in Nat /\ TypeOK /\ LoopInv /\ PipeInv /\ KindInv
      /\ job \in Requests \cup {NoJob}
  BY DEF IInv, TypeOK, Messages
<1>2. CASE Silent
  BY <1>1, <1>2 DEF Silent, devvars, PipeInv
<1>3. CASE Interrupts
  BY <1>1, <1>3, InterruptAnswers DEF Interrupts, PipeInv, Awaiting
<1>4. CASE MediaDataOk
  <2>1. job = NoJob /\ Ordered(pipe, sent) /\ Complete(pipe, sent, FALSE)
    BY <1>1, <1>4 DEF MediaDataOk, KindInv, PipeInv
  <2>2. Ordered(pipe, sent + 1) /\ Complete(pipe, sent + 1, TRUE)
    BY <1>1, <2>1, RequestKeepsAnswers
  <2>3. ~keeps => pipe = <<>>
    BY <1>1, <1>4 DEF MediaDataOk, PipeInv
  <2>4. job' # NoJob /\ job'.id = sent' /\ sent' = sent + 1 /\ pipe' = pipe /\ keeps' = keeps
    BY <1>4 DEF MediaDataOk, NoJob
  <2>5. Ordered(pipe', sent') /\ Complete(pipe', sent', job' # NoJob) /\ sent' > 0
    BY <1>1, <2>2, <2>4 DEF Complete
  <2>6. ~keeps' => \A k \in 1 .. Len(pipe') : pipe'[k].of = sent'
    BY <2>3, <2>4
  <2> QED  BY <1>4, <2>4, <2>5, <2>6 DEF MediaDataOk, PipeInv
<1>5. CASE BulkCmdSend
  <2>1. /\ pipe' \in Seq(Messages) /\ Ordered(pipe', sent) /\ Complete(pipe', sent, FALSE)
        /\ ~keeps => pipe' = <<>>
    BY <1>1, <1>5, InterruptAnswers DEF BulkCmdSend
  <2>2. Ordered(pipe', sent + 1) /\ Complete(pipe', sent + 1, TRUE)
    BY <1>1, <2>1, RequestKeepsAnswers
  <2>3. job' # NoJob /\ job'.id = sent' /\ sent' = sent + 1 /\ keeps' = keeps /\ pc' = "bulkpoll"
    BY <1>5 DEF BulkCmdSend, NoJob
  <2>4. Ordered(pipe', sent') /\ Complete(pipe', sent', job' # NoJob) /\ sent' > 0
    BY <1>1, <2>2, <2>3 DEF Complete
  <2>5. ~keeps' => \A k \in 1 .. Len(pipe') : pipe'[k].of = sent'
    BY <2>1, <2>3
  <2> QED  BY <2>3, <2>4, <2>5 DEF PipeInv
<1>6. CASE Takes
  <2>1. /\ pipe # <<>> /\ pipe' = Tail(pipe) /\ UNCHANGED <<job, keeps, sent>>
        /\ Head(pipe) = pipe[1]
    BY <1>1, <1>6, TakeEffect DEF Takes, TakeMessage
  <2>2. Ordered(pipe', sent) /\ Complete(pipe', sent, job # NoJob)
    <3>1. Ordered(pipe, sent) /\ Complete(pipe, sent, job # NoJob)
      BY <1>1 DEF PipeInv
    <3>2. CASE job = NoJob
      BY <1>1, <2>1, <3>1, <3>2, TailKeepsAnswers
    <3>3. CASE job # NoJob
      BY <1>1, <2>1, <3>1, <3>3, TailKeepsAnswers
    <3> QED  BY <3>2, <3>3
  <2>3. /\ \A k \in 1 .. Len(pipe') : pipe'[k] = pipe[k + 1] /\ k + 1 \in 1 .. Len(pipe)
        /\ \A k \in 1 .. Len(pipe) : k = 1 \/ (k - 1 \in 1 .. Len(pipe') /\ pipe'[k - 1] = pipe[k])
    BY <1>1, <2>1, TailMessage
  <2>4. ASSUME Awaiting' PROVE job # NoJob \/ Answer(pipe', sent)
    <3>1. ~IsFinal(pipe[1]) /\ (job # NoJob \/ Answer(pipe, sent))
      BY <1>1, <1>6, <2>1, <2>4 DEF Takes, PipeInv
    <3> QED  BY <2>3, <3>1 DEF Answer
  <2>5. sent > 0 /\ (~keeps => \A k \in 1 .. Len(pipe') : pipe'[k].of = sent)
    BY <1>1, <1>6, <2>3 DEF Takes, PipeInv
  <2>6. job # NoJob => job.id = sent
    BY <1>1 DEF PipeInv
  <2> QED  BY <1>6, <2>1, <2>2, <2>4, <2>5, <2>6 DEF PipeInv, Takes
<1>7. CASE Works
  <2>1. /\ job # NoJob /\ job \in Requests /\ job.id = sent
        /\ Ordered(pipe, sent) /\ Complete(pipe, sent, TRUE) /\ pc # "data"
    BY <1>1, <1>7 DEF Works, Device, DevBusy, DevAnswer, PipeInv, KindInv
  <2>2. pc' = pc /\ keeps' = keeps /\ sent' = sent
    BY <1>7 DEF Works, Device, DevBusy, DevAnswer
  <2>3. ASSUME NEW m \in Messages, m.of = sent, pipe' = Append(pipe, m)
        PROVE  Awaiting /\ ~keeps => \A k \in 1 .. Len(pipe') : pipe'[k].of = sent
    BY <1>1, <2>3, AppendMessage DEF PipeInv
  <2>4. CASE DevBusy
    <3> DEFINE m == Message(BusyText(job.req), job.id)
    <3>1. m \in Messages /\ m.of = sent /\ ~IsFinal(m) /\ pipe' = Append(pipe, m) /\ job' = job
      BY <2>1, <2>4, MessageKinds DEF DevBusy
    <3> HIDE DEF m
    <3>2. Ordered(pipe', sent) /\ Complete(pipe', sent, TRUE)
      BY <1>1, <2>1, <3>1, BusyKeepsAnswers
    <3> QED  BY <1>1, <2>1, <2>2, <2>3, <3>1, <3>2 DEF PipeInv, Awaiting
  <2>5. ASSUME NEW good \in BOOLEAN, DevAnswer(good) PROVE PipeInv'
    <3> DEFINE m == FinalMessage(good)
    <3>1. m \in Messages /\ m.of = sent /\ IsFinal(m) /\ pipe' = Append(pipe, m) /\ job' = NoJob
      BY <2>1, <2>5, MessageKinds DEF DevAnswer
    <3> HIDE DEF m
    <3>2. Ordered(pipe', sent) /\ Complete(pipe', sent, FALSE) /\ Answer(pipe', sent)
      BY <1>1, <2>1, <3>1, FinalKeepsAnswers
    <3> QED  BY <1>1, <2>1, <2>2, <2>3, <3>1, <3>2 DEF PipeInv, Awaiting
  <2> QED  BY <1>7, <2>4, <2>5 DEF Works, Device
<1> QED  BY <1>2, <1>3, <1>4, <1>5, <1>6, <1>7, StepKinds

-----------------------------------------------------------------------------
\* What the host learns from the message it takes: whether it is the answer to the
\* last request or an older one.
LEMMA MessageTaken ==
    ASSUME IInv, TakeMessage, Awaiting
    PROVE  /\ Head(pipe) = pipe[1] /\ pipe[1].of \in Nat /\ pipe[1].of <= sent
           /\ 1 \in 1 .. Len(pipe)
           /\ ~keeps => pipe[1].of = sent
           /\ IsFinal(pipe[1]) /\ pipe[1].of = sent => job = NoJob /\ ~Late(pipe', sent + 1)
           /\ pipe[1].of # sent \/ ~IsFinal(pipe[1]) => job # NoJob \/ Late(pipe', sent + 1)
           /\ ~IsFinal(pipe[1]) /\ Late(pipe, sent) => Late(pipe', sent)
           /\ Late(pipe', sent) => Late(pipe, sent)
<1>1. /\ pipe \in Seq(Messages) /\ sent \in Nat /\ TypeOK /\ PipeInv
  BY DEF IInv, TypeOK, Messages
<1>2. /\ Head(pipe) = pipe[1] /\ pipe # <<>> /\ pipe' = Tail(pipe)
      /\ 1 \in 1 .. Len(pipe)
  BY <1>1, TakeEffect
<1>3. /\ \A k \in 1 .. Len(pipe') : pipe'[k] = pipe[k + 1] /\ k + 1 \in 1 .. Len(pipe) /\ 1 < k + 1
      /\ \A k \in 1 .. Len(pipe) : k = 1 \/ (k - 1 \in 1 .. Len(pipe') /\ pipe'[k - 1] = pipe[k])
  BY <1>1, <1>2, TailMessage
<1>4. \A k \in 1 .. Len(pipe) : pipe[k].of \in Nat /\ pipe[k].of <= sent
  BY <1>1, MessageFields DEF PipeInv, Ordered
<1>5. ~keeps => pipe[1].of = sent
  BY <1>2 DEF PipeInv, IInv
<1>6. ASSUME IsFinal(pipe[1]), pipe[1].of = sent PROVE job = NoJob /\ ~Late(pipe', sent + 1)
  <2>1. job = NoJob
    BY <1>1, <1>2, <1>6 DEF PipeInv, Complete
  <2>2. \A k \in 1 .. Len(pipe) : 1 < k => pipe[1].of < pipe[k].of
    BY <1>1, <1>2, <1>6 DEF PipeInv, Ordered
  <2>3. ~Late(pipe', sent + 1)
    BY <1>3, <1>4, <1>6, <2>2 DEF Late
  <2> QED  BY <2>1, <2>3
<1>7. ASSUME pipe[1].of # sent \/ ~IsFinal(pipe[1]), job = NoJob PROVE Late(pipe', sent + 1)
  <2>1. Answer(pipe, sent)
    BY <1>1, <1>7 DEF PipeInv
  <2>2. PICK k \in 1 .. Len(pipe) : IsFinal(pipe[k]) /\ pipe[k].of = sent
    BY <2>1 DEF Answer
  <2>3. k - 1 \in 1 .. Len(pipe') /\ pipe'[k - 1] = pipe[k]
    BY <1>3, <1>7, <2>2
  <2>4. sent < sent + 1
    BY <1>1
  <2> QED  BY <2>2, <2>3, <2>4 DEF Late
<1>8. ~IsFinal(pipe[1]) /\ Late(pipe, sent) => Late(pipe', sent)
  BY <1>3 DEF Late
<1>9. Late(pipe', sent) => Late(pipe, sent)
  BY <1>3 DEF Late
<1> QED  BY <1>2, <1>4, <1>5, <1>6, <1>7, <1>8, <1>9

\* An answer in the pipe stays there when another message comes after it.
LEMMA LateStays ==
    ASSUME NEW p \in Seq(Messages), NEW m \in Messages, NEW n \in Nat
    PROVE  /\ Late(p, n) => Late(p, n + 1)
           /\ Late(p, n) => Late(Append(p, m), n)
           /\ IsFinal(m) /\ m.of < n => Late(Append(p, m), n)
           /\ (IsFinal(m) => n <= m.of) /\ Late(Append(p, m), n) => Late(p, n)
<1> DEFINE s == Append(p, m)
<1> HIDE DEF s
<1>1. /\ s \in Seq(Messages) /\ Len(s) = Len(p) + 1 /\ Len(p) \in Nat
      /\ \A k \in 1 .. Len(p) : s[k] = p[k] /\ k \in 1 .. Len(s)
      /\ s[Len(p) + 1] = m
      /\ \A k \in 1 .. Len(s) : k \in 1 .. Len(p) \/ k = Len(p) + 1
      /\ Len(p) + 1 \in 1 .. Len(s)
  BY AppendMessage DEF s
<1>2. m.of \in Nat
  BY DEF Messages
<1>3. \A k \in 1 .. Len(p) : p[k].of \in Nat
  BY MessageFields
<1>4. Late(p, n) => Late(p, n + 1)
  BY <1>3 DEF Late
<1>5. Late(p, n) => Late(s, n)
  BY <1>1 DEF Late
<1>6. IsFinal(m) /\ m.of < n => Late(s, n)
  BY <1>1 DEF Late
<1>7. (IsFinal(m) => n <= m.of) /\ Late(s, n) => Late(p, n)
  BY <1>1, <1>2 DEF Late
<1> QED  BY <1>4, <1>5, <1>6, <1>7 DEF s

\* A command that reaches the device turns the answer that is still to come into
\* one that has come.
LEMMA InterruptLags ==
    ASSUME IInv, Interrupt, keeps, job # NoJob \/ Late(pipe, sent + 1)
    PROVE  Late(pipe', sent + 1)
<1>1. pipe \in Seq(Messages) /\ sent \in Nat /\ TypeOK /\ PipeInv
  BY DEF IInv, TypeOK, Messages
<1>2. CASE job = NoJob /\ pipe' = pipe
  BY <1>2
<1>3. ASSUME job \in Requests, job # NoJob, NEW good \in BOOLEAN,
             pipe' = Append(pipe, FinalMessage(good))
      PROVE  Late(pipe', sent + 1)
  <2>1. /\ FinalMessage(good) \in Messages /\ FinalMessage(good).of = sent
        /\ IsFinal(FinalMessage(good))
    BY <1>1, <1>3, MessageKinds DEF PipeInv
  <2> QED  BY <1>1, <1>3, <2>1, LateStays
<1> QED  BY <1>1, <1>2, <1>3, InterruptEffect

\* A host that reads one message too late does so until it exits: no retry takes two
\* answers for one request.
LEMMA LagsNext ==
    ASSUME IInv, Next, Lags, pc' # "exit"
    PROVE  Lags'
<1>1. /\ pipe \in Seq(Messages) /\ sent \in Nat /\ TypeOK /\ LoopInv /\ PipeInv /\ KindInv
      /\ job \in Requests \cup {NoJob} /\ keeps
  BY DEF IInv, TypeOK, Messages, Lags
<1>2. CASE Silent
  <2>1. Late(pipe, sent) => Late(pipe, sent + 1)
    BY <1>1, MessageFields DEF Late
  <2> QED  BY <1>1, <1>2, <2>1 DEF Silent, devvars, Lags
<1>3. CASE Interrupts
  <2>1. ~Awaiting /\ ~Awaiting'
    BY <1>3 DEF Interrupts, Awaiting
  <2>2. Late(pipe', sent + 1)
    BY <1>3, <2>1, InterruptLags DEF Interrupts, Lags
  <2> QED  BY <1>3, <2>1, <2>2 DEF Interrupts, Lags
<1>4. CASE MediaDataOk
  <2>1. job = NoJob /\ ~Awaiting /\ Awaiting'
    BY <1>1, <1>4 DEF MediaDataOk, KindInv, Awaiting
  <2> QED  BY <1>4, <2>1 DEF MediaDataOk, Lags
<1>5. CASE BulkCmdSend
  <2>1. ~Awaiting /\ Awaiting'
    BY <1>5 DEF BulkCmdSend, Awaiting
  <2>2. Late(pipe', sent + 1)
    BY <1>1, <1>5, <2>1, InterruptLags DEF BulkCmdSend, Lags
  <2> QED  BY <1>5, <2>1, <2>2 DEF BulkCmdSend, Lags
<1>6. CASE Takes
  <2>1. /\ IsFinal(pipe[1]) => ~Awaiting'
        /\ Late(pipe, sent) /\ Awaiting /\ UNCHANGED <<job, keeps, sent>>
    BY <1>6, MessageTaken DEF Takes, TakeMessage, Lags
  <2>2. /\ pipe[1].of # sent \/ ~IsFinal(pipe[1]) => job # NoJob \/ Late(pipe', sent + 1)
        /\ ~IsFinal(pipe[1]) /\ Late(pipe, sent) => Late(pipe', sent)
    BY <1>6, MessageTaken DEF Takes
  <2>3. CASE IsFinal(pipe[1]) /\ pipe[1].of = sent
    BY <1>1, <2>1, <2>3, MessageFields DEF PipeInv, Ordered, Late
  <2>4. CASE ~(IsFinal(pipe[1]) /\ pipe[1].of = sent)
    BY <2>1, <2>2, <2>4 DEF Lags
  <2> QED  BY <2>3, <2>4
<1>7. CASE Works
  <2>1. /\ job # NoJob /\ job \in Requests /\ job.id = sent
        /\ pc' = pc /\ keeps' = keeps /\ sent' = sent
    BY <1>1, <1>7 DEF Works, Device, DevBusy, DevAnswer, PipeInv
  <2>2. ASSUME NEW m \in Messages, pipe' = Append(pipe, m)
        PROVE  Late(pipe, sent) => Late(pipe', sent)
    BY <1>1, <2>2, LateStays
  <2>3. CASE DevBusy
    BY <2>1, <2>2, <2>3, <1>1, MessageKinds DEF DevBusy, Lags, Awaiting, Late
  <2>4. ASSUME NEW good \in BOOLEAN, DevAnswer(good) PROVE Lags'
    <3>1. /\ FinalMessage(good) \in Messages /\ FinalMessage(good).of = sent
          /\ IsFinal(FinalMessage(good)) /\ pipe' = Append(pipe, FinalMessage(good))
      BY <2>1, <2>4, MessageKinds DEF DevAnswer
    <3>2. Late(pipe', sent + 1)
      BY <1>1, <3>1, LateStays
    <3> QED  BY <1>1, <2>1, <2>2, <3>1, <3>2 DEF Lags, Awaiting
  <2> QED  BY <1>7, <2>3, <2>4 DEF Works, Device
<1> QED  BY <1>2, <1>3, <1>4, <1>5, <1>6, <1>7, StepKinds

-----------------------------------------------------------------------------
\* Every message in the pipe was there before the step or answers the request the
\* device was at work on.
LEMMA MessagesNext ==
    ASSUME IInv, Next
    PROVE  \A k \in 1 .. Len(pipe') :
              \/ \E j \in 1 .. Len(pipe) : pipe'[k] = pipe[j]
              \/ /\ job # NoJob /\ pipe'[k].of = sent /\ sent > 0
                 /\ job.req = "chunk" => pipe'[k].text # "success"
<1> DEFINE Old1 == \A k \in 1 .. Len(pipe') : \E j \in 1 .. Len(pipe) : pipe'[k] = pipe[j]
           New1(m) == /\ job # NoJob /\ m.of = sent /\ sent > 0
                      /\ job.req = "chunk" => m.text # "success"
<1>1. /\ pipe \in Seq(Messages) /\ sent \in Nat /\ TypeOK /\ PipeInv
      /\ job \in Requests \cup {NoJob}
  BY DEF IInv, TypeOK, Messages
<1>2. CASE pipe' = pipe
  BY <1>2
<1>3. CASE pipe' = <<>>
  BY <1>3
<1>4. ASSUME NEW m \in Messages, New1(m), pipe' = Append(pipe, m)
      PROVE  \A k \in 1 .. Len(pipe') :
                (\E j \in 1 .. Len(pipe) : pipe'[k] = pipe[j]) \/ New1(pipe'[k])
  BY <1>1, <1>4, AppendMessage
<1>5. CASE Takes
  BY <1>1, <1>5, TailMessage DEF Takes, TakeMessage
<1>6. ASSUME job # NoJob, NEW good \in BOOLEAN
      PROVE  /\ FinalMessage(good) \in Messages /\ New1(FinalMessage(good))
             /\ Message(BusyText(job.req), job.id) \in Messages
             /\ New1(Message(BusyText(job.req), job.id))
  <2>1. job \in Requests /\ job.id = sent /\ sent > 0
    BY <1>1, <1>6 DEF PipeInv, Complete
  <2> QED  BY <1>6, <2>1, MessageKinds
<1>7. ASSUME Interrupt
      PROVE  \A k \in 1 .. Len(pipe') :
                (\E j \in 1 .. Len(pipe) : pipe'[k] = pipe[j]) \/ New1(pipe'[k])
  <2> HIDE DEF New1
  <2> QED  BY <1>1, <1>2, <1>3, <1>4, <1>6, <1>7, InterruptEffect
<1>8. CASE Works
  <2>1. CASE DevBusy
    <3>1. job # NoJob /\ pipe' = Append(pipe, Message(BusyText(job.req), job.id))
      BY <2>1 DEF DevBusy
    <3> HIDE DEF New1
    <3>2. \A k \in 1 .. Len(pipe') :
             (\E j \in 1 .. Len(pipe) : pipe'[k] = pipe[j]) \/ New1(pipe'[k])
      BY <1>4, <1>6, <3>1
    <3> QED  BY <3>2 DEF New1
  <2>2. ASSUME NEW good \in BOOLEAN, DevAnswer(good)
        PROVE  \A k \in 1 .. Len(pipe') :
                  (\E j \in 1 .. Len(pipe) : pipe'[k] = pipe[j]) \/ New1(pipe'[k])
    <3>1. job # NoJob /\ pipe' = Append(pipe, FinalMessage(good))
      BY <2>2 DEF DevAnswer
    <3> HIDE DEF New1
    <3> QED  BY <1>4, <1>6, <3>1
  <2> QED  BY <1>8, <2>1, <2>2 DEF Works, Device
<1> QED  BY <1>2, <1>5, <1>7, <1>8, StepKinds DEF Silent, devvars, Interrupts, MediaDataOk, BulkCmdSend

\* Where the program comes from when it asks for a result, waits for one, or moves
\* to the next chunk.
LEMMA HostMoves ==
    ASSUME Next
    PROVE  /\ bulkcmd' = "none" => bulkcmd = "none"
           /\ bulkcmd' = "get_status" => bulkcmd = "get_status" \/ (pc = "written" /\ pc' = "bulkcmd")
           /\ pc' = "bulkcmd" => \/ pc = "written" /\ Written
                                 \/ pc = "verify" /\ bulkcmd' = "verify" /\ Silent
                                 \/ Works
           /\ pc' = "bulkpoll" => BulkCmdSend \/ (pc = "bulkpoll" /\ sent' = sent /\ bulkcmd' = bulkcmd)
           /\ pc' = "poll" => MediaDataOk \/ (pc = "poll" /\ sent' = sent /\ addr' = addr)
           /\ pc' = "data" => MediaCommandOk \/ Works
           /\ pc' \in {"status", "WriteMediaFile"} => TplCmdOk \/ StatusOk \/ Works
           /\ pc' # "start" \/ Works
           /\ pc' = "verify" => Works \/ (pc = "bulkpoll" /\ bulkcmd = "get_status" /\ BulkPollSuccess)
           /\ pc' = "success" => \/ Works \/ (pc = "verify" /\ Silent)
                                 \/ bulkcmd # "get_status" /\ BulkPollSuccess
           /\ addr' = addr \/ OpenImage \/ PollAnswered
<1> USE DEF Exit, filevars, cmdvars
<1>1. CASE NoImage \/ TplCmdOk \/ TplCmdFail \/ StatusOk \/ StatusFail \/ Written \/ WrittenFail
  BY <1>1 DEF NoImage, TplCmdOk, TplCmdFail, StatusOk, StatusFail, Written, WrittenFail
<1>2. CASE WriteMediaFile /\ UNCHANGED cmdvars
  <2>1. CASE OpenImage \/ OpenImageFail \/ ReadChunk \/ ReadChunkFail \/ AllSent
    BY <1>2, <2>1 DEF OpenImage, OpenImageFail, ReadChunk, ReadChunkFail, AllSent, LeaveLoop
  <2>2. CASE MediaCommandOk \/ MediaCommandFail \/ MediaDataOk \/ MediaDataFail
    BY <1>2, <2>2 DEF MediaCommandOk, MediaCommandFail, MediaDataOk, MediaDataFail, LeaveLoop
  <2>3. CASE PollBusy \/ PollDeadline \/ PollFail
    BY <1>2, <2>3 DEF PollBusy, PollDeadline, PollFail, TakeMessage, NextAttempt, LeaveLoop
  <2>4. CASE PollAnswered
    BY <1>2, <2>4 DEF PollAnswered, TakeMessage, NextAttempt, LeaveLoop
  <2> QED  BY <1>2, <2>1, <2>2, <2>3, <2>4 DEF WriteMediaFile
<1>3. CASE BulkCmdSend \/ BulkCmdSendFail \/ BulkPollBusy \/ BulkPollRefused \/ BulkPollFail
  BY <1>3 DEF BulkCmdSend, BulkCmdSendFail, BulkPollBusy, BulkPollRefused, BulkPollFail,
     BulkCmdError, TakeMessage
<1>4. CASE BulkPollSuccess
  BY <1>4 DEF BulkPollSuccess, TakeMessage
<1>5. CASE Verify \/ Success
  BY <1>5 DEF Verify, Success, Silent, Awaiting
<1>6. CASE Works
  BY <1>6 DEF Works, Device, DevBusy, DevAnswer
<1> QED  BY <1>1, <1>2, <1>3, <1>4, <1>5, <1>6 DEF Next, Host, Works

\* What ends the command, and what changes its verdict.
LEMMA EndMoves ==
    ASSUME Next
    PROVE  /\ pc = "exit" => Works
           /\ pc' = "bulkpoll" => BulkCmdSend \/ BulkPollBusy \/ Works
           /\ (success' <=> success) \/ Success
           /\ (mixed' <=> mixed) \/ PollAnswered \/ BulkPollSuccess
           /\ Works => mixed' = mixed /\ success' = success
<1> USE DEF Exit, filevars, cmdvars
<1>1. CASE NoImage \/ TplCmdOk \/ TplCmdFail \/ StatusOk \/ StatusFail \/ Written \/ WrittenFail
  BY <1>1 DEF NoImage, TplCmdOk, TplCmdFail, StatusOk, StatusFail, Written, WrittenFail, Works
<1>2. CASE WriteMediaFile /\ UNCHANGED cmdvars
  <2>1. CASE OpenImage \/ OpenImageFail \/ ReadChunk \/ ReadChunkFail \/ AllSent
    BY <1>2, <2>1
       DEF OpenImage, OpenImageFail, ReadChunk, ReadChunkFail, AllSent, LeaveLoop, Works
  <2>2. CASE MediaCommandOk \/ MediaCommandFail \/ MediaDataOk \/ MediaDataFail
    BY <1>2, <2>2
       DEF MediaCommandOk, MediaCommandFail, MediaDataOk, MediaDataFail, LeaveLoop, Works
  <2>3. CASE PollBusy \/ PollDeadline \/ PollFail \/ PollAnswered
    BY <1>2, <2>3
       DEF PollBusy, PollDeadline, PollFail, PollAnswered, NextAttempt, LeaveLoop, Works
  <2> QED  BY <1>2, <2>1, <2>2, <2>3 DEF WriteMediaFile
<1>3. CASE BulkCmdSend \/ BulkCmdSendFail \/ BulkPollBusy \/ BulkPollRefused \/ BulkPollFail
  BY <1>3 DEF BulkCmdSend, BulkCmdSendFail, BulkPollBusy, BulkPollRefused, BulkPollFail,
     BulkCmdError, Works
<1>4. CASE BulkPollSuccess \/ Verify \/ Success
  BY <1>4 DEF BulkPollSuccess, Verify, Success, Works
<1>5. CASE Works
  BY <1>5 DEF Works
<1> QED  BY <1>1, <1>2, <1>3, <1>4, <1>5 DEF Next, Host, Works

\* "success" is said in answer to the request the host has just sent, and nothing is
\* to come after it.
LEMMA SuccessTaken ==
    ASSUME IInv, BulkPollSuccess
    PROVE  pipe[1].of = sent /\ job = NoJob /\ job' = NoJob /\ ~Late(pipe', sent + 1)
<1>1. TakeMessage /\ Awaiting /\ Head(pipe).text = "success" /\ pc = "bulkpoll"
  BY DEF BulkPollSuccess, Awaiting
<1>2. /\ Head(pipe) = pipe[1] /\ pipe[1].of \in Nat /\ pipe[1].of <= sent
      /\ 1 \in 1 .. Len(pipe)
      /\ ~keeps => pipe[1].of = sent
      /\ IsFinal(pipe[1]) /\ pipe[1].of = sent => job = NoJob /\ ~Late(pipe', sent + 1)
  BY <1>1, MessageTaken
<1>3. IsFinal(pipe[1])
  BY <1>1, <1>2 DEF IsFinal, Busy
<1>4. sent \in Nat /\ LoopInv /\ KindInv /\ EndInv
  BY DEF IInv, TypeOK
<1>5. pipe[1].of = sent
  <2>1. CASE bulkcmd = "get_status"
    BY <1>1, <1>2, <1>4, <2>1 DEF KindInv
  <2>2. CASE bulkcmd = "verify"
    BY <1>1, <1>2, <1>3, <1>4, <2>2 DEF EndInv, Lags, Late
  <2> QED  BY <1>1, <1>4, <2>1, <2>2 DEF LoopInv
<1> QED  BY <1>1, <1>2, <1>3, <1>5 DEF TakeMessage

LEMMA KindNext ==
    ASSUME IInv, Next
    PROVE  KindInv'
<1>1. /\ pipe \in Seq(Messages) /\ sent \in Nat /\ TypeOK /\ LoopInv /\ PipeInv /\ KindInv
      /\ job \in Requests \cup {NoJob}
  BY DEF IInv, TypeOK, Messages
<1>2. LoopInv' /\ pipe' \in Seq(Messages) /\ sent' \in Nat
  BY <1>1, TypeNext DEF TypeOK, Messages
<1>3. /\ MediaDataOk \/ BulkCmdSend \/ job' = job \/ job' = NoJob
      /\ Works => job # NoJob /\ pc' = pc /\ bulkcmd' = bulkcmd /\ sent' = sent /\ addr' = addr
      /\ Silent => job' = job
      /\ Written => Silent
  <2>1. Works => /\ job # NoJob /\ pc' = pc /\ bulkcmd' = bulkcmd /\ sent' = sent /\ addr' = addr
                 /\ job' = job \/ job' = NoJob
    BY DEF Works, Device, DevBusy, DevAnswer, cmdvars, filevars
  <2>2. Written => Silent
    BY DEF Written, Silent, Awaiting
  <2> QED  BY <2>1, <2>2, StepKinds DEF Silent, Interrupts, Takes, TakeMessage, devvars
<1>4. \A k \in 1 .. Len(pipe') :
         \/ \E j \in 1 .. Len(pipe) : pipe'[k] = pipe[j]
         \/ /\ job # NoJob /\ pipe'[k].of = sent /\ sent > 0
            /\ job.req = "chunk" => pipe'[k].text # "success"
  BY MessagesNext
<1>5. ASSUME pc' \in {"start", "status", "WriteMediaFile", "data", "verify", "success"}
      PROVE  job' = NoJob
  <2>1. CASE Works
    BY <1>1, <1>3, <1>5, <2>1 DEF KindInv
  <2>2. CASE BulkPollSuccess
    BY <2>2, SuccessTaken
  <2>3. CASE TplCmdOk \/ MediaCommandOk
    BY <2>3 DEF TplCmdOk, MediaCommandOk, AcceptChunk
  <2>4. CASE StatusOk
    BY <1>1, <2>4 DEF StatusOk, KindInv, devvars
  <2>5. CASE pc = "verify" /\ Silent
    BY <1>1, <1>3, <2>5 DEF KindInv
  <2> QED  BY <1>5, <2>1, <2>2, <2>3, <2>4, <2>5, HostMoves
<1>6. ASSUME bulkcmd' = "none" \/ (bulkcmd' = "get_status" /\ pc' = "bulkcmd")
      PROVE  /\ job' # NoJob => job'.req = "chunk"
             /\ \A k \in 1 .. Len(pipe') : pipe'[k].of >= 1 => pipe'[k].text # "success"
  <2>1. bulkcmd = "none" \/ (bulkcmd = "get_status" /\ pc = "bulkcmd")
    BY <1>1, <1>3, <1>6, HostMoves DEF LoopInv
  <2>2. /\ job # NoJob => job.req = "chunk"
        /\ \A k \in 1 .. Len(pipe) : pipe[k].of >= 1 => pipe[k].text # "success"
    BY <1>1, <2>1 DEF KindInv
  <2>3. ~BulkCmdSend
    BY <1>1, <1>6 DEF BulkCmdSend, LoopInv, cmdvars
  <2>4. MediaDataOk => job'.req = "chunk"
    BY DEF MediaDataOk
  <2> QED  BY <1>3, <1>4, <2>2, <2>3, <2>4
<1>7. ASSUME pc' = "poll", job' # NoJob PROVE job'.at = addr' /\ job'.data = addr'
  <2>1. CASE MediaDataOk
    BY <1>1, <2>1 DEF MediaDataOk, LoopInv, filevars
  <2>2. CASE pc = "poll" /\ addr' = addr
    BY <1>1, <1>3, <1>7, <2>2 DEF KindInv, MediaDataOk, BulkCmdSend
  <2> QED  BY <1>7, <2>1, <2>2, HostMoves
<1>8. ASSUME pc' = "bulkcmd", bulkcmd' = "verify" PROVE job' = NoJob
  BY <1>1, <1>3, <1>8, HostMoves DEF KindInv, Written
<1>9. ASSUME pc' = "bulkpoll", job' # NoJob PROVE job'.req = bulkcmd'
  <2>1. CASE BulkCmdSend
    BY <2>1 DEF BulkCmdSend, cmdvars
  <2>2. CASE pc = "bulkpoll" /\ bulkcmd' = bulkcmd
    BY <1>1, <1>3, <1>9, <2>2 DEF KindInv, MediaDataOk, BulkCmdSend
  <2> QED  BY <1>9, <2>1, <2>2, HostMoves
<1>10. ASSUME addr' > 0, NEW k \in 1 .. Len(pipe') PROVE pipe'[k].of >= 1
  <2>1. CASE addr' = addr
    <3>1. \A j \in 1 .. Len(pipe) : pipe[j].of >= 1
      BY <1>1, <1>10, <2>1 DEF KindInv
    <3>2. CASE \E j \in 1 .. Len(pipe) : pipe'[k] = pipe[j]
      BY <3>1, <3>2
    <3>3. CASE pipe'[k].of = sent /\ sent > 0
      BY <1>1, <3>3
    <3> QED  BY <1>4, <3>2, <3>3
  <2>2. CASE PollAnswered
    <3>1. pipe' = Tail(pipe) /\ pipe # <<>>
      BY <2>2 DEF PollAnswered, TakeMessage
    <3>2. pipe'[k] = pipe[k + 1] /\ k + 1 \in 1 .. Len(pipe) /\ k + 1 # 1
      BY <1>1, <3>1, TailMessage
    <3> QED  BY <1>1, <3>2, MessageFields DEF PipeInv, Ordered
  <2>3. CASE OpenImage
    BY <1>10, <2>3 DEF OpenImage
  <2> QED  BY <2>1, <2>2, <2>3, HostMoves
<1>11. ASSUME pc' = "bulkpoll", bulkcmd' = "get_status", NEW k \in 1 .. Len(pipe'),
              pipe'[k].of < sent'
       PROVE  pipe'[k].text # "success"
  <2>1. CASE BulkCmdSend
    <3>1. bulkcmd = "get_status" /\ pc = "bulkcmd" /\ addr' = addr
      BY <1>11, <2>1 DEF BulkCmdSend, cmdvars, filevars
    <3>2. addr > 0
      BY <1>1, <3>1, ChunksAssumption DEF LoopInv
    <3>3. pipe'[k].of >= 1
      BY <1>10, <3>1, <3>2
    <3> QED  BY <1>1, <1>4, <3>1, <3>3 DEF KindInv
  <2>2. CASE pc = "bulkpoll" /\ sent' = sent /\ bulkcmd' = bulkcmd
    BY <1>1, <1>4, <1>11, <2>2 DEF KindInv
  <2> QED  BY <1>11, <2>1, <2>2, HostMoves
<1> QED  BY <1>5, <1>6, <1>7, <1>8, <1>9, <1>10, <1>11 DEF KindInv

-----------------------------------------------------------------------------
\* A step changes at most the place the device was writing to.
LEMMA MediaMoves ==
    ASSUME IInv, Next
    PROVE  \A c \in Chunk : media'[c] # media[c] => job # NoJob /\ job.req = "chunk" /\ c = job.at
<1>1. TypeOK /\ media \in [Chunk -> Chunk \cup {Old, Bad}] /\ job \in Requests \cup {NoJob}
  BY DEF IInv, TypeOK
<1>2. CASE UNCHANGED media
  BY <1>2
<1>3. CASE Interrupt
  BY <1>1, <1>3, InterruptEffect
<1>4. ASSUME NEW good \in BOOLEAN, DevAnswer(good)
      PROVE  \A c \in Chunk : media'[c] # media[c] => job # NoJob /\ job.req = "chunk" /\ c = job.at
  <2>1. job # NoJob /\ job \in Requests /\ media' \in MediaAfter(good)
    BY <1>1, <1>4 DEF DevAnswer
  <2> QED  BY <1>1, <2>1, MediaAfterWork
<1> QED
  BY <1>2, <1>3, <1>4, StepKinds
     DEF Silent, devvars, Interrupts, MediaDataOk, BulkCmdSend, Takes, TakeMessage, Works, Device,
         DevBusy

\* A chunk is taken for stored by a host that does not lag only when it is.
LEMMA StoredWhenAnswered ==
    ASSUME IInv, PollAnswered, ~Lags, Head(pipe).text = "OK!!"
    PROVE  media[addr] = addr /\ pipe[1].of = sent /\ job = NoJob
<1>1. TakeMessage /\ Awaiting /\ pc = "poll"
  BY DEF PollAnswered, Awaiting
<1>2. /\ Head(pipe) = pipe[1] /\ pipe[1].of \in Nat /\ pipe[1].of <= sent /\ 1 \in 1 .. Len(pipe)
      /\ ~keeps => pipe[1].of = sent
      /\ IsFinal(pipe[1]) /\ pipe[1].of = sent => job = NoJob
  BY <1>1, MessageTaken
<1>3. IsFinal(pipe[1])
  BY <1>2 DEF IsFinal, Busy
<1>4. sent \in Nat /\ MediaInv
  BY DEF IInv, TypeOK
<1>5. pipe[1].of = sent
  BY <1>1, <1>2, <1>3, <1>4 DEF Lags, Late
<1> QED  BY <1>1, <1>2, <1>3, <1>4, <1>5 DEF MediaInv

\* The places before the next chunk.
LEMMA PlacesBefore ==
    /\ \A n \in 0 .. Chunks : \A c \in 0 .. n - 1 : c \in Chunk
    /\ \A n \in 0 .. Chunks : \A c \in 0 .. (n + 1) - 1 : c \in 0 .. n - 1 \/ c = n
BY ChunksAssumption DEF Chunk

LEMMA MediaNext ==
    ASSUME IInv, Next
    PROVE  MediaInv'
<1>1. /\ pipe \in Seq(Messages) /\ sent \in Nat /\ TypeOK /\ LoopInv /\ PipeInv /\ KindInv
      /\ job \in Requests \cup {NoJob} /\ MediaInv /\ addr \in 0 .. Chunks
  BY DEF IInv, TypeOK, Messages
<1>2. ~Lags' /\ pc' # "exit" => ~Lags
  BY LagsNext
<1>3. pc' # "exit" => pc # "exit"
  BY EndMoves DEF Works
<1>4. ASSUME ~Lags', pc' # "exit", NEW c, c \in 0 .. addr' - 1 PROVE media'[c] = c
  <2>1. ~Lags /\ pc # "exit" /\ addr' \in 0 .. Chunks
    BY <1>1, <1>2, <1>3, <1>4, TypeNext DEF TypeOK
  <2>2. c \in Chunk
    BY <1>4, <2>1, PlacesBefore
  <2>3. ASSUME c \in 0 .. addr - 1 PROVE media'[c] = c
    <3>1. media[c] = c
      BY <1>1, <2>1, <2>3 DEF MediaInv
    <3>2. job # NoJob /\ job.req = "chunk" => job.at # c
      BY <1>1, <2>1, <2>3 DEF MediaInv, KindInv, LoopInv
    <3> QED  BY <2>2, <3>1, <3>2, MediaMoves
  <2>4. CASE PollAnswered /\ addr' # addr
    <3>1. addr' = addr + 1 /\ Head(pipe).text = "OK!!" /\ media' = media
      BY <2>4 DEF PollAnswered, TakeMessage, NextAttempt, LeaveLoop
    <3>2. c \in 0 .. addr - 1 \/ c = addr
      BY <1>1, <1>4, <3>1, PlacesBefore
    <3> QED  BY <2>1, <2>3, <2>4, <3>1, <3>2, StoredWhenAnswered
  <2>5. CASE OpenImage
    BY <1>4, <2>5 DEF OpenImage
  <2> QED  BY <1>4, <2>3, <2>4, <2>5, HostMoves
<1>5. ASSUME ~Lags', pc' # "exit", job' # NoJob
      PROVE  /\ pc' \in {"command", "poll", "written", "bulkpoll"}
             /\ pc' = "written" => wret' # 0
             /\ pc' \in {"command", "written"} => job'.at = addr'
  <2>1. ~Lags /\ pc # "exit"
    BY <1>2, <1>3, <1>5
  <2> USE DEF Exit, filevars, cmdvars, devvars
  <2>2. CASE MediaDataOk \/ BulkCmdSend
    BY <2>2 DEF MediaDataOk, BulkCmdSend
  <2>3. ASSUME ~MediaDataOk, ~BulkCmdSend
        PROVE  /\ job # NoJob /\ job' = job
               /\ pc \in {"command", "poll", "written", "bulkpoll"}
               /\ pc = "written" => wret # 0
               /\ pc \in {"command", "written", "poll"} => job.at = addr
    <3>1. job # NoJob /\ job' = job
      BY <1>5, <2>3, StepKinds
         DEF Silent, Interrupts, Takes, TakeMessage, Works, Device, DevBusy, DevAnswer
    <3> QED  BY <1>1, <2>1, <3>1 DEF MediaInv, KindInv
  <2>4. CASE MediaCommandOk \/ MediaCommandFail
    BY <1>1, <1>5, <2>3, <2>4
       DEF MediaCommandOk, MediaCommandFail, AcceptChunk, LeaveLoop, LoopInv, MediaDataOk,
           BulkCmdSend
  <2>5. CASE PollBusy \/ PollDeadline \/ PollFail
    BY <1>1, <2>3, <2>5
       DEF PollBusy, PollDeadline, PollFail, NextAttempt, LeaveLoop, LoopInv, MediaDataOk,
           BulkCmdSend
  <2>6. CASE PollAnswered
    <3>1. Head(pipe).text # "OK!!"
      BY <1>5, <2>1, <2>6, StoredWhenAnswered DEF PollAnswered, TakeMessage
    <3> QED
      BY <1>1, <2>3, <2>6, <3>1
         DEF PollAnswered, NextAttempt, LeaveLoop, LoopInv, MediaDataOk, BulkCmdSend
  <2>7. CASE BulkPollSuccess
    BY <1>5, <2>7, SuccessTaken
  <2>8. CASE Works
    BY <1>1, <2>3, <2>8 DEF Works, MediaDataOk, BulkCmdSend, Device, DevBusy, DevAnswer
  <2>9. CASE Written \/ WrittenFail \/ BulkPollBusy
    BY <2>3, <2>9, <1>5 DEF Written, WrittenFail, BulkPollBusy, MediaDataOk, BulkCmdSend
  <2>10. CASE BulkCmdSendFail \/ BulkPollRefused \/ BulkPollFail \/ NoImage \/ TplCmdFail \/ Success
    BY <1>5, <2>10
       DEF BulkCmdSendFail, BulkPollRefused, BulkPollFail, BulkCmdError, NoImage, TplCmdFail,
           Success
  <2>11. CASE TplCmdOk \/ StatusOk \/ StatusFail \/ OpenImage \/ OpenImageFail \/ Verify
    BY <1>5, <2>3, <2>11
       DEF TplCmdOk, StatusOk, StatusFail, OpenImage, OpenImageFail, Verify, MediaDataOk,
           BulkCmdSend
  <2>12. CASE ReadChunk \/ ReadChunkFail \/ AllSent \/ MediaDataFail
    BY <2>3, <2>12 DEF ReadChunk, ReadChunkFail, AllSent, MediaDataFail, MediaDataOk, BulkCmdSend
  <2> QED
    BY <2>2, <2>4, <2>5, <2>6, <2>7, <2>8, <2>9, <2>10, <2>11, <2>12
       DEF Next, Host, WriteMediaFile, Works
<1>6. ASSUME pc' = "poll", NEW k \in 1 .. Len(pipe'), pipe'[k].of = sent', pipe'[k].text = "OK!!"
      PROVE  media'[addr'] = addr'
  <2>1. CASE MediaDataOk
    BY <1>1, <1>6, <2>1, MessageFields DEF MediaDataOk, PipeInv, Ordered
  <2>2. CASE pc = "poll" /\ sent' = sent /\ addr' = addr
    <3>1. ASSUME NEW j \in 1 .. Len(pipe), pipe'[k] = pipe[j] PROVE media'[addr'] = addr'
      <4>1. media[addr] = addr
        BY <1>1, <1>6, <2>2, <3>1 DEF MediaInv
      <4>2. job = NoJob
        BY <1>1, <1>6, <2>2, <3>1 DEF PipeInv, Complete, IsFinal, Busy
      <4>3. addr \in Chunk
        BY <1>1, <2>2, ChunksAssumption DEF LoopInv, TypeOK, Chunk
      <4> QED  BY <2>2, <4>1, <4>2, <4>3, MediaMoves
    <3>2. CASE Works
      <4>1. job # NoJob /\ job \in Requests /\ job.at = addr /\ job.data = addr /\ job.id = sent
        BY <1>1, <2>2, <3>2 DEF Works, Device, DevBusy, DevAnswer, KindInv, PipeInv
      <4>2. ASSUME NEW m \in Messages, pipe' = Append(pipe, m)
            PROVE  pipe'[k] = m \/ \E j \in 1 .. Len(pipe) : pipe'[k] = pipe[j]
        BY <1>1, <1>6, <4>2, AppendMessage
      <4>3. CASE DevBusy
        <5> DEFINE m == Message(BusyText(job.req), job.id)
        <5>1. m \in Messages /\ m.text # "OK!!" /\ pipe' = Append(pipe, m)
          BY <4>1, <4>3, MessageKinds DEF DevBusy
        <5> HIDE DEF m
        <5> QED  BY <1>6, <3>1, <4>2, <5>1
      <4>4. ASSUME NEW good \in BOOLEAN, DevAnswer(good) PROVE media'[addr'] = addr'
        <5> DEFINE m == FinalMessage(good)
        <5>1. /\ m \in Messages /\ pipe' = Append(pipe, m)
              /\ m.text = "OK!!" => job.req = "chunk" /\ good
          BY <4>1, <4>4, MessageKinds DEF DevAnswer
        <5> HIDE DEF m
        <5>2. job.req = "chunk" /\ good => media'[job.at] = job.data
          <6>1. media' \in MediaAfter(good) /\ media \in [Chunk -> Chunk \cup {Old, Bad}]
            BY <1>1, <4>4 DEF DevAnswer, TypeOK
          <6> QED  BY <4>1, <6>1, MediaAfterWork
        <5> QED  BY <1>6, <2>2, <3>1, <4>1, <4>2, <5>1, <5>2
      <4> QED  BY <3>2, <4>3, <4>4 DEF Works, Device
    <3>3. ~Works => \E j \in 1 .. Len(pipe) : pipe'[k] = pipe[j]
      <4>1. pipe' = pipe \/ Takes \/ Works
        BY <1>6, <2>2, StepKinds DEF Silent, devvars, Interrupts, MediaDataOk, BulkCmdSend
      <4> QED  BY <1>1, <1>6, <4>1, TailMessage DEF Takes, TakeMessage
    <3> QED  BY <3>1, <3>2, <3>3
  <2> QED  BY <1>6, <2>1, <2>2, HostMoves
<1> QED  BY <1>4, <1>5, <1>6 DEF MediaInv

-----------------------------------------------------------------------------
\* A message that the host mistakes for the answer to its last request leaves that
\* answer behind.
LEMMA MistakenLags ==
    ASSUME IInv, Next, TakeMessage, Awaiting, ~Awaiting', Head(pipe).of # sent
    PROVE  keeps /\ Lags'
<1>1. /\ Head(pipe) = pipe[1]
      /\ ~keeps => pipe[1].of = sent
      /\ pipe[1].of # sent => job # NoJob \/ Late(pipe', sent + 1)
  BY MessageTaken
<1> QED  BY <1>1 DEF TakeMessage, Lags

LEMMA EndNext ==
    ASSUME IInv, Next
    PROVE  EndInv'
<1>1. /\ pipe \in Seq(Messages) /\ sent \in Nat /\ TypeOK /\ LoopInv /\ PipeInv /\ KindInv
      /\ job \in Requests \cup {NoJob} /\ MediaInv /\ EndInv /\ addr \in 0 .. Chunks
  BY DEF IInv, TypeOK, Messages
<1>2. keeps' = keeps
  BY StepKinds
     DEF Silent, devvars, Interrupts, MediaDataOk, BulkCmdSend, Takes, TakeMessage, Works,
         Device, DevBusy, DevAnswer
<1>3. Works => /\ job # NoJob /\ pc' = pc /\ bulkcmd' = bulkcmd /\ sent' = sent
               /\ success' = success /\ mixed' = mixed
  BY DEF Works, Device, DevBusy, DevAnswer, cmdvars, filevars
<1>4. (mixed' <=> mixed) \/ \/ PollAnswered /\ Head(pipe).of # sent
                            \/ BulkPollSuccess /\ Head(pipe).of # sent
  <2>1. PollAnswered => (mixed' <=> mixed) \/ Head(pipe).of # sent
    BY DEF PollAnswered
  <2>2. BulkPollSuccess => (mixed' <=> mixed) \/ Head(pipe).of # sent
    BY DEF BulkPollSuccess
  <2> QED  BY <2>1, <2>2, EndMoves
<1>5. ASSUME mixed' PROVE keeps' /\ (pc' # "exit" => Lags')
  <2>1. CASE mixed
    <3>1. pc = "exit" => pc' = "exit"
      BY EndMoves DEF Works
    <3> QED  BY <1>1, <1>2, <2>1, <3>1, LagsNext DEF EndInv
  <2>2. CASE PollAnswered /\ Head(pipe).of # sent
    <3>1. TakeMessage /\ Awaiting /\ ~Awaiting'
      BY <2>2 DEF PollAnswered, NextAttempt, LeaveLoop, Awaiting
    <3> QED  BY <1>2, <2>2, <3>1, MistakenLags
  <2>3. CASE BulkPollSuccess /\ Head(pipe).of # sent
    <3>1. TakeMessage /\ Awaiting /\ ~Awaiting'
      BY <2>3 DEF BulkPollSuccess, Awaiting
    <3> QED  BY <1>2, <2>3, <3>1, MistakenLags
  <2> QED  BY <1>4, <1>5, <2>1, <2>2, <2>3
<1>6. ASSUME \/ pc' \in {"verify", "success"}
             \/ pc' \in {"bulkcmd", "bulkpoll"} /\ bulkcmd' = "verify"
      PROVE  ~Lags'
  <2>1. CASE BulkPollSuccess
    <3>1. ~Awaiting'
      BY <2>1 DEF BulkPollSuccess, Awaiting
    <3>2. job' = NoJob /\ ~Late(pipe', sent + 1) /\ sent' = sent
      BY <2>1, SuccessTaken DEF BulkPollSuccess, TakeMessage
    <3> QED  BY <3>1, <3>2 DEF Lags
  <2>2. CASE pc = "verify" /\ Silent
    <3>1. ~Awaiting /\ ~Lags
      BY <1>1, <2>2 DEF EndInv, Awaiting
    <3> QED  BY <2>2, <3>1 DEF Silent, devvars, Lags
  <2>3. CASE Works
    <3>1. pc = "bulkpoll" /\ bulkcmd = "verify" /\ ~Lags
      BY <1>1, <1>3, <1>6, <2>3 DEF EndInv, KindInv
    <3>2. job # NoJob /\ job \in Requests /\ job.id = sent
      BY <1>1, <1>3, <2>3 DEF PipeInv
    <3>3. \E m \in Messages : m.of = sent /\ pipe' = Append(pipe, m)
      BY <2>3, <3>2, MessageKinds DEF Works, Device, DevBusy, DevAnswer
    <3>4. Late(pipe', sent) => Late(pipe, sent)
      BY <1>1, <3>3, LateStays
    <3> QED  BY <1>2, <1>3, <2>3, <3>1, <3>4 DEF Lags, Awaiting
  <2>4. CASE BulkCmdSend
    <3>1. pc = "bulkcmd" /\ bulkcmd = "verify" /\ ~Lags /\ job = NoJob /\ ~Awaiting /\ Awaiting'
      BY <1>1, <1>6, <2>4 DEF BulkCmdSend, EndInv, KindInv, cmdvars, Awaiting
    <3>2. keeps => pipe' = pipe
      BY <1>1, <2>4, <3>1, InterruptAnswers DEF BulkCmdSend
    <3> QED  BY <1>2, <2>4, <3>1, <3>2 DEF BulkCmdSend, Lags
  <2>5. CASE BulkPollBusy
    <3>1. pc = "bulkpoll" /\ pc' = "bulkpoll" /\ bulkcmd' = bulkcmd /\ TakeMessage
      BY <2>5 DEF BulkPollBusy, cmdvars
    <3>2. ~Lags /\ Awaiting /\ Awaiting' /\ sent' = sent
      BY <1>1, <1>6, <3>1 DEF EndInv, Awaiting, TakeMessage
    <3> QED  BY <1>2, <3>1, <3>2, MessageTaken DEF Lags
  <2>6. BulkPollSuccess \/ (pc = "verify" /\ Silent) \/ Works \/ BulkCmdSend \/ BulkPollBusy
    <3>1. CASE pc' \in {"verify", "success"}
      BY <3>1, HostMoves
    <3>2. CASE pc' = "bulkcmd" /\ bulkcmd' = "verify"
      BY <1>1, <3>2, HostMoves DEF Written
    <3>3. CASE pc' = "bulkpoll"
      BY <3>3, EndMoves
    <3> QED  BY <1>6, <3>1, <3>2, <3>3
  <2> QED  BY <2>1, <2>2, <2>3, <2>4, <2>5, <2>6
<1>7. ASSUME success' PROVE pc' = "exit" /\ job' = NoJob /\ Burned' /\ ~mixed'
  <2>1. CASE Success
    <3>1. pc = "success" /\ ~Lags /\ job = NoJob /\ addr = Chunks /\ ~mixed
      BY <1>1, <2>1 DEF Success, EndInv, KindInv, LoopInv
    <3>2. \A c \in Chunk : media[c] = c
      BY <1>1, <3>1 DEF MediaInv, Chunk
    <3> QED  BY <2>1, <3>1, <3>2 DEF Success, devvars, Burned
  <2>2. CASE success
    <3>1. pc = "exit" /\ job = NoJob
      BY <1>1, <2>2 DEF EndInv
    <3> QED  BY <1>3, <3>1, EndMoves
  <2>3. (success' <=> success) \/ Success
    BY EndMoves
  <2> QED  BY <1>7, <2>1, <2>2, <2>3
<1> QED  BY <1>5, <1>6, <1>7 DEF EndInv

-----------------------------------------------------------------------------
LEMMA NextInv == IInv /\ [Next]_vars => IInv'
<1> SUFFICES ASSUME IInv, [Next]_vars PROVE IInv'
  OBVIOUS
<1>1. CASE Next
  <2>1. TypeOK' /\ LoopInv'
    BY <1>1, TypeNext DEF IInv
  <2> QED  BY <1>1, <2>1, PipeNext, KindNext, MediaNext, EndNext DEF IInv
<1>2. CASE UNCHANGED vars
  <2>1. TypeOK' /\ LoopInv' /\ PipeInv' /\ KindInv' /\ MediaInv' /\ EndInv'
    BY <1>2 DEF IInv, vars, devvars, filevars, cmdvars, TypeOK, LoopInv, PipeInv, KindInv,
       MediaInv, EndInv, Lags, Awaiting, Burned
  <2> QED  BY <2>1 DEF IInv
<1> QED  BY <1>1, <1>2

\* The messages in the pipe, the request the device works on and the chunks already
\* stored fit together at every point of do_cmd_mwrtie (update.cpp).
THEOREM InductiveInvariant == Spec => []IInv
BY InitInv, NextInv, PTL DEF Spec

\* No variable of the command leaves its range, for any number of chunks, attempts
\* and polls: in particular no chunk, attempt or poll beyond its limit.
THEOREM TypeCorrect == Spec => []TypeOK
<1>1. IInv => TypeOK
  BY DEF IInv
<1> QED  BY <1>1, InductiveInvariant, PTL

\* "mwrite success" is printed only for an image whose every chunk is in its place,
\* and no final message was taken for the answer to another request on the way.
THEOREM SuccessIsBurned == Spec => []SuccessMeansBurned
<1>1. IInv => SuccessMeansBurned
  BY DEF IInv, EndInv, SuccessMeansBurned
<1> QED  BY <1>1, InductiveInvariant, PTL

\* With a device that forgets unfinished requests, a 0 from WriteMediaFile means that
\* every chunk is in its place.
THEOREM WrittenIsStored == Spec => []WrittenMeansStored
<1>1. IInv => WrittenMeansStored
  BY DEF IInv, LoopInv, MediaInv, Lags, WrittenMeansStored, Burned, Chunk
<1> QED  BY <1>1, InductiveInvariant, PTL

-----------------------------------------------------------------------------
\* The final messages of a pipe, counted.
LEMMA FinalsFinite ==
    ASSUME NEW p \in Seq(Messages)
    PROVE  IsFiniteSet(Finals(p)) /\ Cardinality(Finals(p)) \in Nat
<1>1. Finals(p) \subseteq 1 .. Len(p) /\ Len(p) \in Int
  BY LenProperties DEF Finals
<1>2. IsFiniteSet(1 .. Len(p))
  BY <1>1, FS_Interval
<1> QED  BY <1>1, <1>2, FS_Subset, FS_CardinalityType

LEMMA FinalsAppend ==
    ASSUME NEW p \in Seq(Messages), NEW m \in Messages
    PROVE  Cardinality(Finals(Append(p, m)))
              = Cardinality(Finals(p)) + (IF IsFinal(m) THEN 1 ELSE 0)
<1> DEFINE s == Append(p, m)
<1> HIDE DEF s
<1>1. /\ Len(s) = Len(p) + 1 /\ Len(p) \in Nat
      /\ \A k \in 1 .. Len(p) : s[k] = p[k] /\ k \in 1 .. Len(s)
      /\ s[Len(p) + 1] = m
      /\ \A k \in 1 .. Len(s) : k \in 1 .. Len(p) \/ k = Len(p) + 1
      /\ Len(p) + 1 \in 1 .. Len(s)
  BY AppendMessage DEF s
<1>2. CASE IsFinal(m)
  <2>1. Finals(s) = Finals(p) \cup {Len(p) + 1}
    BY <1>1, <1>2 DEF Finals
  <2>2. Len(p) + 1 \notin Finals(p)
    BY <1>1 DEF Finals
  <2> QED  BY <1>2, <2>1, <2>2, FinalsFinite, FS_AddElement DEF s
<1>3. CASE ~IsFinal(m)
  <2>1. Finals(s) = Finals(p)
    BY <1>1, <1>3 DEF Finals
  <2> QED  BY <1>3, <2>1, FinalsFinite DEF s
<1> QED  BY <1>2, <1>3

LEMMA FinalsTail ==
    ASSUME NEW p \in Seq(Messages), p # <<>>
    PROVE  Cardinality(Finals(p))
              = Cardinality(Finals(Tail(p))) + (IF IsFinal(p[1]) THEN 1 ELSE 0)
<1> DEFINE s == Tail(p)
           move == [k \in Finals(s) |-> k + 1]
           rest == Finals(p) \ {1}
<1> HIDE DEF s
<1>1. /\ s \in Seq(Messages) /\ Len(s) = Len(p) - 1 /\ Len(p) \in Nat \ {0}
      /\ \A k \in 1 .. Len(s) : s[k] = p[k + 1] /\ k + 1 \in 1 .. Len(p)
      /\ \A k \in 1 .. Len(p) : k = 1 \/ (k - 1 \in 1 .. Len(s) /\ s[k - 1] = p[k])
      /\ 1 \in 1 .. Len(p)
  BY TailMessage DEF s
<1>2. move \in [Finals(s) -> rest]
  BY <1>1 DEF Finals
<1>3. \A j, k \in Finals(s) : move[j] = move[k] => j = k
  BY <1>1 DEF Finals
<1>4. \A k \in rest : \E j \in Finals(s) : move[j] = k
  <2>1. ASSUME NEW k \in rest PROVE k - 1 \in Finals(s) /\ move[k - 1] = k
    <3>1. k \in 1 .. Len(p) /\ k # 1 /\ IsFinal(p[k])
      BY DEF Finals
    <3>2. k - 1 \in Finals(s)
      BY <1>1, <3>1 DEF Finals
    <3> QED  BY <3>1, <3>2
  <2> QED  BY <2>1
<1>5. ExistsBijection(Finals(s), rest)
  <2>1. move \in Bijection(Finals(s), rest)
    BY <1>2, <1>3, <1>4 DEF Bijection, Injection, Surjection, IsInjective
  <2> QED  BY <2>1 DEF ExistsBijection
<1>6. Cardinality(rest) = Cardinality(Finals(s))
  BY <1>1, <1>5, FinalsFinite, FS_Bijection
<1>7. Cardinality(rest) = IF 1 \in Finals(p) THEN Cardinality(Finals(p)) - 1
                                            ELSE Cardinality(Finals(p))
  BY FinalsFinite, FS_RemoveElement
<1>8. 1 \in Finals(p) <=> IsFinal(p[1])
  BY <1>1 DEF Finals
<1> QED  BY <1>6, <1>7, <1>8, FinalsFinite DEF s

\* The device turns an open request into a final message, and only that.
LEMMA InterruptFinals ==
    ASSUME IInv, Interrupt, keeps
    PROVE  Cardinality(Finals(pipe'))
              = Cardinality(Finals(pipe)) + (IF job = NoJob THEN 0 ELSE 1)
<1>1. pipe \in Seq(Messages) /\ TypeOK /\ PipeInv
  BY DEF IInv, TypeOK, Messages
<1>2. CASE job = NoJob
  BY <1>1, <1>2, FinalsFinite, InterruptAnswers
<1>3. ASSUME job \in Requests, job # NoJob, NEW good \in BOOLEAN,
             pipe' = Append(pipe, FinalMessage(good))
      PROVE  Cardinality(Finals(pipe')) = Cardinality(Finals(pipe)) + 1
  <2>1. FinalMessage(good) \in Messages /\ IsFinal(FinalMessage(good))
    BY <1>3, MessageKinds
  <2> QED  BY <1>1, <1>3, <2>1, FinalsAppend
<1> QED  BY <1>1, <1>2, <1>3, InterruptEffect

LEMMA BehindNext ==
    ASSUME IInv, Next, keeps
    PROVE  Behind' >= Behind
<1> DEFINE n == Cardinality(Finals(pipe))
<1>1. /\ pipe \in Seq(Messages) /\ TypeOK /\ LoopInv /\ PipeInv /\ KindInv
      /\ job \in Requests \cup {NoJob} /\ n \in Nat
  BY FinalsFinite DEF IInv, TypeOK, Messages
<1>2. Behind = n + (IF job = NoJob THEN 0 ELSE 1) - (IF Awaiting THEN 1 ELSE 0)
  BY DEF Behind, Awaiting
<1>3. Behind' = n' + (IF job' = NoJob THEN 0 ELSE 1) - (IF Awaiting' THEN 1 ELSE 0)
  BY DEF Behind, Awaiting
<1>4. CASE Silent
  BY <1>1, <1>2, <1>3, <1>4 DEF Silent, devvars
<1>5. CASE Interrupts
  <2>1. n' = n + (IF job = NoJob THEN 0 ELSE 1)
    BY <1>5, InterruptFinals DEF Interrupts
  <2>2. job' = NoJob /\ ~Awaiting /\ ~Awaiting'
    BY <1>5 DEF Interrupts, Awaiting
  <2> HIDE DEF n
  <2> QED  BY <1>1, <1>2, <1>3, <2>1, <2>2
<1>6. CASE MediaDataOk
  <2>1. job = NoJob /\ job' # NoJob /\ ~Awaiting /\ Awaiting' /\ n' = n
    BY <1>1, <1>6 DEF MediaDataOk, KindInv, Awaiting, NoJob
  <2> HIDE DEF n
  <2> QED  BY <1>1, <1>2, <1>3, <2>1
<1>7. CASE BulkCmdSend
  <2>1. n' = n + (IF job = NoJob THEN 0 ELSE 1)
    BY <1>7, InterruptFinals DEF BulkCmdSend
  <2>2. job' # NoJob /\ ~Awaiting /\ Awaiting'
    BY <1>7 DEF BulkCmdSend, Awaiting, NoJob
  <2> HIDE DEF n
  <2> QED  BY <1>1, <1>2, <1>3, <2>1, <2>2
<1>8. CASE Takes
  <2>1. /\ pipe # <<>> /\ pipe' = Tail(pipe) /\ job' = job /\ Awaiting
        /\ Awaiting' => ~IsFinal(pipe[1])
    BY <1>1, <1>8, TakeEffect DEF Takes, TakeMessage
  <2>2. n = n' + (IF IsFinal(pipe[1]) THEN 1 ELSE 0)
    BY <1>1, <2>1, FinalsTail
  <2>3. n' \in Nat
    BY <1>1, <2>1, TailMessage, FinalsFinite
  <2>4. CASE Awaiting'
    BY <1>1, <1>2, <1>3, <2>1, <2>2, <2>3, <2>4
  <2>5. CASE ~Awaiting'
    BY <1>1, <1>2, <1>3, <2>1, <2>2, <2>3, <2>5
  <2> QED  BY <2>4, <2>5
<1>9. CASE Works
  <2>1. job # NoJob /\ job \in Requests /\ (Awaiting' <=> Awaiting)
    BY <1>1, <1>9 DEF Works, Device, DevBusy, DevAnswer, Awaiting
  <2>2. \/ job' # NoJob /\ n' = n
        \/ job' = NoJob /\ n' = n + 1
    <3>1. CASE DevBusy
      <4>1. /\ Message(BusyText(job.req), job.id) \in Messages
            /\ ~IsFinal(Message(BusyText(job.req), job.id))
            /\ pipe' = Append(pipe, Message(BusyText(job.req), job.id)) /\ job' = job
        BY <2>1, <3>1, MessageKinds DEF DevBusy
      <4>2. Cardinality(Finals(Append(pipe, Message(BusyText(job.req), job.id)))) = n
        BY <1>1, <4>1, FinalsAppend
      <4>3. n' = n
        BY <4>1, <4>2
      <4> QED  BY <1>1, <2>1, <4>1, <4>3
    <3>2. ASSUME NEW good \in BOOLEAN, DevAnswer(good)
          PROVE  job' = NoJob /\ n' = n + 1
      <4>1. /\ FinalMessage(good) \in Messages /\ IsFinal(FinalMessage(good))
            /\ pipe' = Append(pipe, FinalMessage(good)) /\ job' = NoJob
        BY <2>1, <3>2, MessageKinds DEF DevAnswer
      <4>2. Cardinality(Finals(Append(pipe, FinalMessage(good)))) = n + 1
        BY <1>1, <4>1, FinalsAppend
      <4>3. n' = n + 1
        BY <4>1, <4>2
      <4> QED  BY <4>1, <4>3
    <3> QED  BY <1>9, <3>1, <3>2 DEF Works, Device
  <2>3. PICK a \in Int : a = (IF Awaiting THEN 1 ELSE 0) /\ a = (IF Awaiting' THEN 1 ELSE 0)
    BY <2>1
  <2>4. Behind = n + (1 - a)
    BY <1>2, <2>1, <2>3, Zenon
  <2>5. CASE job' # NoJob /\ n' = n
    <3>1. Behind' = n + (1 - a)
      BY <1>3, <2>3, <2>5, Zenon
    <3> HIDE DEF n
    <3> QED  BY <1>1, <2>4, <3>1
  <2>6. CASE job' = NoJob /\ n' = n + 1
    <3>1. Behind' = (n + 1) + (0 - a)
      BY <1>3, <2>3, <2>6, Zenon
    <3> HIDE DEF n
    <3> QED  BY <1>1, <2>3, <2>4, <3>1
  <2> QED  BY <2>2, <2>5, <2>6
<1> QED  BY <1>4, <1>5, <1>6, <1>7, <1>8, <1>9, StepKinds

\* With a device that answers every request, no step of the command and no sequence of
\* its retries consumes two answers for one request.
THEOREM CatchesUpNever == Spec => NeverCatchesUp
<1>1. IInv /\ [Next]_vars => [keeps /\ pc # "exit" /\ pc' # "exit" => Behind' >= Behind]_vars
  BY BehindNext
<1> QED  BY <1>1, InductiveInvariant, PTL DEF Spec, NeverCatchesUp

-----------------------------------------------------------------------------
\* A device that forgets unfinished requests is led through the image in order: the
\* places before n hold their chunk and those after it have not been touched.
InPlace(n) == \A c \in Chunk : (c < n => media[c] = c) /\ (c > n => media[c] = Old)

\* Place addr is next, and a chunk goes to its own place.
OrderInv ==
    /\ ~keeps /\ pc # "exit" => InPlace(addr)
    /\ job # NoJob /\ job.req = "chunk" =>
          job.data = job.at /\ (~keeps => InPlace(job.at))

LEMMA OrderInit == Init => OrderInv
<1>1. Init => \A c \in Chunk : ~(c < addr) /\ media[c] = Old
  BY ChunksAssumption DEF Init, DevInit, MediaInit, Chunk
<1>2. Init => job = NoJob
  BY DEF Init, DevInit
<1> QED  BY <1>1, <1>2 DEF OrderInv, InPlace

\* What a step does to the partition: nothing, or what work on a chunk does.
LEMMA MediaSteps ==
    ASSUME IInv, Next
    PROVE  \/ media' = media
           \/ /\ job \in Requests /\ job # NoJob /\ job.req = "chunk"
              /\ \E d \in {job.data, Bad} : media' = [media EXCEPT ![job.at] = d]
<1>1. job \in Requests \cup {NoJob}
  BY DEF IInv, TypeOK
<1>2. ASSUME NEW good \in BOOLEAN, job # NoJob, media' \in MediaAfter(good)
      PROVE  \/ media' = media
             \/ /\ job \in Requests /\ job # NoJob /\ job.req = "chunk"
                /\ \E d \in {job.data, Bad} : media' = [media EXCEPT ![job.at] = d]
  BY <1>1, <1>2 DEF MediaAfter
<1>3. CASE Interrupt
  BY <1>2, <1>3 DEF Interrupt
<1>4. CASE Works
  BY <1>2, <1>4 DEF Works, Device, DevBusy, DevAnswer
<1> QED
  BY <1>3, <1>4, StepKinds
     DEF Silent, devvars, Interrupts, MediaDataOk, BulkCmdSend, Takes, TakeMessage

\* The device's kind, the number of the next chunk and the request it works on.
LEMMA OrderMoves ==
    ASSUME IInv, Next
    PROVE  /\ keeps' = keeps
           /\ addr' = addr \/ (PollAnswered /\ addr' = addr + 1 /\ Head(pipe).text = "OK!!")
           /\ \/ job' = job \/ job' = NoJob \/ MediaDataOk
              \/ BulkCmdSend /\ job'.req = bulkcmd
           /\ pc = "exit" => pc' = "exit"
<1>1. keeps' = keeps
  BY StepKinds
     DEF Silent, devvars, Interrupts, MediaDataOk, BulkCmdSend, Takes, TakeMessage, Works,
         Device, DevBusy, DevAnswer
<1>2. addr' = addr \/ (PollAnswered /\ addr' = addr + 1 /\ Head(pipe).text = "OK!!")
  <2>1. CASE PollAnswered
    BY <2>1 DEF PollAnswered, NextAttempt, LeaveLoop
  <2>2. CASE OpenImage
    BY <2>2 DEF OpenImage, IInv, LoopInv
  <2> QED  BY <2>1, <2>2, HostMoves
<1>3. job' = job \/ job' = NoJob \/ MediaDataOk \/ (BulkCmdSend /\ job'.req = bulkcmd)
  BY StepKinds
     DEF Silent, devvars, Interrupts, BulkCmdSend, Takes, TakeMessage, Works, Device, DevBusy,
         DevAnswer
<1>4. pc = "exit" => pc' = "exit"
  BY EndMoves DEF Works
<1> QED  BY <1>1, <1>2, <1>3, <1>4

LEMMA OrderNext ==
    ASSUME IInv, OrderInv, Next
    PROVE  OrderInv'
<1>1. /\ TypeOK /\ LoopInv /\ KindInv /\ MediaInv /\ addr \in 0 .. Chunks
      /\ job \in Requests \cup {NoJob} /\ bulkcmd \in {"none", "get_status", "verify"}
  BY DEF IInv, TypeOK
<1>2. ASSUME NEW n \in Int, InPlace(n),
             job # NoJob /\ job.req = "chunk" /\ media' # media => job.at = n
      PROVE  InPlace(n)'
  <2> SUFFICES ASSUME NEW c \in Chunk
               PROVE  (c < n => media'[c] = c) /\ (c > n => media'[c] = Old)
    BY DEF InPlace
  <2>1. CASE media'[c] = media[c]
    BY <1>2, <2>1 DEF InPlace
  <2>2. CASE media'[c] # media[c]
    <3>1. c = n
      BY <1>2, <2>2, MediaMoves
    <3> QED  BY <3>1
  <2> QED  BY <2>1, <2>2
<1>3. ASSUME ~keeps', pc' # "exit" PROVE InPlace(addr)'
  <2>1. ~keeps /\ pc # "exit" /\ ~Lags /\ InPlace(addr)
    BY <1>3, OrderMoves DEF OrderInv, Lags
  <2>2. CASE addr' = addr
    <3>1. job # NoJob /\ job.req = "chunk" => job.at = addr
      BY <1>1, <2>1 DEF MediaInv, KindInv, LoopInv
    <3> QED  BY <1>1, <1>2, <2>1, <2>2, <3>1 DEF InPlace
  <2>3. CASE PollAnswered /\ addr' = addr + 1 /\ Head(pipe).text = "OK!!"
    <3>1. media' = media /\ media[addr] = addr
      BY <2>1, <2>3, StoredWhenAnswered DEF PollAnswered, TakeMessage
    <3>2. \A c \in Chunk : (c < addr + 1 => c < addr \/ c = addr) /\ (c > addr + 1 => c > addr)
      BY <1>1 DEF Chunk
    <3> QED  BY <2>1, <2>3, <3>1, <3>2 DEF InPlace
  <2> QED  BY <2>2, <2>3, OrderMoves
<1>4. ASSUME job' # NoJob, job'.req = "chunk"
      PROVE  job'.data = job'.at /\ (~keeps' => InPlace(job.at)')
  <2>1. CASE MediaDataOk
    <3>1. /\ pc = "data" /\ job'.at = addr /\ job'.data = buf /\ buf = addr
          /\ media' = media /\ keeps' = keeps
      BY <1>1, <2>1 DEF MediaDataOk, LoopInv
    <3> QED  BY <3>1 DEF OrderInv, InPlace
  <2>2. CASE job' = job
    <3>1. job.at \in Int
      BY <1>1, <1>4, <2>2, ChunksAssumption DEF Requests, Chunk
    <3>2. job.data = job.at /\ (~keeps => InPlace(job.at))
      BY <1>4, <2>2 DEF OrderInv
    <3>3. PICK n \in Int : n = job.at
      BY <3>1
    <3>4. ~keeps => InPlace(n)'
      BY <1>2, <3>2, <3>3
    <3> QED  BY <2>2, <3>2, <3>3, <3>4, OrderMoves DEF InPlace
  <2> QED  BY <1>1, <1>4, <2>1, <2>2, OrderMoves
<1> QED  BY <1>3, <1>4 DEF OrderInv

-----------------------------------------------------------------------------
\* Mwrite implements BurnImage.

LEMMA BurnInit == Init => Abstract!Init
BY DEF Init, DevInit, MediaInit, Abstract!Init, Abstract!Chunk, Chunk

\* Work on a chunk is a step of BurnImage.
LEMMA BurnStep ==
    ASSUME IInv, OrderInv, Next, media' # media
    PROVE  Abstract!Next
<1>1. /\ job \in Requests /\ job # NoJob /\ job.req = "chunk"
      /\ \E d \in {job.data, Bad} : media' = [media EXCEPT ![job.at] = d]
  BY MediaSteps
<1>2. job.at \in Chunk /\ job.data = job.at /\ (~keeps => InPlace(job.at))
  BY <1>1 DEF Requests, OrderInv
<1>3. keeps' = keeps
  BY OrderMoves
<1>4. ~success /\ ~success' /\ (pc' = "exit" <=> pc = "exit")
  <2>1. ~success
    BY <1>1 DEF IInv, EndInv
  <2>2. ~Success
    BY DEF Success, devvars
  <2>3. pc' = "exit" => pc = "exit"
    BY StepKinds
       DEF Silent, devvars, Interrupts, MediaDataOk, BulkCmdSend, Takes, TakeMessage, Works
  <2> QED  BY <2>1, <2>2, <2>3, EndMoves, OrderMoves
<1>5. Abstract!InOrder(job.at) \/ keeps
  BY <1>2 DEF InPlace, Abstract!InOrder, Abstract!Chunk, Chunk
<1>6. Abstract!Burn(job.at)
  BY <1>1, <1>2, <1>3, <1>4, <1>5 DEF Abstract!Burn
<1> QED  BY <1>2, <1>6 DEF Abstract!Next, Abstract!Chunk, Chunk

LEMMA BurnNext ==
    ASSUME IInv, OrderInv, Next
    PROVE  Abstract!Next \/ UNCHANGED Abstract!bvars
<1>1. CASE media' # media
  BY <1>1, BurnStep
<1>2. CASE Success
  <2>1. pc = "success" /\ ~success /\ success' /\ pc' = "exit"
    BY <1>2 DEF Success, IInv, EndInv
  <2>2. media' = media /\ keeps' = keeps
    BY <1>2 DEF Success, devvars
  <2>3. \A c \in Chunk : media[c] = c
    BY <2>1, <2>2, EndNext DEF EndInv, Burned
  <2> QED  BY <2>1, <2>2, <2>3 DEF Abstract!Next, Abstract!Report, Abstract!Chunk, Chunk
<1>3. CASE media' = media /\ ~Success
  <2>1. keeps' = keeps /\ (success' <=> success) /\ (pc = "exit" => pc' = "exit")
    BY <1>3, OrderMoves, EndMoves
  <2>2. success => pc = "exit"
    BY DEF IInv, EndInv
  <2>3. CASE pc # "exit" /\ pc' = "exit"
    BY <1>3, <2>1, <2>2, <2>3 DEF Abstract!Next, Abstract!GiveUp
  <2>4. CASE pc = "exit" \/ pc' # "exit"
    BY <1>3, <2>1, <2>2, <2>4 DEF Abstract!bvars
  <2> QED  BY <2>3, <2>4
<1> QED  BY <1>1, <1>2, <1>3

\* The chunks, attempts and verdicts of WriteMediaFile and the answer of
\* do_cmd_mwrtie keep the promise of BurnImage: a device that forgets unfinished
\* requests is led through the image in order, and once success is reported no
\* place of the image is touched again.
THEOREM BurnsImage == Spec => ImplementsBurnImage
<1>1. IInv /\ OrderInv /\ [Next]_vars => OrderInv'
  <2>1. IInv /\ OrderInv /\ Next => OrderInv'
    BY OrderNext
  <2>2. OrderInv /\ UNCHANGED vars => OrderInv'
    BY DEF OrderInv, InPlace, vars, devvars, filevars
  <2> QED  BY <2>1, <2>2
<1>2. IInv /\ OrderInv /\ [Next]_vars => [Abstract!Next]_Abstract!bvars
  <2>1. IInv /\ OrderInv /\ Next => Abstract!Next \/ UNCHANGED Abstract!bvars
    BY BurnNext
  <2>2. UNCHANGED vars => UNCHANGED Abstract!bvars
    BY DEF vars, devvars, cmdvars, Abstract!bvars
  <2> QED  BY <2>1, <2>2
<1> QED
  BY <1>1, <1>2, OrderInit, BurnInit, InductiveInvariant, PTL
     DEF Spec, ImplementsBurnImage, Abstract!Spec

-----------------------------------------------------------------------------
\* What the command has left to do: the places it has still to pass, the chunks, the
\* attempts at the chunk, what is left of the attempt, and the polls.
Phase ==
    CASE pc = "start" -> 9 [] pc = "status" -> 8 [] pc = "WriteMediaFile" -> 7
      [] pc \in {"chunk", "command", "data", "poll"} -> 6
      [] pc = "written" -> 5
      [] pc \in {"bulkcmd", "bulkpoll"} -> IF bulkcmd = "get_status" THEN 4 ELSE 2
      [] pc = "verify" -> 3 [] pc = "success" -> 1 [] OTHER -> 0

Tries == IF pc = "chunk" THEN Attempts + 1 ELSE Attempts - attempt

Spot ==
    CASE pc = "command" -> 3 [] pc \in {"data", "bulkcmd"} -> 2
      [] pc \in {"poll", "bulkpoll"} -> 1 [] OTHER -> 0

Remaining == <<Phase, remain, Tries, Spot, MaxPolls - polls>>

LEMMA Falls ==
    ASSUME NEW p, NEW q, NEW r, NEW s, NEW u, NEW p2, NEW q2, NEW r2, NEW s2, NEW u2,
           \/ p2 < p
           \/ p2 = p /\ q2 < q
           \/ p2 = p /\ q2 = q /\ r2 < r
           \/ p2 = p /\ q2 = q /\ r2 = r /\ s2 < s
           \/ p2 = p /\ q2 = q /\ r2 = r /\ s2 = s /\ u2 < u
    PROVE  Below(<<p2, q2, r2, s2, u2>>, <<p, q, r, s, u>>)
<1> DEFINE m == <<p2, q2, r2, s2, u2>>
           n == <<p, q, r, s, u>>
<1>1. CASE p2 < p
  <2>1. 1 \in 1 .. Len(n) /\ m[1] < n[1] /\ \A j \in 1 .. 1 - 1 : m[j] = n[j]
    BY <1>1
  <2> QED  BY <2>1 DEF Below
<1>2. CASE p2 = p /\ q2 < q
  <2>1. 2 \in 1 .. Len(n) /\ m[2] < n[2] /\ \A j \in 1 .. 2 - 1 : m[j] = n[j]
    BY <1>2
  <2> QED  BY <2>1 DEF Below
<1>3. CASE p2 = p /\ q2 = q /\ r2 < r
  <2>1. 3 \in 1 .. Len(n) /\ m[3] < n[3] /\ \A j \in 1 .. 3 - 1 : m[j] = n[j]
    BY <1>3
  <2> QED  BY <2>1 DEF Below
<1>4. CASE p2 = p /\ q2 = q /\ r2 = r /\ s2 < s
  <2>1. 4 \in 1 .. Len(n) /\ m[4] < n[4] /\ \A j \in 1 .. 4 - 1 : m[j] = n[j]
    BY <1>4
  <2> QED  BY <2>1 DEF Below
<1>5. CASE p2 = p /\ q2 = q /\ r2 = r /\ s2 = s /\ u2 < u
  <2>1. 5 \in 1 .. Len(n) /\ m[5] < n[5] /\ \A j \in 1 .. 5 - 1 : m[j] = n[j]
    BY <1>5
  <2> QED  BY <2>1 DEF Below
<1> QED  BY <1>1, <1>2, <1>3, <1>4, <1>5

\* Each step of the host brings the end nearer: outside the chunks...
LEMMA CommandFalls ==
    ASSUME IInv, Host, ~(WriteMediaFile /\ UNCHANGED cmdvars)
    PROVE  \/ Phase' < Phase
           \/ Phase' = Phase /\ remain' = remain /\ Tries' = Tries /\ Spot' < Spot
           \/ /\ Phase' = Phase /\ remain' = remain /\ Tries' = Tries /\ Spot' = Spot
              /\ MaxPolls - polls' < MaxPolls - polls
<1>1. polls \in Nat /\ MaxPolls \in Nat
  BY MediaAssumption DEF IInv, TypeOK
<1>2. pc # "exit" /\ pc' = "exit" => Phase' < Phase
  BY DEF Phase, IInv, TypeOK, HostStates
<1>3. CASE NoImage \/ TplCmdFail \/ StatusFail \/ WrittenFail \/ BulkCmdSendFail
           \/ BulkPollRefused \/ BulkPollFail \/ Success
  BY <1>2, <1>3 DEF NoImage, TplCmdFail, StatusFail, WrittenFail, BulkCmdSendFail,
     BulkPollRefused, BulkPollFail, Success, BulkCmdError, Exit
<1>4. CASE TplCmdOk \/ StatusOk \/ Written
  BY <1>4 DEF TplCmdOk, StatusOk, Written, Phase
<1>5. CASE BulkCmdSend
  <2>1. pc = "bulkcmd" /\ pc' = "bulkpoll" /\ bulkcmd' = bulkcmd
        /\ remain' = remain /\ attempt' = attempt
    BY <1>5 DEF BulkCmdSend, filevars, cmdvars
  <2> QED  BY <2>1 DEF Phase, Tries, Spot
<1>6. CASE BulkPollBusy
  <2>1. pc = "bulkpoll" /\ pc' = pc /\ bulkcmd' = bulkcmd /\ polls' = polls + 1
        /\ remain' = remain /\ attempt' = attempt
    BY <1>6 DEF BulkPollBusy, TakeMessage, filevars, cmdvars
  <2> QED  BY <1>1, <2>1 DEF Phase, Tries, Spot
<1>7. CASE BulkPollSuccess
  BY <1>7 DEF BulkPollSuccess, cmdvars, Phase
<1>8. CASE Verify
  BY <1>2, <1>8 DEF Verify, Exit, Phase
<1> QED  BY <1>3, <1>4, <1>5, <1>6, <1>7, <1>8 DEF Host

\* ... and within.
LEMMA ChunkFalls ==
    ASSUME IInv, WriteMediaFile, UNCHANGED cmdvars
    PROVE  \/ Phase' < Phase
           \/ Phase' = Phase /\ remain' < remain
           \/ Phase' = Phase /\ remain' = remain /\ Tries' < Tries
           \/ Phase' = Phase /\ remain' = remain /\ Tries' = Tries /\ Spot' < Spot
           \/ /\ Phase' = Phase /\ remain' = remain /\ Tries' = Tries /\ Spot' = Spot
              /\ MaxPolls - polls' < MaxPolls - polls
<1>1. /\ polls \in Nat /\ MaxPolls \in Nat /\ Attempts \in Nat \ {0}
      /\ attempt \in Nat /\ remain \in Nat
  BY MediaAssumption, ChunksAssumption DEF IInv, TypeOK
<1>2. pc \in {"chunk", "command", "data", "poll"} /\ pc' = "written" => Phase' < Phase
  BY DEF Phase
<1>3. pc \in {"chunk", "command", "data", "poll"} /\ pc' \in {"chunk", "command", "data", "poll"}
      => Phase' = Phase
  BY DEF Phase
<1>4. CASE OpenImage \/ OpenImageFail
  BY <1>4 DEF OpenImage, OpenImageFail, Phase
<1>5. CASE ReadChunk
  <2>1. pc = "chunk" /\ pc' = "command" /\ remain' = remain /\ attempt' = 0
    BY <1>5 DEF ReadChunk
  <2> QED  BY <1>1, <1>3, <2>1 DEF Tries
<1>6. CASE ReadChunkFail \/ AllSent \/ MediaCommandFail \/ MediaDataFail \/ PollFail
  BY <1>2, <1>6 DEF ReadChunkFail, AllSent, MediaCommandFail, MediaDataFail, PollFail, LeaveLoop
<1>7. CASE MediaCommandOk \/ MediaDataOk
  <2>1. /\ \/ pc = "command" /\ pc' = "data"
           \/ pc = "data" /\ pc' = "poll"
        /\ remain' = remain /\ attempt' = attempt
    BY <1>7 DEF MediaCommandOk, MediaDataOk, filevars
  <2> QED  BY <1>3, <2>1 DEF Tries, Spot
<1>8. CASE PollBusy
  <2>1. pc = "poll" /\ pc' = pc /\ remain' = remain /\ attempt' = attempt /\ polls' = polls + 1
    BY <1>8 DEF PollBusy, TakeMessage, filevars
  <2> QED  BY <1>1, <1>3, <2>1 DEF Tries, Spot
<1>9. CASE PollDeadline \/ (PollAnswered /\ Head(pipe).text # "OK!!")
  <2>1. pc = "poll" /\ NextAttempt
    BY <1>9 DEF PollDeadline, PollAnswered
  <2>2. CASE pc' = "command" /\ attempt' = attempt + 1 /\ remain' = remain
    BY <1>1, <1>3, <2>1, <2>2 DEF Tries
  <2>3. CASE pc' = "written"
    BY <1>2, <2>1, <2>3
  <2> QED  BY <2>1, <2>2, <2>3 DEF NextAttempt, LeaveLoop
<1>10. CASE PollAnswered /\ Head(pipe).text = "OK!!"
  <2>1. pc = "poll" /\ pc' = "chunk" /\ remain' = remain - 1
    BY <1>10 DEF PollAnswered
  <2> QED  BY <1>1, <1>3, <2>1
<1> QED  BY <1>4, <1>5, <1>6, <1>7, <1>8, <1>9, <1>10 DEF WriteMediaFile

\* mwrite comes to its end after finitely many steps of the host, for every number of
\* chunks, attempts and polls and whatever the device sends or withholds: each of its
\* steps takes the five numbers down, in lexicographic order, none of them falls below
\* 0, and no step of the device brings them up (the loops of WriteMediaFile,
\* AmlWriteMedia and AmlUsbBulkCmd).
THEOREM CommandProgress ==
    Spec => /\ [](Remaining \in Nat \X Nat \X Nat \X Nat \X Nat)
            /\ [][IF Host THEN Below(Remaining', Remaining) ELSE Remaining' = Remaining]_vars
<1>1. IInv => Remaining \in Nat \X Nat \X Nat \X Nat \X Nat
  <2> SUFFICES ASSUME IInv PROVE Remaining \in Nat \X Nat \X Nat \X Nat \X Nat
    OBVIOUS
  <2>1. Phase \in Nat /\ Spot \in Nat
    BY DEF Phase, Spot
  <2>2. remain \in Nat /\ Tries \in Nat /\ MaxPolls - polls \in Nat
    BY MediaAssumption, ChunksAssumption DEF IInv, TypeOK, Tries
  <2> QED  BY <2>1, <2>2 DEF Remaining
<1>2. IInv /\ [Next]_vars
      => [IF Host THEN Below(Remaining', Remaining) ELSE Remaining' = Remaining]_vars
  <2> SUFFICES ASSUME IInv, Next
               PROVE  IF Host THEN Below(Remaining', Remaining) ELSE Remaining' = Remaining
    OBVIOUS
  <2>1. CASE Host /\ ~(WriteMediaFile /\ UNCHANGED cmdvars)
    BY <2>1, CommandFalls, Falls DEF Remaining
  <2>2. CASE WriteMediaFile /\ UNCHANGED cmdvars
    BY <2>2, ChunkFalls, Falls DEF Remaining, Host
  <2>3. CASE ~Host
    <3>1. UNCHANGED <<filevars, pc, polls, cmdvars>>
      BY <2>3 DEF Next
    <3> QED  BY <2>3, <3>1 DEF filevars, cmdvars, Remaining, Phase, Tries, Spot
  <2> QED  BY <2>1, <2>2, <2>3
<1> QED  BY <1>1, <1>2, InductiveInvariant, PTL DEF Spec

=============================================================================
