-------------------------- MODULE LargeMem_proofs --------------------------
(***************************************************************************)
(* Proofs about LargeMem for every memory, buffer and limit.               *)
(***************************************************************************)
EXTENDS LargeMem, Progress, TLAPS

\* What holds of the loop variables and the device at each point of a call.
\* The outer loop resets remain but not offset, so the proof has to know that
\* a command is only ever sent while offset is 0.
LoopInv ==
    /\ pc = "idle" => offset = 0
    /\ pc = "command" => /\ offset = 0 /\ sizeTo = -1
                         /\ remain = rom.len /\ rom.len > 0
                         /\ i < CmdTries /\ retry = 0
    /\ pc = "bulk" => /\ offset + remain = rom.len /\ remain > 0
                      /\ dev.ptr = rom.address + offset
                      /\ dev.left = remain
                      /\ dev.dir = rom.dir
                      /\ retry <= ZeroMax
    /\ offset <= rom.len
    /\ pc = "done" /\ ret = 0 => offset = rom.len

\* The numbers of the device's transfer and of the driver.
SeqInv ==
    /\ dev.seq <= seqNum[dev.dir]
    /\ dev.used /\ dev.dir = "write" => dev.seq < seqNum["write"]
    /\ dev.used /\ dev.dir = "read" /\ pc = "command" /\ rom.dir = "read"
          => dev.seq < seqNum["read"]

\* The inductive invariant.
IInv == TypeOK /\ LoopInv /\ SeqInv /\ CountedBytesInPlace

\* While bytes remain the next bulk transfer asks for some of them and for no
\* more, and a command declares them all (the aml_min calls of the two loops).
LEMMA TransferSizeBounds ==
    ASSUME TypeOK, remain > 0
    PROVE  /\ TransferSize \in 1 .. remain
           /\ rom.dir = "write" /\ remain <= TotalMax => TotalSize = remain
BY SizeAssumption DEF TypeOK, TransferSize, TotalSize, aml_min

\* Before the first call the invariant holds.
LEMMA InitInv == Init => IInv
BY SizeAssumption DEF Init, IInv, TypeOK, LoopInv, SeqInv, CountedBytesInPlace, SameUpTo,
   NoTransfer, Roms, Dirs

\* d bytes moved where host and device stand extend the common prefix by d.
LEMMA MoveExtends ==
    ASSUME IInv, pc = "bulk", NEW d \in 0 .. TransferSize, Move(d)
    PROVE  /\ mem' \in [Addr -> Byte]
           /\ buffer' \in [Index -> Byte]
           /\ d \in 0 .. remain
           /\ dev' = [dir |-> rom.dir, ptr |-> rom.address + offset + d,
                      left |-> remain - d, seq |-> dev.seq, used |-> TRUE]
           /\ \A k \in 0 .. offset + d - 1 : buffer'[k] = mem'[rom.address + k]
<1>1. /\ offset \in Nat /\ remain \in Nat /\ offset + remain = rom.len
      /\ rom.address \in Nat /\ rom.len \in 0 .. CallMax
      /\ rom.address + rom.len <= MemSize
      /\ dev.ptr = rom.address + offset /\ dev.left = remain /\ dev.dir = rom.dir
      /\ rom.dir \in Dirs
  BY SizeAssumption DEF IInv, TypeOK, LoopInv, Roms
<1>2. d \in 0 .. remain
  <2>1. TransferSize \in 1 .. remain
    BY TransferSizeBounds DEF IInv, LoopInv
  <2> QED  BY <2>1, <1>1
<1>3. dev' = [dir |-> rom.dir, ptr |-> rom.address + offset + d,
              left |-> remain - d, seq |-> dev.seq, used |-> TRUE]
  BY <1>1 DEF Move
<1>4. CASE rom.dir = "write"
  <2>1. /\ buffer' = buffer
        /\ mem' = [a \in Addr |-> IF a \in dev.ptr .. dev.ptr + d - 1
                                  THEN buffer[offset + (a - dev.ptr)] ELSE mem[a]]
    BY <1>4 DEF Move
  <2>2. mem' \in [Addr -> Byte]
    <3> SUFFICES ASSUME NEW a \in Addr, a \in dev.ptr .. dev.ptr + d - 1
                 PROVE  buffer[offset + (a - dev.ptr)] \in Byte
      BY <2>1 DEF IInv, TypeOK
    <3>1. offset + (a - dev.ptr) \in Index
      BY <1>1, <1>2, SizeAssumption DEF Addr, Index
    <3> QED  BY <3>1 DEF IInv, TypeOK
  <2>3. ASSUME NEW k \in 0 .. offset + d - 1
        PROVE  buffer'[k] = mem'[rom.address + k]
    <3>1. rom.address + k \in Addr
      BY <1>1, <1>2, SizeAssumption DEF Addr
    <3>2. CASE k < offset
      BY <1>1, <2>1, <3>1, <3>2 DEF IInv, CountedBytesInPlace, SameUpTo
    <3>3. CASE k >= offset
      BY <1>1, <1>2, <2>1, <3>1, <3>3
    <3> QED  BY <3>2, <3>3, <1>1, <1>2
  <2> QED  BY <1>2, <1>3, <2>1, <2>2, <2>3 DEF IInv, TypeOK
<1>5. CASE rom.dir = "read"
  <2>1. /\ mem' = mem
        /\ buffer' = [k \in Index |-> IF k \in offset .. offset + d - 1
                                      THEN mem[dev.ptr + (k - offset)] ELSE buffer[k]]
    BY <1>5 DEF Move
  <2>2. buffer' \in [Index -> Byte]
    <3> SUFFICES ASSUME NEW k \in Index, k \in offset .. offset + d - 1
                 PROVE  mem[dev.ptr + (k - offset)] \in Byte
      BY <2>1 DEF IInv, TypeOK
    <3>1. dev.ptr + (k - offset) \in Addr
      BY <1>1, <1>2, SizeAssumption DEF Addr, Index
    <3> QED  BY <3>1 DEF IInv, TypeOK
  <2>3. ASSUME NEW k \in 0 .. offset + d - 1
        PROVE  buffer'[k] = mem'[rom.address + k]
    <3>1. k \in Index
      BY <1>1, <1>2, SizeAssumption DEF Index
    <3>2. CASE k < offset
      BY <1>1, <2>1, <3>1, <3>2 DEF IInv, CountedBytesInPlace, SameUpTo
    <3>3. CASE k >= offset
      BY <1>1, <1>2, <2>1, <3>1, <3>3
    <3> QED  BY <3>2, <3>3, <1>1, <1>2
  <2> QED  BY <1>2, <1>3, <2>1, <2>2, <2>3 DEF IInv, TypeOK
<1> QED  BY <1>1, <1>4, <1>5 DEF Dirs

\* Counting a bulk transfer keeps the sequence numbers in order.
LEMMA CountKeepsSeqInv ==
    ASSUME IInv, pc = "bulk", NEW d \in 0 .. TransferSize, Move(d), CountBulk,
           pc' # "command"
    PROVE  seqNum' \in [Dirs -> Nat] /\ SeqInv'
<1>1. dev.dir = rom.dir /\ rom.dir \in Dirs /\ seqNum \in [Dirs -> Nat] /\ dev.seq \in Int
  BY DEF IInv, TypeOK, LoopInv, Roms
<1>2. dev'.dir = rom.dir /\ dev'.seq = dev.seq
  BY <1>1 DEF Move
<1> QED  BY <1>1, <1>2 DEF CountBulk, SeqInv, IInv, Dirs

\* Every step of a call and every new call preserves the invariant.
LEMMA NextInv == IInv /\ [Next]_vars => IInv'
<1> SUFFICES ASSUME IInv, [Next]_vars PROVE IInv'
  OBVIOUS
<1>1. ASSUME NEW r \in Roms, NEW b \in [Index -> Byte], AmlUsbWriteLargeMem(r, b)
      PROVE  IInv'
  BY <1>1, SizeAssumption
     DEF AmlUsbWriteLargeMem, Enter, IInv, TypeOK, LoopInv, SeqInv, CountedBytesInPlace,
         SameUpTo, Roms, Dirs
<1>2. ASSUME NEW r \in Roms, AmlUsbReadLargeMem(r)
      PROVE  IInv'
  BY <1>2, SizeAssumption
     DEF AmlUsbReadLargeMem, Enter, IInv, TypeOK, LoopInv, SeqInv, CountedBytesInPlace,
         SameUpTo, Roms, Dirs
<1>3. ASSUME pc = "command", Accept
      PROVE  /\ dev' = [dir |-> rom.dir, ptr |-> rom.address, left |-> rom.len,
                        seq |-> seqNum[rom.dir], used |-> FALSE]
             /\ TransferSize \in 1 .. rom.len
             /\ TotalSize = rom.len
  <2>1. remain = rom.len /\ remain > 0 /\ rom.len <= TotalMax /\ rom.dir \in Dirs
    BY <1>3, SizeAssumption, CallAssumption DEF IInv, TypeOK, LoopInv, Roms
  <2>2. TransferSize \in 1 .. rom.len
    BY <2>1, TransferSizeBounds DEF IInv
  <2>3. TotalSize = rom.len
    BY <2>1, TransferSizeBounds DEF IInv, TotalSize, Dirs
  <2> QED  BY <1>3, <2>2, <2>3 DEF Accept
<1>4. CASE CommandOk
  <2>1. /\ dev' = [dir |-> rom.dir, ptr |-> rom.address, left |-> rom.len,
                   seq |-> seqNum[rom.dir], used |-> FALSE]
        /\ sizeTo' \in 1 .. rom.len
    BY <1>3, <1>4, SizeAssumption DEF CommandOk, IInv, TypeOK, Roms
  <2> QED
    BY <1>4, <2>1, SizeAssumption
       DEF CommandOk, IInv, TypeOK, LoopInv, SeqInv, CountedBytesInPlace, SameUpTo, Roms, Dirs
<1>5. CASE CommandFail
  <2>1. \/ dev' = [dir |-> rom.dir, ptr |-> rom.address, left |-> rom.len,
                   seq |-> seqNum[rom.dir], used |-> FALSE]
        \/ dev' = dev
    BY <1>3, <1>5 DEF CommandFail
  <2>2. dev' \in [dir : Dirs, ptr : Nat, left : Int, seq : Int, used : BOOLEAN]
    <3>1. /\ rom.dir \in Dirs /\ rom.address \in Nat /\ rom.len \in Nat
          /\ seqNum[rom.dir] \in Nat
      BY SizeAssumption DEF IInv, TypeOK, Roms
    <3>2. dev \in [dir : Dirs, ptr : Nat, left : Int, seq : Int, used : BOOLEAN]
      BY DEF IInv, TypeOK
    <3>3. CASE dev' = dev
      BY <3>2, <3>3
    <3>4. CASE dev' = [dir |-> rom.dir, ptr |-> rom.address, left |-> rom.len,
                       seq |-> seqNum[rom.dir], used |-> FALSE]
      BY <3>1, <3>4
    <3> QED  BY <2>1, <3>3, <3>4
  <2>3. TypeOK'
    BY <1>5, <2>2, SizeAssumption DEF CommandFail, IInv, TypeOK, LoopInv, Roms
  <2>4. LoopInv'
    BY <1>5, SizeAssumption DEF CommandFail, IInv, TypeOK, LoopInv, Roms
  <2>5. SeqInv'
    BY <1>5, <2>1 DEF CommandFail, IInv, TypeOK, SeqInv, Roms, Dirs
  <2>6. CountedBytesInPlace'
    BY <1>5 DEF CommandFail, IInv, CountedBytesInPlace, SameUpTo
  <2> QED  BY <2>3, <2>4, <2>5, <2>6 DEF IInv
<1>6. ASSUME NEW d \in 0 .. TransferSize, BulkError(d)
      PROVE  IInv'
  <2>1. pc = "bulk" /\ Move(d) /\ CountBulk /\ pc' = "end"
    BY <1>6 DEF BulkError
  <2>2. seqNum' \in [Dirs -> Nat] /\ SeqInv'
    BY <2>1, CountKeepsSeqInv
  <2>4. /\ mem' \in [Addr -> Byte] /\ buffer' \in [Index -> Byte]
        /\ d \in 0 .. remain
        /\ dev' = [dir |-> rom.dir, ptr |-> rom.address + offset + d,
                   left |-> remain - d, seq |-> dev.seq, used |-> TRUE]
        /\ \A k \in 0 .. offset + d - 1 : buffer'[k] = mem'[rom.address + k]
    BY <2>1, MoveExtends
  <2>5. TypeOK'
    BY <1>6, <2>4, <2>2, SizeAssumption DEF BulkError, IInv, TypeOK, LoopInv, Roms
  <2>6. LoopInv'
    BY <1>6, <2>4, SizeAssumption DEF BulkError, IInv, TypeOK, LoopInv, Roms
  <2>7. CountedBytesInPlace'
    BY <1>6, <2>4, SizeAssumption DEF BulkError, IInv, TypeOK, CountedBytesInPlace, SameUpTo
  <2> QED  BY <2>2, <2>5, <2>6, <2>7 DEF IInv
<1>7. CASE BulkEmpty
  <2>1. pc = "bulk" /\ Move(0) /\ CountBulk /\ pc' \in {"bulk", "end"}
    BY <1>7 DEF BulkEmpty
  <2>2. 0 \in 0 .. TransferSize
    BY <2>1, TransferSizeBounds DEF IInv, TypeOK, LoopInv
  <2>3. seqNum' \in [Dirs -> Nat] /\ SeqInv'
    BY <2>1, <2>2, CountKeepsSeqInv
  <2>4. /\ mem' \in [Addr -> Byte] /\ buffer' \in [Index -> Byte]
        /\ 0 \in 0 .. remain
        /\ dev' = [dir |-> rom.dir, ptr |-> rom.address + offset + 0,
                   left |-> remain - 0, seq |-> dev.seq, used |-> TRUE]
        /\ \A k \in 0 .. offset + 0 - 1 : buffer'[k] = mem'[rom.address + k]
    BY <2>1, <2>2, MoveExtends
  <2>5. TypeOK'
    BY <1>7, <2>4, <2>3, SizeAssumption DEF BulkEmpty, IInv, TypeOK, LoopInv, Roms
  <2>6. LoopInv'
    BY <1>7, <2>4, SizeAssumption DEF BulkEmpty, IInv, TypeOK, LoopInv, Roms
  <2>7. CountedBytesInPlace'
    BY <1>7, <2>4, SizeAssumption DEF BulkEmpty, IInv, TypeOK, CountedBytesInPlace, SameUpTo
  <2> QED  BY <2>3, <2>5, <2>6, <2>7 DEF IInv
<1>8. ASSUME NEW d \in 1 .. TransferSize, BulkMove(d)
      PROVE  IInv'
  <2>1. pc = "bulk" /\ Move(d) /\ CountBulk /\ pc' \in {"bulk", "end"}
    BY <1>8 DEF BulkMove
  <2>2. d \in 0 .. TransferSize
    BY <2>1, TransferSizeBounds DEF IInv, TypeOK, LoopInv
  <2>3. seqNum' \in [Dirs -> Nat] /\ SeqInv'
    BY <2>1, <2>2, CountKeepsSeqInv
  <2>4. /\ mem' \in [Addr -> Byte] /\ buffer' \in [Index -> Byte]
        /\ d \in 0 .. remain
        /\ dev' = [dir |-> rom.dir, ptr |-> rom.address + offset + d,
                   left |-> remain - d, seq |-> dev.seq, used |-> TRUE]
        /\ \A k \in 0 .. offset + d - 1 : buffer'[k] = mem'[rom.address + k]
    BY <2>1, <2>2, MoveExtends
  <2>5. TypeOK'
    BY <1>8, <2>4, <2>3, SizeAssumption DEF BulkMove, IInv, TypeOK, LoopInv, Roms
  <2>6. LoopInv'
    BY <1>8, <2>4, SizeAssumption DEF BulkMove, IInv, TypeOK, LoopInv, Roms
  <2>7. CountedBytesInPlace'
    BY <1>8, <2>4, SizeAssumption DEF BulkMove, IInv, TypeOK, CountedBytesInPlace, SameUpTo
  <2> QED  BY <2>3, <2>5, <2>6, <2>7 DEF IInv
<1>9. CASE Finish
  BY <1>9, SizeAssumption
     DEF Finish, IInv, TypeOK, LoopInv, SeqInv, CountedBytesInPlace, SameUpTo
<1>10. CASE UNCHANGED vars
  BY <1>10 DEF vars, IInv, TypeOK, LoopInv, SeqInv, CountedBytesInPlace, SameUpTo
<1> QED
  BY <1>1, <1>2, <1>4, <1>5, <1>6, <1>7, <1>8, <1>9, <1>10 DEF Next, Driver

\* The invariant holds in every reachable state.
THEOREM InductiveInvariant == Spec => []IInv
BY InitInv, NextInv, PTL DEF Spec

\* Loop variables, counters and return codes keep their ranges, whatever the
\* transfers do: offset never leaves the buffer.
THEOREM TypeCorrect == Spec => []TypeOK
<1>1. IInv => TypeOK
  BY DEF IInv
<1> QED  BY <1>1, InductiveInvariant, PTL

\* The bytes a call reports are in place, and a call that returns 0 reports them all
\* (AmlUsbWriteLargeMem, AmlUsbReadLargeMem).
THEOREM CountedInPlace == Spec => []CountedBytesInPlace
<1>1. IInv => CountedBytesInPlace
  BY DEF IInv
<1> QED  BY <1>1, InductiveInvariant, PTL

\* Bulk transfers stay within the length the command declared, and host and
\* device stand at the same byte.
THEOREM StaysWithinDeclared == Spec => []WithinDeclared
<1>1. IInv => WithinDeclared
  <2> SUFFICES ASSUME IInv, pc = "bulk"
               PROVE  TransferSize <= dev.left /\ dev.ptr = rom.address + offset /\ dev.dir = rom.dir
    BY DEF WithinDeclared
  <2>1. TransferSize \in 1 .. remain
    BY TransferSizeBounds DEF IInv, LoopInv
  <2> QED  BY <2>1 DEF IInv, TypeOK, LoopInv
<1> QED  BY <1>1, InductiveInvariant, PTL

\* A step of a call changes only the requested range, on the side it writes to.
LEMMA StepTouches ==
    ASSUME IInv, [Next]_vars, pc \notin {"idle", "done"}
    PROVE  /\ \A a \in Addr : mem'[a] # mem[a] =>
                 rom.dir = "write" /\ a \in rom.address .. rom.address + rom.len - 1
           /\ \A k \in Index : buffer'[k] # buffer[k] => rom.dir = "read" /\ k < rom.len
<1>1. CASE mem' = mem /\ buffer' = buffer
  BY <1>1
<1>2. ASSUME pc = "bulk", NEW d \in 0 .. TransferSize, Move(d)
      PROVE  /\ \A a \in Addr : mem'[a] # mem[a] =>
                   rom.dir = "write" /\ a \in rom.address .. rom.address + rom.len - 1
             /\ \A k \in Index : buffer'[k] # buffer[k] => rom.dir = "read" /\ k < rom.len
  <2>1. /\ offset \in Nat /\ remain \in Nat /\ offset + remain = rom.len
        /\ rom.address \in Nat /\ rom.len \in Nat
        /\ dev.ptr = rom.address + offset
        /\ d \in 0 .. remain
        /\ mem \in [Addr -> Byte] /\ buffer \in [Index -> Byte]
    BY <1>2, MoveExtends, SizeAssumption DEF IInv, TypeOK, LoopInv, Roms
  <2>2. ASSUME NEW a \in Addr, mem'[a] # mem[a]
        PROVE  rom.dir = "write" /\ a \in rom.address .. rom.address + rom.len - 1
    <3>1. rom.dir = "write"
      BY <1>2, <2>2 DEF Move
    <3>2. mem'[a] = IF a \in dev.ptr .. dev.ptr + d - 1
                    THEN buffer[offset + (a - dev.ptr)] ELSE mem[a]
      BY <1>2, <3>1 DEF Move
    <3>3. a \in dev.ptr .. dev.ptr + d - 1
      BY <2>2, <3>2
    <3> QED  BY <2>1, <3>1, <3>3
  <2>3. ASSUME NEW k \in Index, buffer'[k] # buffer[k]
        PROVE  rom.dir = "read" /\ k < rom.len
    BY <1>2, <2>1, <2>3, SizeAssumption DEF Move, Index
  <2> QED  BY <2>2, <2>3
<1>3. CASE Driver
  <2>1. CASE CommandOk \/ CommandFail \/ Finish
    BY <1>1, <2>1 DEF CommandOk, CommandFail, Finish
  <2>2. ASSUME NEW d \in 0 .. TransferSize, BulkError(d)
        PROVE  pc = "bulk" /\ Move(d)
    BY <2>2 DEF BulkError
  <2>3. ASSUME BulkEmpty
        PROVE  pc = "bulk" /\ Move(0) /\ 0 \in 0 .. TransferSize
    BY <2>3, TransferSizeBounds DEF BulkEmpty, IInv, TypeOK, LoopInv
  <2>4. ASSUME NEW d \in 1 .. TransferSize, BulkMove(d)
        PROVE  pc = "bulk" /\ Move(d) /\ d \in 0 .. TransferSize
    BY <2>4, TransferSizeBounds DEF BulkMove, IInv, TypeOK, LoopInv
  <2> QED  BY <1>2, <1>3, <2>1, <2>2, <2>3, <2>4 DEF Driver
<1> QED
  BY <1>1, <1>3 DEF Next, vars, AmlUsbWriteLargeMem, AmlUsbReadLargeMem, Enter

\* No byte outside the request is touched, on either side (AmlUsbWriteLargeMem,
\* AmlUsbReadLargeMem).
THEOREM NothingElseTouched == Spec => OutsideUntouched
<1>1. IInv /\ [Next]_vars =>
        [pc \notin {"idle", "done"} =>
            /\ \A a \in Addr : mem'[a] # mem[a] =>
                  rom.dir = "write" /\ a \in rom.address .. rom.address + rom.len - 1
            /\ \A k \in Index : buffer'[k] # buffer[k] => rom.dir = "read" /\ k < rom.len]_vars
  BY StepTouches
<1> QED  BY <1>1, InductiveInvariant, PTL DEF Spec, OutsideUntouched

\* A command repeats the number of the transfer before it only when that
\* transfer came to nothing (WriteSeqNum and ReadSeqNum).
THEOREM NumbersAreFresh == Spec => FreshSequenceNumber
<1>1. IInv /\ [Next]_vars =>
        [(dev'.seq = dev.seq /\ dev'.dir = dev.dir /\ dev.used) => dev'.used]_vars
  <2> SUFFICES ASSUME IInv, [Next]_vars, dev'.seq = dev.seq, dev'.dir = dev.dir, dev.used
               PROVE  dev'.used
    OBVIOUS
  <2>1. CASE dev' = dev
    BY <2>1
  <2>2. ASSUME pc = "command", Accept
        PROVE  FALSE
    BY <2>2 DEF Accept, IInv, TypeOK, SeqInv, Roms, Dirs
  <2>3. ASSUME NEW d, Move(d)
        PROVE  dev'.used
    BY <2>3 DEF Move
  <2> QED
    BY <2>1, <2>2, <2>3
       DEF Next, Driver, vars, AmlUsbWriteLargeMem, AmlUsbReadLargeMem, Enter,
           CommandOk, CommandFail, BulkError, BulkEmpty, BulkMove, Finish
<1> QED  BY <1>1, InductiveInvariant, PTL DEF Spec, FreshSequenceNumber

\* Moving d bytes is the abstract copy of d bytes.
LEMMA MoveIsCopy ==
    ASSUME IInv, pc = "bulk", NEW d \in 0 .. TransferSize, Move(d)
    PROVE  /\ mem' = Abstract!MemAfter(offset, d)
           /\ buffer' = Abstract!BufferAfter(offset, d)
<1>1. /\ offset \in Nat /\ rom.address \in Nat /\ dev.ptr = rom.address + offset
      /\ d \in Int /\ MemSize \in Nat
  BY MoveExtends, SizeAssumption DEF IInv, TypeOK, LoopInv, Roms
<1>2. \A a \in Addr : offset + (a - dev.ptr) = a - rom.address
  BY <1>1 DEF Addr
<1>3. \A k \in Index : dev.ptr + (k - offset) = rom.address + k
  BY <1>1, SizeAssumption DEF Index
<1>4. mem' = Abstract!MemAfter(offset, d)
  BY <1>1, <1>2 DEF Move, Abstract!MemAfter, Addr
<1>5. buffer' = Abstract!BufferAfter(offset, d)
  BY <1>1, <1>3 DEF Move, Abstract!BufferAfter, Index
<1> QED  BY <1>4, <1>5

\* AmlUsbWriteLargeMem and AmlUsbReadLargeMem keep the promise of Transfer:
\* each step of a call is an abstract step or invisible.
THEOREM Refinement == Spec => ImplementsTransfer
<1>1. Init => Abstract!Init
  BY DEF Init, Abstract!Init, Addr, Index
<1>2. IInv /\ [Next]_vars => [Abstract!Next]_Abstract!tvars
  <2> SUFFICES ASSUME IInv, Next PROVE Abstract!Next \/ UNCHANGED Abstract!tvars
    BY DEF vars, Abstract!tvars
  <2>1. ASSUME NEW r \in Roms, NEW b \in [Index -> Byte], AmlUsbWriteLargeMem(r, b)
        PROVE  Abstract!Start
    BY <2>1 DEF AmlUsbWriteLargeMem, Enter, Abstract!Start, Abstract!Jobs, Roms, Dirs, Index
  <2>2. ASSUME NEW r \in Roms, AmlUsbReadLargeMem(r)
        PROVE  Abstract!Start
    BY <2>2 DEF AmlUsbReadLargeMem, Enter, Abstract!Start, Abstract!Jobs, Roms, Dirs, Index,
                IInv, TypeOK
  <2>3. CASE CommandOk
    BY <2>3 DEF CommandOk, Abstract!tvars
  <2>4. CASE CommandFail
    <3>1. CASE pc' = "command"
      BY <2>4, <3>1 DEF CommandFail, Abstract!tvars
    <3>2. CASE pc' = "end"
      <4>1. offset = 0 /\ rom.len \in Nat /\ rom.len > 0 /\ pc = "command"
        BY <2>4, SizeAssumption DEF CommandFail, IInv, TypeOK, LoopInv, Roms
      <4>2. mem = Abstract!MemAfter(offset, 0)
        BY <4>1, SizeAssumption DEF Abstract!MemAfter, IInv, TypeOK, Roms, Addr
      <4>3. buffer = Abstract!BufferAfter(offset, 0)
        BY <4>1, SizeAssumption DEF Abstract!BufferAfter, IInv, TypeOK, Roms, Index
      <4>4. Abstract!Break(0)
        BY <2>4, <3>2, <4>1, <4>2, <4>3 DEF CommandFail, Abstract!Break
      <4>5. 0 \in 0 .. rom.len - offset
        BY <4>1
      <4> QED  BY <4>4, <4>5 DEF Abstract!Next
    <3> QED  BY <2>4, <3>1, <3>2 DEF CommandFail
  <2>5. ASSUME NEW d \in 0 .. TransferSize, Move(d), pc = "bulk", pc' = "end",
               UNCHANGED <<rom, offset, ret>>
        PROVE  Abstract!Next
    <3>1. offset < rom.len /\ offset \in Nat /\ rom.len \in Nat /\ d \in 0 .. rom.len - offset
      BY <2>5, MoveExtends, SizeAssumption DEF IInv, TypeOK, LoopInv, Roms
    <3>2. Abstract!Break(d)
      BY <2>5, <3>1, MoveIsCopy DEF Abstract!Break
    <3> QED  BY <3>1, <3>2 DEF Abstract!Next
  <2>6. ASSUME NEW d \in 0 .. TransferSize, BulkError(d)
        PROVE  Abstract!Next
    BY <2>5, <2>6 DEF BulkError
  <2>7. CASE BulkEmpty
    <3>1. 0 \in 0 .. TransferSize /\ pc = "bulk" /\ Move(0)
      BY <2>7, TransferSizeBounds DEF BulkEmpty, IInv, TypeOK, LoopInv
    <3>2. CASE pc' = "end"
      BY <2>5, <2>7, <3>1, <3>2 DEF BulkEmpty
    <3>3. CASE pc' = "bulk"
      <4>1. /\ offset \in Nat /\ rom.address \in Nat
            /\ dev.ptr = rom.address + offset
            /\ mem \in [Addr -> Byte] /\ buffer \in [Index -> Byte]
        BY <3>1, SizeAssumption DEF IInv, TypeOK, LoopInv, Roms
      <4>2. mem' = mem /\ buffer' = buffer
        BY <3>1, <4>1, SizeAssumption DEF Move, Addr, Index
      <4> QED  BY <2>7, <3>3, <4>2 DEF BulkEmpty, Abstract!tvars
    <3> QED  BY <2>7, <3>2, <3>3 DEF BulkEmpty
  <2>8. ASSUME NEW d \in 1 .. TransferSize, BulkMove(d)
        PROVE  Abstract!Next
    <3>1. d \in 0 .. TransferSize /\ pc = "bulk" /\ Move(d)
      BY <2>8, TransferSizeBounds DEF BulkMove, IInv, TypeOK, LoopInv
    <3>2. /\ offset \in Nat /\ rom.len \in Nat /\ remain \in Nat
          /\ offset + remain = rom.len /\ d \in 1 .. rom.len - offset
      BY <2>8, <3>1, MoveExtends, SizeAssumption DEF IInv, TypeOK, LoopInv, Roms
    <3>3. pc' = IF offset' = rom.len THEN "end" ELSE "bulk"
      BY <2>8, <3>2 DEF BulkMove
    <3>4. Abstract!Copy(d)
      BY <2>8, <3>1, <3>2, <3>3, MoveIsCopy DEF BulkMove, Abstract!Copy
    <3> QED  BY <3>2, <3>4 DEF Abstract!Next
  <2>9. CASE Finish
    BY <2>9 DEF Finish, Abstract!Return, Abstract!Next
  <2> QED
    BY <2>1, <2>2, <2>3, <2>4, <2>6, <2>7, <2>8, <2>9 DEF Next, Driver, Abstract!Next
<1> QED  BY <1>1, <1>2, InductiveInvariant, PTL DEF Spec, ImplementsTransfer, Abstract!Spec

-----------------------------------------------------------------------------
\* What a call has left to do: the places it has still to pass, the attempts at the
\* command, the bytes, and the empty transfers it tolerates before the next of them.
Phase == CASE pc = "command" -> 3 [] pc = "bulk" -> 2 [] pc = "end" -> 1 [] OTHER -> 0

Remaining == <<Phase, CmdTries - i, remain, ZeroMax + 1 - retry>>

LEMMA Falls ==
    ASSUME NEW p, NEW q, NEW r, NEW s, NEW p2, NEW q2, NEW r2, NEW s2,
           \/ p2 < p
           \/ p2 = p /\ q2 < q
           \/ p2 = p /\ q2 = q /\ r2 < r
           \/ p2 = p /\ q2 = q /\ r2 = r /\ s2 < s
    PROVE  Below(<<p2, q2, r2, s2>>, <<p, q, r, s>>)
<1> DEFINE m == <<p2, q2, r2, s2>>
           n == <<p, q, r, s>>
<1>1. CASE p2 < p
  <2>1. 1 \in 1 .. Len(n) /\ m[1] < n[1] /\ \A j \in 1 .. 1 - 1 : m[j] = n[j]
    BY <1>1
  <2> QED  BY <2>1 DEF Below
<1>2. CASE p2 = p /\ q2 < q
  <2>1. 2 \in 1 .. Len(n) /\ m[2] < n[2] /\ \A j \in 1 .. 2 - 1 : m[j] = n[j]
    BY <1>2
  <2> QED  BY <2>1 DEF Below
<1>3. CASE p2 = p /\ q2 = q /\ r2 < r
  <2>1. 3 \in 1 .. Len(n) /\ m[3] < n[3] /\ \A j \in 1 .. 3 - 1 : m[j] = n[j]
    BY <1>3
  <2> QED  BY <2>1 DEF Below
<1>4. CASE p2 = p /\ q2 = q /\ r2 = r /\ s2 < s
  <2>1. 4 \in 1 .. Len(n) /\ m[4] < n[4] /\ \A j \in 1 .. 4 - 1 : m[j] = n[j]
    BY <1>4
  <2> QED  BY <2>1 DEF Below
<1> QED  BY <1>1, <1>2, <1>3, <1>4

\* Each step of a call brings its end nearer.
LEMMA DriverFalls ==
    ASSUME IInv, Driver
    PROVE  \/ Phase' < Phase
           \/ Phase' = Phase /\ CmdTries - i' < CmdTries - i
           \/ Phase' = Phase /\ i' = i /\ remain' < remain
           \/ /\ Phase' = Phase /\ i' = i /\ remain' = remain
              /\ ZeroMax + 1 - retry' < ZeroMax + 1 - retry
<1>1. /\ Phase \in 0 .. 3 /\ Phase' \in 0 .. 3
      /\ CmdTries \in Nat /\ ZeroMax \in Nat /\ i \in Nat /\ remain \in Nat /\ retry \in Nat
  BY SizeAssumption DEF IInv, TypeOK, Phase
<1>2. CASE CommandOk \/ Finish
  BY <1>2 DEF CommandOk, Finish, Phase
<1>3. CASE CommandFail
  BY <1>1, <1>3 DEF CommandFail, Phase
<1>4. ASSUME NEW d \in 0 .. TransferSize, BulkError(d) PROVE Phase' < Phase
  BY <1>4 DEF BulkError, Phase
<1>5. CASE BulkEmpty
  BY <1>1, <1>5 DEF BulkEmpty, Phase
<1>6. ASSUME NEW d \in 1 .. TransferSize, BulkMove(d)
      PROVE  Phase' < Phase \/ (Phase' = Phase /\ i' = i /\ remain' < remain)
  <2>1. d \in Nat /\ d > 0
    BY <1>6, TransferSizeBounds DEF BulkMove, IInv, LoopInv
  <2> QED  BY <1>1, <1>6, <2>1 DEF BulkMove, Phase
<1> QED  BY <1>2, <1>3, <1>4, <1>5, <1>6 DEF Driver

\* A call comes to its end after finitely many transfers, whatever they do, for every
\* memory and all retry limits: each of its steps takes the four numbers down, in
\* lexicographic order, and none of them below 0 (the two loops of
\* AmlUsbWriteLargeMem and of AmlUsbReadLargeMem, UsbRomDrv.cpp).
THEOREM CallProgress ==
    Spec => /\ [](Remaining \in Nat \X Nat \X Nat \X Nat)
            /\ [][Driver => Below(Remaining', Remaining)]_vars
<1>1. IInv => Remaining \in Nat \X Nat \X Nat \X Nat
  BY SizeAssumption DEF IInv, TypeOK, Remaining, Phase
<1>2. IInv /\ [Next]_vars => [Driver => Below(Remaining', Remaining)]_vars
  <2>1. ASSUME IInv, Driver PROVE Below(Remaining', Remaining)
    BY <2>1, DriverFalls, Falls DEF Remaining
  <2> QED  BY <2>1
<1> QED  BY <1>1, <1>2, InductiveInvariant, PTL DEF Spec

=============================================================================
