------------------------------ MODULE Transfer ------------------------------
(***************************************************************************)
(* What one call of AmlUsbWriteLargeMem or AmlUsbReadLargeMem promises its *)
(* caller: bytes are copied between the host buffer and a range of device  *)
(* memory in order and each to its place, the number reported never counts *)
(* a byte that was not copied, and the call returns 0 only when every byte *)
(* was counted.  Commands, packets, retries and sequence numbers are the   *)
(* business of LargeMem, which implements this specification.              *)
(***************************************************************************)
EXTENDS Integers

CONSTANTS Byte,      \* the values of a byte
          MemSize,   \* the device memory is 0 .. MemSize - 1
          CallMax    \* the longest buffer of one call

VARIABLES mem,       \* the device memory
          buffer,    \* rom->buffer
          job,       \* what the call asks for: direction, address, length
          moved,     \* bytes the call counts as copied
          phase,     \* "idle", "busy", "failing" or "done"
          ret        \* what the call returned

tvars == <<mem, buffer, job, moved, phase, ret>>

Jobs == {j \in [dir : {"write", "read"}, address : 0 .. MemSize, len : 0 .. CallMax] :
            j.address + j.len <= MemSize}

\* The device memory and the host buffer after n bytes were copied at offset o.
MemAfter(o, n) ==
    IF job.dir = "write"
    THEN [a \in 0 .. MemSize - 1 |->
            IF a \in job.address + o .. job.address + o + n - 1
            THEN buffer[a - job.address] ELSE mem[a]]
    ELSE mem

BufferAfter(o, n) ==
    IF job.dir = "read"
    THEN [k \in 0 .. CallMax - 1 |->
            IF k \in o .. o + n - 1 THEN mem[job.address + k] ELSE buffer[k]]
    ELSE buffer

Init ==
    /\ mem \in [0 .. MemSize - 1 -> Byte]
    /\ buffer \in [0 .. CallMax - 1 -> Byte]
    /\ job = [dir |-> "write", address |-> 0, len |-> 0]
    /\ moved = 0
    /\ phase = "idle"
    /\ ret = 0

Start ==
    /\ phase \in {"idle", "done"}
    /\ job' \in Jobs
    /\ buffer' \in [0 .. CallMax - 1 -> Byte]
    /\ moved' = 0
    /\ phase' = "busy"
    /\ UNCHANGED <<mem, ret>>

\* n more bytes arrive in order and are counted.
Copy(n) ==
    /\ phase = "busy"
    /\ mem' = MemAfter(moved, n)
    /\ buffer' = BufferAfter(moved, n)
    /\ moved' = moved + n
    /\ UNCHANGED <<job, phase, ret>>

\* n bytes arrive at their place, but the transfer reports an error.
Break(n) ==
    /\ phase = "busy"
    /\ moved < job.len
    /\ mem' = MemAfter(moved, n)
    /\ buffer' = BufferAfter(moved, n)
    /\ phase' = "failing"
    /\ UNCHANGED <<job, moved, ret>>

Return ==
    /\ phase \in {"busy", "failing"}
    /\ ret' = IF moved = job.len THEN 0 ELSE -6
    /\ phase' = "done"
    /\ UNCHANGED <<mem, buffer, job, moved>>

Next ==
    \/ Start
    \/ \E n \in 1 .. job.len - moved : Copy(n)
    \/ \E n \in 0 .. job.len - moved : Break(n)
    \/ Return

Spec == Init /\ [][Next]_tvars

=============================================================================
