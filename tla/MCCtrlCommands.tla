--------------------------- MODULE MCCtrlCommands ---------------------------
(* CtrlCommands with few retries, short commands, pages, ids and packets, every
   version the code tells apart and an int of few values. *)
EXTENDS CtrlCommands

\* 0 and 0x1ff are not supported, 0x203 has its chip id in a page.
MCVersions == {0, 511, 512, 515, 517, 518, 768}
MCNumbers == -1 .. 5 \cup {IntMax - 1, IntMax}

\* One memory and one buffer to write, all of whose bytes differ.  Two bytes of memory
\* lie behind every range, so that a transfer past its end shows.
MCRanges == {r \in [addr : Addr, size : Addr] : r.addr + r.size <= MemSize - 2}
MCMemories == {[a \in Addr |-> a]}
MCInputs == {[k \in Index |-> 10 + k]}
=============================================================================
