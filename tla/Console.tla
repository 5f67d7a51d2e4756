-------------------------------- MODULE Console --------------------------------
(***************************************************************************)
(* The bounded serial-console history of a VM actor (ch_driver/actor.rs):  *)
(* chunks of bytes are pushed at the back of a ring and dropped or cut at  *)
(* its front.  A chunk is the sequence of its bytes.  One task reads the   *)
(* socket and pushes; a push holds the lock of the buffer throughout.      *)
(***************************************************************************)
EXTENDS Integers, Sequences, SequencesExt

CONSTANTS
    CONSOLE_SPOOL_SIZE,     \* bytes kept, scaled down
    Byte,                   \* what the guest may write
    Chunk,                  \* what one read of the socket may return
    MaxOutput               \* bound: bytes the guest writes

VARIABLES
    buffer,     \* the ring of chunks and the number of bytes in it
    output      \* ghost: every byte read so far

consoleVars == <<buffer, output>>

ASSUME SpoolAssumption == CONSOLE_SPOOL_SIZE \in Nat \ {0} /\ MaxOutput \in Nat

ASSUME ChunkAssumption == Chunk \subseteq Seq(Byte)

Bytes(ring) == FlattenSeq(ring)

\* Mutant: the oldest chunk is dropped whole.
cutOldestWhole(oldest, excess) == <<>>

\* The bytes of the oldest chunk that are kept.
cutOldest(oldest, excess) == SubSeq(oldest, excess + 1, Len(oldest))

\* One round of the loop, while buffer.len > CONSOLE_SPOOL_SIZE: pop the oldest
\* chunk, and put back what is left of it if it is longer than the excess.
TrimOnce(b) ==
    LET excess == b.len - CONSOLE_SPOOL_SIZE
        oldest == Head(b.ring)
    IN  IF b.len <= CONSOLE_SPOOL_SIZE THEN b
        ELSE IF b.ring = <<>> THEN [b EXCEPT !.len = 0]
        ELSE IF Len(oldest) > excess
        THEN [ring |-> <<cutOldest(oldest, excess)>> \o Tail(b.ring),
              len |-> b.len - excess]
        ELSE [ring |-> Tail(b.ring), len |-> b.len - Len(oldest)]

\* The loop: every round pops a chunk or is the last, and one round more empties
\* the count.
Trim(b) ==
    LET after[n \in 0 .. Len(b.ring) + 1] ==
            IF n = 0 THEN b ELSE TrimOnce(after[n - 1])
    IN  after[Len(b.ring) + 1]

push(b, chunk) ==
    LET kept == IF Len(chunk) > CONSOLE_SPOOL_SIZE
                THEN SubSeq(chunk, Len(chunk) - CONSOLE_SPOOL_SIZE + 1, Len(chunk))
                ELSE chunk
    IN  Trim([ring |-> Append(b.ring, kept), len |-> b.len + Len(kept)])

history(b) == Bytes(b.ring)

ConsoleInit ==
    /\ buffer = [ring |-> <<>>, len |-> 0]
    /\ output = <<>>

\* The reading task: a read that returns no byte, or an error, ends it.
ReadChunk(chunk) ==
    /\ chunk # <<>>
    /\ Len(output) + Len(chunk) <= MaxOutput
    /\ buffer' = push(buffer, chunk)
    /\ output' = output \o chunk

ConsoleNext == \E chunk \in Chunk : ReadChunk(chunk)

ConsoleSpec == ConsoleInit /\ [][ConsoleNext]_consoleVars

-----------------------------------------------------------------------------
LastBytes(s, n) == IF Len(s) <= n THEN s ELSE SubSeq(s, Len(s) - n + 1, Len(s))

\* Whatever chunks the console was read in, the history is the last
\* CONSOLE_SPOOL_SIZE bytes of its output, oldest first, and the length kept
\* beside the ring is the number of bytes in it.
HistoryIsTheTail ==
    /\ history(buffer) = LastBytes(output, CONSOLE_SPOOL_SIZE)
    /\ buffer.len = Len(history(buffer))
=============================================================================
