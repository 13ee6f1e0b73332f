-------------------------------- MODULE Output --------------------------------
(***************************************************************************)
(* The output queue of a descriptor (netcommon.cpp, process_output of      *)
(* bsd.cpp): blocks that fill and drain, and the limit beyond which the    *)
(* head block is thrown away.  Bytes are counted, not named.               *)
(*                                                                         *)
(* writeToSocket writes up to the next zero byte, not as many bytes as it  *)
(* is told: at a zero byte of the text it writes nothing for ever, and     *)
(* behind the end of a block it may find old bytes and send them too.      *)
(* Sizes are unsigned in the code: a negative number stands for the large  *)
(* one that size_t makes of it.                                            *)
(***************************************************************************)
EXTENDS Integers, Sequences, FiniteSets, SequencesExt, Totals

CONSTANTS
  BlockSize,      \* bytes that fit a block
  output_limit,
  MaxWrite,       \* bytes of one queue_write at most: a buffer in which every byte is IAC, doubled
  MaxOutput,      \* bound: bytes that are queued
  MaxStale        \* bound: old bytes that are sent

\* A block holds more than any write (config.h, OUTPUT_BLOCK_SIZE).
ASSUME WriteAssumption == BlockSize \in Nat /\ MaxWrite \in 1 .. BlockSize

ASSUME LimitAssumption == output_limit \in Nat \ {0} /\ MaxStale \in Nat

VARIABLES
  blocks,         \* output_head: [chars: not yet sent, used: room taken]
  output_size, output_tot, output_lost,
  zeros,          \* the numbers of the zero bytes that were queued
  fate,           \* open; gone, once shutdownsock closed it; spinning: process_output
                  \* does not return
  stale,          \* history: how many bytes from behind a block were sent
  sent, before    \* history: bytes written, and what LOGOUT took off output_tot

outputVars == <<blocks, output_size, output_tot, output_lost, zeros, fate, stale, sent, before>>

\* How many bytes were queued, and how many of them have left the queue.
Queued == before + output_tot
Passed == sent + output_lost

\* Mutant: a block that is thrown away is still counted.
Flushed_Counted(q) == [q EXCEPT !.blocks = Tail(@), !.lost = @ + q.blocks[1].chars]

\* The head block is thrown away, partly sent or not.
Flushed(q) ==
  LET n == q.blocks[1].chars
  IN [q EXCEPT !.blocks = Tail(@), !.size = @ - n, !.lost = @ + n]

\* Mutant: a block takes one byte more than it holds.
Room_More(b) == BlockSize - b.used + 1

Room(b) == BlockSize - b.used

Block(n) == [chars |-> n, used |-> n]

Filled(bs, n) ==
  [bs EXCEPT ![Len(bs)] = [chars |-> bs[Len(bs)].chars + n, used |-> bs[Len(bs)].used + n]]

\* add_to_output_queue: n bytes fill the last block, and what does not fit goes to a new
\* one, which is enough for it.
Added(bs, n) ==
  IF bs = <<>> THEN <<Block(n)>>
  ELSE IF n <= Room(Last(bs)) THEN Filled(bs, n)
  ELSE Append(Filled(bs, Room(Last(bs))), Block(n - Room(Last(bs))))

\* Mutant: the limit is looked at without the bytes to come.
Overflows_Late(size, n) == output_limit < size

Overflows(size, n) == size + n < 0 \/ output_limit < size + n

-----------------------------------------------------------------------------
OutputInit ==
  /\ blocks = <<>> /\ output_size = 0 /\ output_tot = 0 /\ output_lost = 0
  /\ zeros = {} /\ fate = "open" /\ stale = 0
  /\ sent = 0 /\ before = 0

Able == fate = "open"

\* n bytes, the last of which may be zero (a telnet option of that number).  The
\* process_output that comes first is the Write that may precede.
queue_write(n, zero) ==
  LET q == [blocks |-> blocks, size |-> output_size, lost |-> output_lost]
      t == IF Overflows(output_size, n) /\ blocks # <<>> THEN Flushed(q) ELSE q
  IN /\ Able /\ Queued + n <= MaxOutput
     /\ blocks' = Added(t.blocks, n)
     /\ output_size' = t.size + n
     /\ output_tot' = output_tot + n
     /\ output_lost' = t.lost
     /\ zeros' = IF zero THEN zeros \cup {Queued + n} ELSE zeros
     /\ UNCHANGED <<fate, stale, sent, before>>

Drained(bs, k) ==
  IF bs[1].chars = k THEN Tail(bs) ELSE [bs EXCEPT ![1].chars = @ - k]

\* How many of k bytes lie behind the c bytes that wait.
Beyond(c, k) == Cardinality({i \in 1 .. k : i > c})

\* Mutant: a block waits until it is full.
Takes_Full(c) ==
  {k \in 1 .. BlockSize + MaxStale :
     /\ blocks[1].used = BlockSize
     /\ stale + Beyond(c, k) <= MaxStale
     /\ \A i \in 1 .. k : i <= c => Passed + i \notin zeros}

\* How many bytes the socket may take of the head block, none of them zero: what
\* waits there, and the old bytes behind it.
Takes(c) ==
  {k \in 1 .. BlockSize + MaxStale :
     /\ stale + Beyond(c, k) <= MaxStale
     /\ \A i \in 1 .. k : i <= c => Passed + i \notin zeros}

\* Where there is nothing to take.
AtZero(c) == c < 0 \/ (c > 0 /\ Passed + 1 \in zeros)

\* One round of the loops of process_output: the count of what was sent is taken off
\* the sizes, as much as it is, and the block is done when nothing is left exactly.
\* A block whose count is below zero gets back to it by what is queued, or never.
Write ==
  LET c == blocks[1].chars
  IN /\ Able /\ blocks # <<>>
     /\ \/ /\ AtZero(c)
           /\ fate' = "spinning" /\ UNCHANGED <<blocks, output_size, sent, stale>>
        \/ \E k \in Takes(c) \cup (IF c = 0 THEN {0} ELSE {}) :
             /\ blocks' = Drained(blocks, k)
             /\ output_size' = output_size - k
             /\ sent' = sent + k
             /\ stale' = stale + Beyond(c, k)
             /\ UNCHANGED fate
     /\ UNCHANGED <<output_tot, output_lost, zeros, before>>

\* The socket fails.
WriteFails ==
  /\ Able /\ blocks # <<>>
  /\ fate' = "gone"
  /\ UNCHANGED <<blocks, output_size, output_tot, output_lost, zeros, stale, sent, before>>

\* LOGOUT starts the total anew.
LogoutOutput ==
  /\ Able /\ output_tot > 0
  /\ output_tot' = 0 /\ before' = before + output_tot
  /\ UNCHANGED <<blocks, output_size, output_lost, zeros, fate, stale, sent>>

OutputNext ==
  \/ \E n \in 1 .. MaxWrite, zero \in BOOLEAN : queue_write(n, zero)
  \/ Write \/ WriteFails \/ LogoutOutput

\* The socket can be written to again and again, and select says so.
OutputFairness == WF_outputVars(Write)

OutputSpec == OutputInit /\ [][OutputNext]_outputVars /\ OutputFairness
-----------------------------------------------------------------------------
\* The bytes that wait in each block.
Waiting(bs) == [i \in 1 .. Len(bs) |-> bs[i].chars]

\* Every byte that was queued was sent, waits or is counted as lost (bsd.cpp:2478,
\* netcommon.cpp:337); all blocks but the last are full, none is empty.
OutputAccounted ==
  /\ output_size = Total(Waiting(blocks))
  /\ Queued = Passed + output_size
  /\ \A i \in DOMAIN blocks :
       /\ blocks[i].chars \in 1 .. blocks[i].used /\ blocks[i].used <= BlockSize
       /\ i < Len(blocks) => blocks[i].used = BlockSize

\* Throwing away one block, however little is left in it, keeps the queue below the
\* limit and one write: memory is bounded when nobody reads.
OutputBounded == output_size < output_limit + MaxWrite

\* The queue of output is accounted for and bounded, until old bytes were sent from
\* behind a block: their number is taken off the sizes too, which wrap.
OutputExact == stale = 0 => OutputAccounted /\ OutputBounded

\* What was queued leaves the queue, unless the socket fails, a zero byte stops
\* process_output or old bytes were sent and counted.
OutputDrains ==
  \A n \in 1 .. MaxOutput :
    Queued >= n ~> (Passed >= n \/ fate # "open" \/ zeros # {} \/ stale > 0)
=============================================================================
