------------------------------ MODULE SimhTape ------------------------------
(***************************************************************************)
(* The SIMH tape image that media43bsd.write_simh_tape writes, and how a   *)
(* SIMH tape drive (external) reads one.  A tape is a sequence of items: a *)
(* little-endian length word is one item, a byte of data is one.  A length *)
(* of zero is a tape mark, told from zero data only by where it stands.    *)
(***************************************************************************)
EXTENDS Naturals, Sequences, SequencesExt

TapeMark == 0
Padding == 0

\* Faults: operators named Faulty... are plausible bugs, used by no definition; a run
\* with one in place of the definition that follows it breaks a property.
FaultyBlocks(data, size) == Len(data) \div size  \* an incomplete last block is dropped
Blocks(data, size) == (Len(data) + size - 1) \div size

\* The i-th block of a file, filled up with zero bytes.
Block(data, size, i) ==
  [j \in 1..size |-> IF (i - 1) * size + j <= Len(data) THEN data[(i - 1) * size + j] ELSE Padding]

\* Each block stands between two copies of its length; a tape mark ends the file.
TapeFile(data, size) ==
  FlattenSeq([i \in 1..Blocks(data, size) |-> <<size>> \o Block(data, size, i) \o <<size>>])
    \o <<TapeMark>>

\* files is a sequence of data and block size; a second mark ends the tape.
WriteTape(files) ==
  FlattenSeq([k \in 1..Len(files) |-> TapeFile(files[k].data, files[k].size)]) \o <<TapeMark>>

------------------------------------------------------------------------------
(* Reading, as the guest's `mt fsf` and read do. *)

\* A mark ends a file, and so does a record that runs past the end of the tape.
EndsFile(tape, p) == tape[p] = TapeMark \/ p + tape[p] + 2 > Len(tape)

\* What the drive finds from position p on: the rest of the file that p lies in, and the
\* files that follow.  One that begins with a mark is none: the tape ends at the second
\* of two marks, whatever comes after.
Reading(tape) ==
  LET read[p \in 1..Len(tape)] ==
        IF EndsFile(tape, p)
          THEN <<<<>>>> \o (IF p < Len(tape) /\ ~EndsFile(tape, p + 1) THEN read[p + 1] ELSE <<>>)
          ELSE LET rest == read[p + tape[p] + 2]
               IN <<SubSeq(tape, p + 1, p + tape[p]) \o Head(rest)>> \o Tail(rest)
  IN read

ReadTape(tape) == IF EndsFile(tape, 1) THEN <<>> ELSE Reading(tape)[1]

\* The data filled up to whole blocks.
Padded(data, size) ==
  LET short == Len(data) % size
  IN IF short = 0 THEN data ELSE data \o [i \in 1..(size - short) |-> Padding]
==============================================================================
