--------------------------------- MODULE Reverse ---------------------------------
(***************************************************************************)
(* lab03/zad1: a file is copied backwards, block by block from its end,    *)
(* and every block is reversed in place.  fread() may return less than it  *)
(* was asked for.                                                          *)
(***************************************************************************)
EXTENDS Integers, Sequences

CONSTANTS
    Byte,
    Files,              \* contents the input file may have
    BUFFER_SIZE

(* What the theorems assume *)
ReverseAssumption == Files \subseteq Seq(Byte) /\ BUFFER_SIZE \in Nat \ {0}

VARIABLES
    pc,                 \* of main(): open, block, swap, done
    input_file,
    position,           \* of input_file
    bytes_left,
    bytes_to_read,
    buffer,             \* the bytes read, buffer[0] of the code is buffer[1]
    start, end,         \* the two indices of reverseArray()
    output_file,
    short               \* history: a fread() has returned less than asked for

reverseVars == <<pc, input_file, position, bytes_left, bytes_to_read, buffer, start,
                 end, output_file, short>>

ReverseInit ==
    /\ pc = "open"
    /\ input_file = <<>> /\ output_file = <<>> /\ buffer = <<>>
    /\ position = 0 /\ bytes_left = 0 /\ bytes_to_read = 0
    /\ start = 0 /\ end = 0 /\ short = FALSE

min(a, b) == IF a < b THEN a ELSE b
(* fseek(-n, SEEK_CUR), which fails before the beginning of the file *)
Back(n) == IF n <= position THEN position - n ELSE position

(* main() and the first lines of reverse() *)
Open ==
    /\ pc = "open"
    /\ \/ /\ input_file' \in Files
          /\ position' = Len(input_file') /\ bytes_left' = Len(input_file')
          /\ pc' = "block"
       \/ /\ pc' = "failed"
          /\ UNCHANGED <<input_file, position, bytes_left>>
    /\ UNCHANGED <<bytes_to_read, buffer, start, end, output_file, short>>

(* The loop down to the call of reverseArray() *)
ReadBlock ==
    /\ pc = "block" /\ bytes_left > 0
    /\ bytes_to_read' = min(BUFFER_SIZE, bytes_left)
    /\ \E read_bytes \in 0 .. min(bytes_to_read', Len(input_file) - Back(bytes_to_read')) :
        /\ buffer' = SubSeq(input_file, Back(bytes_to_read') + 1, Back(bytes_to_read') + read_bytes)
        /\ position' = Back(bytes_to_read') + read_bytes
        /\ short' = (short \/ read_bytes < bytes_to_read')
        /\ start' = 0 /\ end' = read_bytes - 1
    /\ pc' = "swap"
    /\ UNCHANGED <<input_file, bytes_left, output_file>>

(* An iteration of reverseArray() *)
Swap ==
    /\ pc = "swap" /\ start < end
    /\ buffer' = [buffer EXCEPT ![start + 1] = buffer[end + 1], ![end + 1] = buffer[start + 1]]
    /\ start' = start + 1 /\ end' = end - 1
    /\ UNCHANGED <<pc, input_file, position, bytes_left, bytes_to_read, output_file, short>>

(* The rest of the loop *)
WriteBlock_NoSeek ==
    /\ pc = "swap" /\ start >= end
    /\ output_file' = output_file \o buffer
    /\ bytes_left' = bytes_left - Len(buffer)
    /\ pc' = "block"
    /\ UNCHANGED <<input_file, position, bytes_to_read, buffer, start, end, short>>
WriteBlock ==
    /\ pc = "swap" /\ start >= end
    /\ output_file' = output_file \o buffer
    /\ position' = Back(bytes_to_read)
    /\ bytes_left' = bytes_left - Len(buffer)
    /\ pc' = "block"
    /\ UNCHANGED <<input_file, bytes_to_read, buffer, start, end, short>>

Finish ==
    /\ pc = "block" /\ bytes_left <= 0
    /\ pc' = "done"
    /\ UNCHANGED <<input_file, position, bytes_left, bytes_to_read, buffer, start, end,
                   output_file, short>>

ReverseNext == Open \/ ReadBlock \/ Swap \/ WriteBlock \/ Finish
ReverseSpec == ReverseInit /\ [][ReverseNext]_reverseVars
-----------------------------------------------------------------------------
(* s from its last element to its first *)
Backwards(s) == [k \in 1 .. Len(s) |-> s[Len(s) + 1 - k]]

(* Unless a fread() falls short, the output is the input backwards, whatever the
   size of the file is to that of the buffer (reverse.c:51-67). *)
Reversed == pc = "done" /\ ~short => output_file = Backwards(input_file)
=============================================================================
