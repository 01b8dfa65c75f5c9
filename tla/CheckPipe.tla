------------------------------- MODULE CheckPipe -------------------------------
(***************************************************************************)
(* kolokwium1/test_1, third exercise: the parent copies a file into a pipe *)
(* in blocks, the child counts the bytes that come out and compares them   *)
(* with the size of the file.  The pipe holds less than the file, so both  *)
(* have to wait for each other; the bytes are counted, not looked at, and  *)
(* the file does not change meanwhile.                                     *)
(***************************************************************************)
EXTENDS Integers

CONSTANTS
    CAPACITY,           \* bytes the pipe holds
    BlockSizes,         \* what rand() % 128 may be: positive, at most CAPACITY
    FileSizes           \* of unix.txt

Missing == -1           \* the size of a file that cannot be opened
SIGSEGV == 11           \* status of a child killed by this signal

Process == {"parent", "child"}

VARIABLES
    pc,                 \* of both processes
    block_size,
    size,               \* of unix.txt
    unread,             \* what the parent has not read of the file
    bytesRead,          \* the block it is about to write
    pipe,               \* bytes in the pipe
    readEnd, writeEnd,  \* who has pd[0] and pd[1] open
    bytes_total,        \* what the child has counted
    retval,             \* status of the child
    verdict,            \* what the parent has printed about the writing
    failed              \* history: pipe(), fork() or fopen() has failed

vars == <<pc, block_size, size, unread, bytesRead, pipe, readEnd, writeEnd,
          bytes_total, retval, verdict, failed>>
file == <<block_size, size, unread, bytesRead>>
ends == <<readEnd, writeEnd>>

Least(m, n) == IF m < n THEN m ELSE n

Init ==
    /\ pc = [p \in Process |-> IF p = "parent" THEN "createpipe" ELSE "none"]
    /\ block_size = 1 /\ size = 0 /\ unread = 0 /\ bytesRead = 0
    /\ pipe = 0 /\ readEnd = {} /\ writeEnd = {}
    /\ bytes_total = 0 /\ retval = 0
    /\ verdict = "none" /\ failed = FALSE

(* main() and createpipe().  check_pipe() sends a byte from the process to
   itself, which leaves the pipe as empty as it was. *)
createpipe ==
    /\ pc["parent"] = "createpipe"
    /\ \/ /\ block_size' \in BlockSizes
          /\ size' \in FileSizes \cup {Missing}
          /\ unread' = size'
          /\ readEnd' = {"parent"} /\ writeEnd' = {"parent"}
          /\ pc' = [pc EXCEPT !["parent"] = "fork"]
          /\ failed' = (size' = Missing)
       \/ /\ pc' = [pc EXCEPT !["parent"] = "done"]
          /\ failed' = TRUE
          /\ UNCHANGED <<block_size, size, unread, ends>>
    /\ UNCHANGED <<bytesRead, pipe, bytes_total, retval, verdict>>

(* check_write() up to the two branches.  A failed fork() is taken for the
   parent's. *)
Fork ==
    /\ pc["parent"] = "fork"
    /\ \/ /\ pc' = [pc EXCEPT !["parent"] = "close_read", !["child"] = "close_write"]
          /\ readEnd' = Process /\ writeEnd' = Process
          /\ UNCHANGED failed
       \/ /\ pc' = [pc EXCEPT !["parent"] = "close_read"]
          /\ failed' = TRUE
          /\ UNCHANGED ends
    /\ UNCHANGED <<file, pipe, bytes_total, retval, verdict>>

CloseRead ==
    /\ pc["parent"] = "close_read"
    /\ readEnd' = readEnd \ {"parent"}
    /\ pc' = [pc EXCEPT !["parent"] = "fread"]
    /\ UNCHANGED <<file, pipe, writeEnd, bytes_total, retval, verdict, failed>>

(* fread() of the next block in readwrite(); without a file there is none. *)
ReadBlock ==
    /\ pc["parent"] = "fread"
    /\ bytesRead' = IF size = Missing THEN 0 ELSE Least(block_size, unread)
    /\ unread' = unread - bytesRead'
    /\ pc' = [pc EXCEPT !["parent"] = IF bytesRead' > 0 THEN "write" ELSE "close_write"]
    /\ UNCHANGED <<block_size, size, pipe, ends, bytes_total, retval, verdict, failed>>

(* write() of a block waits until the pipe has room for all of it; when nobody
   can read any more SIGPIPE ends the parent. *)
WriteBlock ==
    /\ pc["parent"] = "write"
    /\ \/ /\ readEnd # {} /\ pipe + bytesRead <= CAPACITY
          /\ pipe' = pipe + bytesRead
          /\ pc' = [pc EXCEPT !["parent"] = "fread"]
          /\ UNCHANGED writeEnd
       \/ /\ readEnd = {}
          /\ pc' = [pc EXCEPT !["parent"] = "done"]
          /\ writeEnd' = writeEnd \ {"parent"}
          /\ UNCHANGED pipe
    /\ UNCHANGED <<file, readEnd, bytes_total, retval, verdict, failed>>

(* close(pd[1]): the child's first call, the parent's after the last block *)
CloseWrite_ReaderKeepsIt(p) ==
    /\ pc[p] = "close_write"
    /\ writeEnd' = IF p = "parent" THEN writeEnd \ {p} ELSE writeEnd
    /\ pc' = [pc EXCEPT ![p] = IF p = "parent" THEN "waitpid" ELSE "read"]
    /\ UNCHANGED <<file, pipe, readEnd, bytes_total, retval, verdict, failed>>
CloseWrite(p) ==
    /\ pc[p] = "close_write"
    /\ writeEnd' = writeEnd \ {p}
    /\ pc' = [pc EXCEPT ![p] = IF p = "parent" THEN "waitpid" ELSE "read"]
    /\ UNCHANGED <<file, pipe, readEnd, bytes_total, retval, verdict, failed>>

(* read() in read_pipe() takes what there is, up to a block; it returns 0 when
   the pipe is empty and nobody can write any more. *)
ReadPipe ==
    /\ pc["child"] = "read"
    /\ \/ /\ pipe > 0
          /\ LET bytes_read == Least(block_size, pipe)
             IN  pipe' = pipe - bytes_read /\ bytes_total' = bytes_total + bytes_read
          /\ UNCHANGED pc
       \/ /\ pipe = 0 /\ writeEnd = {}
          /\ pc' = [pc EXCEPT !["child"] = "exit"]
          /\ UNCHANGED <<pipe, bytes_total>>
    /\ UNCHANGED <<file, ends, retval, verdict, failed>>

(* The comparison with the size of the file, and exit(ok); fseek() on a file
   that could not be opened kills the child. *)
ExitChild ==
    /\ pc["child"] = "exit"
    /\ retval' = IF size = Missing THEN SIGSEGV
                 ELSE IF bytes_total = size THEN 1 * 256 ELSE 0
    /\ readEnd' = readEnd \ {"child"}
    /\ pc' = [pc EXCEPT !["child"] = "done"]
    /\ UNCHANGED <<file, pipe, writeEnd, bytes_total, verdict, failed>>

(* waitpid(), which fails when there is no child, and the line about it *)
Wait ==
    /\ pc["parent"] = "waitpid" /\ pc["child"] \in {"none", "done"}
    /\ verdict' = IF retval # 0 THEN "PASS" ELSE "FAIL"
    /\ pc' = [pc EXCEPT !["parent"] = "done"]
    /\ UNCHANGED <<file, pipe, ends, bytes_total, retval, failed>>

ParentStep ==
    createpipe \/ Fork \/ CloseRead \/ ReadBlock \/ WriteBlock \/ CloseWrite("parent") \/ Wait
ChildStep == CloseWrite("child") \/ ReadPipe \/ ExitChild
Next == ParentStep \/ ChildStep
-----------------------------------------------------------------------------
(* Unless a call fails the exercise ends and passes, however the blocks, the
   file and the pipe compare in size: writer and reader never wait for each
   other for good, the reader sees the end of the file after its last byte and
   not earlier, and has counted all of it (zad3.c:28-33, zad3.h:47-64). *)
WritingPasses == <>(pc["parent"] = "done" /\ (failed \/ verdict = "PASS"))

(* The safety half of it: a verdict on a writing in which no call failed is
   good; ... *)
EndsWithPass == pc["parent"] = "done" => failed \/ verdict = "PASS"

(* ... and, also if one failed, the parent never waits for room, or for the end
   of the child, while the child waits for bytes or for the end of the writing. *)
ParentWaits ==
    \/ pc["parent"] = "write" /\ readEnd # {} /\ pipe + bytesRead > CAPACITY
    \/ pc["parent"] = "waitpid" /\ pc["child"] \notin {"none", "done"}
ChildWaits == pc["child"] = "read" /\ pipe = 0 /\ writeEnd # {}
NeverBothWait == ~(ParentWaits /\ ChildWaits)
=============================================================================
