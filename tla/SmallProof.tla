-------------------------------- MODULE SmallProof --------------------------------
(***************************************************************************)
(* Theorems about the small models that MCSmall puts together, for every   *)
(* value of their constants.  Those of Collatz, Integral, Fifo, CheckFork  *)
(* and CheckPipe are theorems about MCSpec, in whose steps the variables   *)
(* of a model only change as the model says; the others are about the      *)
(* specifications of Reverse and PingTiming, which MCSmall extends.        *)
(***************************************************************************)
EXTENDS MCSmall, SequenceTheorems, WellFoundedInduction, TLAPS

-----------------------------------------------------------------------------
(* Sequences of at most two elements. *)
LEMMA ShortSequences ==
    ASSUME NEW a, NEW b
    PROVE  /\ Append(<< >>, a) = <<a>> /\ Append(<<a>>, b) = <<a, b>> /\ <<a>> \o <<b>> = <<a, b>>
           /\ << >> \o <<a>> = <<a>> /\ <<a, b>> \o << >> = <<a, b>> /\ << >> \o << >> = << >>
           /\ <<a>> \o << >> = <<a>>
           /\ <<a>> # << >> /\ Head(<<a>>) = a /\ Tail(<<a>>) = << >>
           /\ DOMAIN <<a, b>> = 1 .. 2 /\ <<a, b>>[1] = a /\ <<a, b>>[2] = b
<1>1. Append(<< >>, a) = <<a>>
  OBVIOUS
<1>2. Append(<<a>>, b) = <<a, b>>
  <2>1. <<a>> \in Seq({a, b}) /\ b \in {a, b} /\ <<a, b>> \in Seq({a, b}) /\ Len(<<a, b>>) = 2 /\ Len(<<a>>) = 1
    OBVIOUS
  <2>2. /\ Append(<<a>>, b) \in Seq({a, b}) /\ Len(Append(<<a>>, b)) = 2
        /\ Append(<<a>>, b)[1] = a /\ Append(<<a>>, b)[2] = b
    BY <2>1, AppendProperties
  <2>3. \A k \in 1 .. 2 : Append(<<a>>, b)[k] = <<a, b>>[k]
    BY <2>2
  <2> QED
    BY <2>1, <2>2, <2>3, SeqEqual
<1>3. <<a>> \o <<b>> = <<a, b>>
  <2>1. <<a>> \in Seq({a, b}) /\ <<b>> \in Seq({a, b}) /\ <<a, b>> \in Seq({a, b}) /\ Len(<<a, b>>) = 2
        /\ Len(<<a>>) = 1 /\ Len(<<b>>) = 1
    OBVIOUS
  <2>2. /\ <<a>> \o <<b>> \in Seq({a, b}) /\ Len(<<a>> \o <<b>>) = 2
        /\ (<<a>> \o <<b>>)[1] = a /\ (<<a>> \o <<b>>)[2] = b
    BY <2>1, ConcatProperties
  <2>3. \A k \in 1 .. 2 : (<<a>> \o <<b>>)[k] = <<a, b>>[k]
    BY <2>2
  <2> QED
    BY <2>1, <2>2, <2>3, SeqEqual
<1>4. << >> \o <<a>> = <<a>>
  OBVIOUS
<1>5. <<a, b>> \o << >> = <<a, b>>
  OBVIOUS
<1>6. << >> \o << >> = << >>
  OBVIOUS
<1>7. <<a>> \o << >> = <<a>>
  OBVIOUS
<1>8. <<a>> # << >> /\ Head(<<a>>) = a /\ Tail(<<a>>) = << >>
  OBVIOUS
<1>9. DOMAIN <<a, b>> = 1 .. 2
  OBVIOUS
<1>10. <<a, b>>[1] = a /\ <<a, b>>[2] = b
  OBVIOUS
<1> QED
  BY <1>1, <1>2, <1>3, <1>4, <1>5, <1>6, <1>7, <1>8, <1>9, <1>10

-----------------------------------------------------------------------------
(* lab02: the numbers that follow a number. *)

(* f is the orbit of x, M applications of the rule long. *)
OrbitFrom(x, M, f) == f = [k \in 0 .. M |-> IF k = 0 THEN x ELSE Coll!Rule(f[k - 1])]

(* The rule can be applied any number of times. *)
LEMMA OrbitExists == ASSUME NEW x PROVE \A M \in Nat : \E f : OrbitFrom(x, M, f)
<1> DEFINE Bad == {M \in Nat : ~\E f : OrbitFrom(x, M, f)}
<1> SUFFICES ASSUME Bad # {} PROVE FALSE
  OBVIOUS
<1>1. PICK M \in Bad : \A m \in Bad : ~(<<m, M>> \in OpToRel(<, Nat))
  BY NatLessThanWellFounded, WFMin
<1>2. M \in Nat /\ ~(\E f : OrbitFrom(x, M, f))
  OBVIOUS
<1>3. CASE M = 0
  <2>1. OrbitFrom(x, M, [k \in 0 .. M |-> x])
    BY <1>3 DEF OrbitFrom
  <2> QED
    BY <1>2, <2>1
<1>4. CASE M # 0
  <2>1. M - 1 \in Nat /\ M - 1 < M
    BY <1>2, <1>4
  <2>2. <<M - 1, M>> \in OpToRel(<, Nat)
    BY <1>2, <2>1 DEF OpToRel
  <2>3. PICK f : OrbitFrom(x, M - 1, f)
    BY <1>1, <2>1, <2>2
  <2> DEFINE g == [k \in 0 .. M |-> IF k = M THEN Coll!Rule(f[M - 1]) ELSE f[k]]
  <2>4. \A k \in 0 .. M - 1 : f[k] = IF k = 0 THEN x ELSE Coll!Rule(f[k - 1])
    BY <2>3 DEF OrbitFrom
  <2>5. ASSUME NEW k \in 0 .. M PROVE g[k] = IF k = 0 THEN x ELSE Coll!Rule(g[k - 1])
    <3>1. CASE k = M
      <4>1. k - 1 \in 0 .. M /\ k - 1 # M
        BY <2>1, <3>1
      <4> QED
        BY <1>4, <3>1, <4>1
    <3>2. CASE k # M
      <4>1. k \in 0 .. M - 1 /\ (k # 0 => k - 1 \in 0 .. M /\ k - 1 # M)
        BY <1>2, <3>2
      <4> QED
        BY <2>4, <3>2, <4>1
    <3> QED
      BY <3>1, <3>2
  <2>6. OrbitFrom(x, M, g)
    <3> HIDE DEF g
    <3>1. g = [k \in 0 .. M |-> g[k]]
      BY DEF g
    <3> QED
      BY <2>5, <3>1 DEF OrbitFrom
  <2> QED
    BY <1>2, <2>6
<1> QED
  BY <1>3, <1>4

(* What follows a number is what the rule makes of it. *)
LEMMA OrbitRule ==
    ASSUME max_iter \in Nat
    PROVE  Coll!Orbit[0] = input /\ \A k \in 1 .. max_iter : Coll!Orbit[k] = Coll!Rule(Coll!Orbit[k - 1])
<1>1. PICK f : OrbitFrom(input, max_iter, f)
  BY OrbitExists
<1>2. OrbitFrom(input, max_iter, Coll!Orbit)
  BY <1>1 DEF OrbitFrom, Coll!Orbit
<1>3. \A k \in 0 .. max_iter : Coll!Orbit[k] = IF k = 0 THEN input ELSE Coll!Rule(Coll!Orbit[k - 1])
  BY <1>2 DEF OrbitFrom
<1> QED
  BY <1>3

(* Without an overflow, n is the last number of the orbit so far, and no number
   before has been 1. *)
CollatzInOrder ==
    /\ intPc \in {"call", "loop", "return"}
    /\ intPc = "loop" =>
         /\ max_iter \in Int /\ iter_no \in Nat \ {0}
         /\ iter_no = 1 \/ iter_no <= max_iter + 1
         /\ ~overflowed => /\ n = IF iter_no = 1 THEN input ELSE Coll!Orbit[iter_no - 1]
                           /\ \A k \in 1 .. iter_no - 1 : Coll!Orbit[k] # 1
    /\ FirstOne

(* An application of the rule without an overflow goes one number further. *)
LEMMA IterateFollowsOrbit ==
    ASSUME CollatzInOrder, intPc = "loop", Coll!Iterate, ~overflowed'
    PROVE  n' = Coll!Orbit[iter_no] /\ iter_no \in 1 .. max_iter /\ Coll!Orbit' = Coll!Orbit /\ ~overflowed
<1>1. /\ max_iter \in Int /\ iter_no \in Nat \ {0} /\ iter_no <= max_iter /\ ~overflowed /\ n' = Coll!Rule(n)
      /\ UNCHANGED <<input, max_iter>>
  BY DEF CollatzInOrder, Coll!Iterate, Coll!Continue
<1>2. max_iter \in Nat /\ iter_no \in 1 .. max_iter
  BY <1>1
<1>3. n = IF iter_no = 1 THEN input ELSE Coll!Orbit[iter_no - 1]
  BY <1>1 DEF CollatzInOrder
<1>4. Coll!Orbit[iter_no] = Coll!Rule(n)
  BY <1>2, <1>3, OrbitRule
<1>5. Coll!Orbit' = Coll!Orbit
  BY <1>1 DEF Coll!Orbit, Coll!Rule
<1> QED
  BY <1>1, <1>2, <1>4, <1>5

(* Every step of the client and of the library keeps it. *)
LEMMA CollatzStep == CollatzInOrder /\ [Coll!Next]_intVars => CollatzInOrder'
<1> SUFFICES ASSUME CollatzInOrder, [Coll!Next]_intVars PROVE CollatzInOrder'
  OBVIOUS
<1>1. CASE Coll!Call
  <2>1. /\ intPc' = "loop" /\ max_iter' \in Int /\ n' = input' /\ iter_no' = 1
    BY <1>1, CollatzAssumption DEF Coll!Call
  <2> QED
    BY <2>1 DEF CollatzInOrder, FirstOne, Coll!FirstOne
<1>2. CASE Coll!Iterate
  <2>1. /\ intPc = "loop" /\ max_iter \in Int /\ iter_no \in Nat \ {0} /\ iter_no <= max_iter
        /\ max_iter' = max_iter /\ input' = input
    BY <1>2 DEF CollatzInOrder, Coll!Iterate, Coll!Continue
  <2>2. ~overflowed' => /\ n' = Coll!Orbit[iter_no] /\ iter_no \in 1 .. max_iter /\ Coll!Orbit' = Coll!Orbit
                        /\ \A k \in 1 .. iter_no - 1 : Coll!Orbit[k] # 1
    BY <1>2, <2>1, IterateFollowsOrbit DEF CollatzInOrder
  <2>3. CASE n' = 1
    <3>1. intPc' = "return" /\ iter' = iter_no
      BY <1>2, <2>3 DEF Coll!Iterate
    <3>2. ASSUME ~overflowed' PROVE /\ iter' \in 1 .. max_iter /\ Coll!Orbit[iter'] = 1 /\ Coll!Orbit' = Coll!Orbit
                                    /\ \A k \in 1 .. iter' - 1 : Coll!Orbit[k] # 1
      BY <2>2, <2>3, <3>1, <3>2
    <3>3. FirstOne'
      BY <2>1, <3>2 DEF FirstOne, Coll!FirstOne
    <3> QED
      BY <3>1, <3>3 DEF CollatzInOrder
  <2>4. CASE n' # 1
    <3>1. intPc' = "loop" /\ iter_no' = iter_no + 1
      BY <1>2, <2>1, <2>4 DEF Coll!Iterate
    <3>2. ASSUME ~overflowed'
          PROVE  /\ n' = Coll!Orbit'[iter_no' - 1] /\ iter_no' # 1
                 /\ \A k \in 1 .. iter_no' - 1 : Coll!Orbit'[k] # 1
      BY <2>1, <2>2, <2>4, <3>1, <3>2
    <3> QED
      BY <2>1, <3>1, <3>2 DEF CollatzInOrder, FirstOne, Coll!FirstOne
  <2> QED
    BY <2>3, <2>4
<1>3. CASE Coll!GiveUp
  <2>1. /\ intPc = "loop" /\ intPc' = "return" /\ iter' = -1 /\ ~(iter_no <= max_iter)
        /\ UNCHANGED <<input, max_iter, overflowed>>
    BY <1>3 DEF Coll!GiveUp, Coll!Continue
  <2>2. Coll!Orbit' = Coll!Orbit
    BY <2>1 DEF Coll!Orbit, Coll!Rule
  <2>3. ~overflowed => \A k \in 1 .. max_iter : Coll!Orbit[k] # 1
    BY <2>1 DEF CollatzInOrder
  <2> QED
    BY <2>1, <2>2, <2>3 DEF CollatzInOrder, FirstOne, Coll!FirstOne
<1>4. CASE Coll!Return
  BY <1>4 DEF Coll!Return, CollatzInOrder, FirstOne, Coll!FirstOne
<1>5. CASE UNCHANGED intVars
  <2>1. Coll!Orbit' = Coll!Orbit
    BY <1>5 DEF intVars, Coll!Orbit, Coll!Rule
  <2> QED
    BY <1>5, <2>1 DEF intVars, CollatzInOrder, FirstOne, Coll!FirstOne
<1> QED
  BY <1>1, <1>2, <1>3, <1>4, <1>5 DEF Coll!Next

(* The library returns the number of the first application of the rule that
   gives 1, or -1 if none does, whatever the numbers, the limits and the width
   of an int, as long as no int overflows (collatz.c:13-24). *)
THEOREM CollatzSafety == MCSpec => []FirstOne
<1>1. MCInit => CollatzInOrder
  BY DEF MCInit, Coll!Init, CollatzInOrder, FirstOne, Coll!FirstOne
<1>2. [MCNext]_MCVars => [Coll!Next]_intVars
  BY DEF MCNext, MCVars
<1>3. CollatzInOrder => FirstOne
  BY DEF CollatzInOrder
<1> QED
  BY <1>1, <1>2, <1>3, CollatzStep, PTL DEF MCSpec

-----------------------------------------------------------------------------
(* lab06/zad1: the areas the parent has read. *)

(* The areas read so far are there in order, the child that is being waited
   for writes the next one, and every rectangle so far counts as a process. *)
AreasInOrder == count <= MAX_PROCESSES =>
    /\ count \in Nat /\ i \in Nat /\ res \in Seq(Nat) /\ Len(res) = i /\ \A k \in 1 .. i : res[k] = k - 1
    /\ sumPc \in {"main", "pipe", "close", "read", "done", "failed"}
    /\ sumPc = "main" => i = 0 /\ children = 0 /\ child = "none"
    /\ sumPc = "pipe" => i <= count /\ children = i /\ child # "running"
    /\ sumPc \in {"close", "read"} =>
         /\ i < count /\ children = i + 1
         /\ \/ child = "running" /\ area = << >> /\ "child" \in areaEnd
            \/ child \in {"written", "ended"} /\ area = <<i>>
    /\ sumPc = "done" => i = count

IntegralInOrder == AreasInOrder /\ (sumPc = "main" => i = 0 /\ children = 0 /\ child = "none" /\ res = << >>)

(* Every step of the parent and of a child keeps it. *)
LEMMA IntegralStep == IntegralInOrder /\ [Sum!Next]_sumVars => IntegralInOrder'
<1> SUFFICES ASSUME IntegralInOrder, [Sum!Next]_sumVars PROVE IntegralInOrder'
  OBVIOUS
<1> USE IntegralAssumption DEF IntegralInOrder, AreasInOrder
<1>1. CASE Sum!Main
  BY <1>1 DEF Sum!Main
<1>2. CASE Sum!Fork
  BY <1>2 DEF Sum!Fork, Sum!More
<1>3. CASE Sum!NoPipe
  BY <1>3 DEF Sum!NoPipe
<1>4. CASE Sum!Write
  <2>1. /\ child = "running" /\ child' = "written" /\ area' = Append(area, i)
        /\ UNCHANGED <<sumPc, count, i, areaEnd, children, res>>
    BY <1>4 DEF Sum!Write
  <2>2. area = << >> => area' = <<i>>
    BY <2>1
  <2>3. CASE sumPc \in {"close", "read"}
    BY <2>1, <2>2, <2>3
  <2>4. CASE sumPc \notin {"close", "read"}
    BY <2>1, <2>4
  <2> QED
    BY <2>3, <2>4
<1>5. CASE Sum!End
  BY <1>5 DEF Sum!End
<1>6. CASE Sum!CloseWrite
  BY <1>6 DEF Sum!CloseWrite
<1>7. CASE Sum!Read
  <2>1. /\ sumPc = "read" /\ (area # << >> \/ areaEnd = {})
        /\ res' = Append(res, IF area = << >> THEN Garbage ELSE Head(area)) /\ area' = << >>
        /\ i' = i + 1 /\ sumPc' = "pipe" /\ UNCHANGED <<child, count, areaEnd, children>>
    BY <1>7 DEF Sum!Read, Sum!MayRead
  <2>2. CASE ~(count <= MAX_PROCESSES)
    BY <2>1, <2>2
  <2>3. CASE count <= MAX_PROCESSES
    <3>1. /\ count \in Nat /\ i \in Nat /\ res \in Seq(Nat) /\ Len(res) = i
          /\ \A k \in 1 .. i : res[k] = k - 1
      BY <2>3
    <3>2. /\ i < count /\ children = i + 1
          /\ \/ child = "running" /\ area = << >> /\ "child" \in areaEnd
             \/ child \in {"written", "ended"} /\ area = <<i>>
      BY <2>1, <2>3
    <3> HIDE IntegralAssumption DEF IntegralInOrder, AreasInOrder
    <3>3. area = <<i>> /\ child # "running"
      BY <2>1, <3>2
    <3>4. res' = Append(res, i)
      BY <2>1, <3>3, ShortSequences
    <3>5. res' \in Seq(Nat) /\ Len(res') = i' /\ \A k \in 1 .. i' : res'[k] = k - 1
      BY <2>1, <3>1, <3>4, AppendProperties
    <3> QED
      BY <2>1, <3>1, <3>2, <3>3, <3>5 DEF IntegralInOrder, AreasInOrder
  <2> QED
    BY <2>2, <2>3
<1>8. CASE Sum!Finish
  BY <1>8 DEF Sum!Finish, Sum!More
<1>9. CASE UNCHANGED sumVars
  BY <1>9 DEF sumVars
<1> QED
  BY <1>1, <1>2, <1>3, <1>4, <1>5, <1>6, <1>7, <1>8, <1>9 DEF Sum!Next

(* With a process for every rectangle the sum has each area once, in order,
   for any number of rectangles (main.c:39-70). *)
THEOREM AreaSafety == MCSpec => []EveryAreaOnce
<1>1. MCInit => IntegralInOrder
  BY DEF MCInit, Sum!Init, IntegralInOrder, AreasInOrder
<1>2. [MCNext]_MCVars => [Sum!Next]_sumVars
  BY DEF MCNext, MCVars
<1>3. IntegralInOrder => EveryAreaOnce
  <2> SUFFICES ASSUME IntegralInOrder, sumPc = "done", count <= MAX_PROCESSES
               PROVE  res = [k \in 1 .. count |-> k - 1]
    BY DEF EveryAreaOnce, Sum!EveryAreaOnce
  <2>1. res \in Seq(Nat) /\ Len(res) = count /\ \A k \in 1 .. count : res[k] = k - 1
    BY DEF IntegralInOrder, AreasInOrder
  <2> QED
    BY <2>1
<1> QED
  BY <1>1, <1>2, <1>3, IntegralStep, PTL DEF MCSpec

-----------------------------------------------------------------------------
(* lab03/zad1: the invariant says which part of the output is written, and
   which part of the block in the buffer is exchanged. *)

Types ==
    /\ pc \in {"open", "failed", "block", "swap", "done"}
    /\ input_file \in Seq(Byte) /\ output_file \in Seq(Byte) /\ buffer \in Seq(Byte)
    /\ position \in Nat /\ bytes_left \in Int /\ bytes_to_read \in Nat
    /\ start \in Int /\ end \in Int
    /\ short \in BOOLEAN

(* The end of the file down to bytes_left has been written, backwards. *)
WrittenSoFar ==
    /\ bytes_left >= 0
    /\ Len(output_file) + bytes_left = Len(input_file)
    /\ \A k \in 1 .. Len(output_file) : output_file[k] = input_file[Len(input_file) + 1 - k]

(* reverseArray() stays inside the bytes that were read. *)
InBuffer == pc = "swap" => start >= 0 /\ end >= start - 1 /\ start + end = Len(buffer) - 1

(* The buffer holds the block that ends at bytes_left, exchanged outside start
   and end. *)
ExchangedSoFar ==
    /\ Len(buffer) = bytes_to_read /\ 0 < bytes_to_read /\ bytes_to_read <= bytes_left
    /\ \A k \in 1 .. Len(buffer) :
        IF start < k /\ k <= end + 1
        THEN buffer[k] = input_file[bytes_left - Len(buffer) + k]
        ELSE buffer[k] = input_file[bytes_left + 1 - k]

InOrder ==
    /\ pc = "open" => output_file = <<>>
    /\ pc \in {"block", "swap", "done"} => WrittenSoFar
    /\ pc \in {"block", "swap"} => position = bytes_left
    /\ pc = "swap" => ExchangedSoFar
    /\ pc = "done" => bytes_left = 0

IInv == Types /\ InBuffer /\ (~short => InOrder)
(* reverse() opens the file and has written nothing yet (reverse.c:42-45). *)
LEMMA OpenKeepsIInv == ASSUME ReverseAssumption, IInv, Open PROVE IInv'
<1> USE DEF ReverseAssumption, IInv, Types
<1>1. CASE /\ input_file' \in Files
           /\ position' = Len(input_file') /\ bytes_left' = Len(input_file')
           /\ pc' = "block"
  <2>1. Types'
    BY <1>1 DEF Open
  <2>2. QED
    BY <1>1, <2>1 DEF Open, InOrder, WrittenSoFar, InBuffer
<1>2. CASE pc' = "failed" /\ UNCHANGED <<input_file, position, bytes_left>>
  BY <1>2 DEF Open, InOrder, WrittenSoFar, InBuffer
<1> QED
  BY <1>1, <1>2 DEF Open

(* A block that is read in full is in the buffer as it is in the file, and ends
   where the written part begins (reverse.c:52-57). *)
LEMMA ReadBlockKeepsIInv == ASSUME ReverseAssumption, IInv, ReadBlock PROVE IInv'
<1> USE DEF IInv, Types
<1>1. PICK wanted : wanted = bytes_to_read'
  OBVIOUS
<1>2. PICK at : at = Back(wanted)
  OBVIOUS
<1>3. /\ pc = "block" /\ bytes_left > 0 /\ pc' = "swap"
      /\ wanted = min(BUFFER_SIZE, bytes_left)
      /\ UNCHANGED <<input_file, bytes_left, output_file>>
  BY <1>1 DEF ReadBlock
<1>4. wanted \in Nat \ {0} /\ wanted <= bytes_left
  BY <1>3 DEF ReverseAssumption, min
<1>5. at \in Nat /\ at <= position
  BY <1>2, <1>4 DEF Back
<1>6. PICK read_bytes \in 0 .. min(wanted, Len(input_file) - at) :
        /\ buffer' = SubSeq(input_file, at + 1, at + read_bytes)
        /\ position' = at + read_bytes
        /\ short' = (short \/ read_bytes < wanted)
        /\ start' = 0 /\ end' = read_bytes - 1
  BY <1>1, <1>2 DEF ReadBlock
<1>7. read_bytes \in Nat /\ read_bytes <= wanted /\ at + read_bytes <= Len(input_file)
  BY <1>4, <1>5, <1>6 DEF min
<1>8. /\ buffer' \in Seq(Byte) /\ Len(buffer') = read_bytes
      /\ \A k \in 1 .. read_bytes : buffer'[k] = input_file[at + k]
  <2>1. \A k \in at + 1 .. at + read_bytes : input_file[k] \in Byte
    BY <1>5, <1>7
  <2>2. /\ buffer' \in Seq(Byte)
        /\ Len(buffer') = IF at + 1 <= at + read_bytes THEN at + read_bytes - (at + 1) + 1 ELSE 0
        /\ \A k \in 1 .. at + read_bytes - (at + 1) + 1 : buffer'[k] = input_file[at + 1 + k - 1]
    <3> HIDE DEF IInv, Types
    <3> QED
      BY <1>5, <1>6, <1>7, <2>1, SubSeqProperties
  <2>3. Len(buffer') = read_bytes
    BY <1>5, <1>7, <2>2
  <2>4. ASSUME NEW k \in 1 .. read_bytes PROVE buffer'[k] = input_file[at + k]
    <3>1. k \in 1 .. at + read_bytes - (at + 1) + 1 /\ at + 1 + k - 1 = at + k
      BY <1>5, <1>7
    <3> QED
      BY <2>2, <3>1
  <2> QED
    BY <2>2, <2>3, <2>4
<1>9. Types' /\ InBuffer'
  <2>1. short' \in BOOLEAN
    BY <1>6
  <2> QED
    BY <1>1, <1>3, <1>4, <1>5, <1>6, <1>7, <1>8, <2>1 DEF InBuffer
<1>10. ASSUME ~short' PROVE InOrder'
  <2>1. ~short
    BY <1>6, <1>10
  <2>2. read_bytes = wanted
    <3>1. ~(read_bytes < wanted)
      BY <1>6, <1>10
    <3> QED
      BY <1>4, <1>7, <3>1
  <2>3. InOrder /\ WrittenSoFar /\ position = bytes_left
    BY <1>3, <2>1 DEF InOrder
  <2>4. at = bytes_left - wanted
    BY <1>2, <1>4, <2>3 DEF Back
  <2>5. position' = bytes_left /\ start' = 0 /\ end' = wanted - 1
    BY <1>4, <1>5, <1>6, <2>2, <2>4
  <2>6. ExchangedSoFar'
    <3>1. ASSUME NEW k \in 1 .. Len(buffer')
          PROVE  buffer'[k] = input_file'[bytes_left' - Len(buffer') + k]
      <4>1. bytes_left' - Len(buffer') + k = at + k /\ k \in 1 .. read_bytes
        BY <1>3, <1>8, <2>2, <2>4
      <4> QED
        BY <1>3, <1>8, <4>1
    <3>2. ASSUME NEW k \in 1 .. Len(buffer') PROVE start' < k /\ k <= end' + 1
      BY <1>8, <2>2, <2>5
    <3>3. Len(buffer') = bytes_to_read' /\ 0 < bytes_to_read' /\ bytes_to_read' <= bytes_left'
      BY <1>1, <1>3, <1>4, <1>8, <2>2
    <3> QED
      BY <3>1, <3>2, <3>3 DEF ExchangedSoFar
  <2>7. WrittenSoFar'
    BY <1>3, <2>3 DEF WrittenSoFar
  <2> QED
    BY <1>3, <2>5, <2>6, <2>7 DEF InOrder
<1> QED
  BY <1>9, <1>10

(* An exchange moves two bytes to their places (reverse.c:32-38). *)
LEMMA SwapKeepsIInv == ASSUME IInv, Swap PROVE IInv'
<1> USE DEF IInv, Types
<1>1. /\ start \in Nat /\ end \in Nat /\ start < end /\ start + end = Len(buffer) - 1
      /\ pc = "swap" /\ pc' = "swap"
      /\ start' = start + 1 /\ end' = end - 1
      /\ UNCHANGED <<input_file, position, bytes_left, bytes_to_read, output_file, short>>
  BY DEF Swap, InBuffer
<1>2. start + 1 \in 1 .. Len(buffer) /\ end + 1 \in 1 .. Len(buffer)
  BY <1>1
<1>3. /\ buffer' \in Seq(Byte) /\ Len(buffer') = Len(buffer)
      /\ \A k \in 1 .. Len(buffer) :
            buffer'[k] = IF k = end + 1 THEN buffer[start + 1]
                         ELSE IF k = start + 1 THEN buffer[end + 1]
                         ELSE buffer[k]
  <2>1. buffer' = [buffer EXCEPT ![start + 1] = buffer[end + 1], ![end + 1] = buffer[start + 1]]
    BY DEF Swap
  <2>2. buffer \in Seq(Byte) /\ Len(buffer) \in Nat /\ DOMAIN buffer = 1 .. Len(buffer)
        /\ buffer[start + 1] \in Byte /\ buffer[end + 1] \in Byte
    BY <1>2
  <2> HIDE DEF IInv, Types
  <2>3. /\ DOMAIN buffer' = 1 .. Len(buffer)
        /\ \A k \in 1 .. Len(buffer) :
              buffer'[k] = IF k = end + 1 THEN buffer[start + 1]
                           ELSE IF k = start + 1 THEN buffer[end + 1]
                           ELSE buffer[k]
    BY <2>1, <2>2
  <2>4. buffer' \in Seq(Byte)
    BY <1>2, <2>1, <2>2
  <2>5. Len(buffer') = Len(buffer)
    BY <2>2, <2>3, <2>4
  <2> QED
    BY <2>3, <2>4, <2>5
<1>4. Types' /\ InBuffer'
  BY <1>1, <1>3 DEF InBuffer
<1>5. ASSUME ~short PROVE InOrder'
  <2>1. InOrder /\ ExchangedSoFar /\ WrittenSoFar
    BY <1>1, <1>5 DEF InOrder
  <2>2. ASSUME NEW k \in 1 .. Len(buffer)
        PROVE  buffer'[k] = IF start' < k /\ k <= end' + 1
                            THEN input_file[bytes_left - Len(buffer) + k]
                            ELSE input_file[bytes_left + 1 - k]
    <3>1. CASE k = start + 1
      <4>1. buffer'[k] = buffer[end + 1]
        BY <1>1, <1>3, <3>1
      <4>2. buffer[end + 1] = input_file[bytes_left - Len(buffer) + (end + 1)]
        BY <1>1, <1>2, <2>1 DEF ExchangedSoFar
      <4>3. bytes_left - Len(buffer) + (end + 1) = bytes_left + 1 - k
        BY <1>1, <3>1
      <4> QED
        BY <1>1, <3>1, <4>1, <4>2, <4>3
    <3>2. CASE k = end + 1
      <4>1. buffer'[k] = buffer[start + 1]
        BY <1>1, <1>3, <3>2
      <4>2. buffer[start + 1] = input_file[bytes_left - Len(buffer) + (start + 1)]
        BY <1>1, <1>2, <2>1 DEF ExchangedSoFar
      <4>3. bytes_left - Len(buffer) + (start + 1) = bytes_left + 1 - k
        BY <1>1, <3>2
      <4> QED
        <5>1. ~(k <= end' + 1)
          BY <1>1, <3>2
        <5> QED
          BY <4>1, <4>2, <4>3, <5>1
    <3>3. CASE k # start + 1 /\ k # end + 1
      BY <1>1, <1>3, <2>1, <3>3 DEF ExchangedSoFar
    <3> QED
      BY <3>1, <3>2, <3>3
  <2>3. ExchangedSoFar'
    BY <1>1, <1>3, <2>1, <2>2 DEF ExchangedSoFar
  <2> QED
    BY <1>1, <2>1, <2>3 DEF InOrder, WrittenSoFar
<1> QED
  BY <1>1, <1>4, <1>5

(* The block follows what is written, and the loop goes on with the bytes in
   front of it (reverse.c:62-66). *)
LEMMA WriteBlockKeepsIInv == ASSUME IInv, WriteBlock PROVE IInv'
<1> USE DEF IInv, Types
<1>1. Back(bytes_to_read) \in Nat
  BY DEF Back
<1>2. Types' /\ InBuffer'
  BY <1>1 DEF WriteBlock, InBuffer
<1>3. ASSUME ~short PROVE InOrder'
  <2>1. InOrder /\ ExchangedSoFar /\ WrittenSoFar /\ position = bytes_left
    BY <1>3 DEF InOrder, WriteBlock
  <2>2. position' = bytes_left'
    BY <2>1 DEF ExchangedSoFar, WriteBlock, Back
  <2>3. ASSUME NEW k \in 1 .. Len(buffer) PROVE buffer[k] = input_file[bytes_left + 1 - k]
    <3>1. start >= end /\ start >= 0 /\ end >= start - 1 /\ start + end = Len(buffer) - 1
      BY DEF WriteBlock, InBuffer
    <3>2. CASE start < k /\ k <= end + 1
      <4>1. bytes_left - Len(buffer) + k = bytes_left + 1 - k
        BY <3>1, <3>2
      <4> QED
        BY <2>1, <3>2, <4>1 DEF ExchangedSoFar
    <3> QED
      BY <2>1, <3>2 DEF ExchangedSoFar
  <2>4. ASSUME NEW k \in 1 .. Len(output_file')
        PROVE  output_file'[k] = input_file[Len(input_file) + 1 - k]
    <3>1. CASE k <= Len(output_file)
      <4>1. output_file'[k] = output_file[k]
        BY <3>1, ConcatProperties DEF WriteBlock
      <4> QED
        BY <2>1, <3>1, <4>1 DEF WrittenSoFar
    <3>2. CASE k > Len(output_file)
      <4>1. k - Len(output_file) \in 1 .. Len(buffer)
        BY <3>2 DEF WriteBlock
      <4>2. output_file'[k] = buffer[k - Len(output_file)]
        BY <3>2 DEF WriteBlock
      <4>3. bytes_left + 1 - (k - Len(output_file)) = Len(input_file) + 1 - k
        BY <2>1, <4>1 DEF WrittenSoFar
      <4> QED
        BY <2>3, <4>1, <4>2, <4>3
    <3> QED
      BY <3>1, <3>2 DEF WriteBlock
  <2>5. WrittenSoFar'
    <3>1. /\ Len(output_file') = Len(output_file) + Len(buffer)
          /\ bytes_left' = bytes_left - Len(buffer) /\ input_file' = input_file
      BY ConcatProperties DEF WriteBlock
    <3>2. bytes_left' >= 0 /\ Len(output_file') + bytes_left' = Len(input_file')
      <4>1. Len(output_file) + bytes_left = Len(input_file) /\ Len(buffer) <= bytes_left
        BY <2>1 DEF WrittenSoFar, ExchangedSoFar
      <4>2. Len(output_file) \in Nat /\ Len(input_file) \in Nat /\ Len(buffer) \in Nat
            /\ bytes_left \in Int
        OBVIOUS
      <4> HIDE DEF IInv, Types
      <4> QED
        BY <3>1, <4>1, <4>2
    <3>3. \A k \in 1 .. Len(output_file') :
            output_file'[k] = input_file'[Len(input_file') + 1 - k]
      <4> HIDE DEF IInv, Types
      <4> QED
        BY <2>4, <3>1
    <3> HIDE DEF IInv, Types
    <3> QED
      BY <3>2, <3>3 DEF WrittenSoFar
  <2> QED
    BY <2>1, <2>2, <2>5 DEF InOrder, WriteBlock
<1> QED
  BY <1>2, <1>3 DEF WriteBlock

(* The loop ends with nothing left (reverse.c:51, 66). *)
LEMMA FinishKeepsIInv == ASSUME IInv, Finish PROVE IInv'
  BY DEF IInv, Types, InBuffer, InOrder, WrittenSoFar, Finish

(* What is written, and what of the block is exchanged, holds at every step of
   the program (reverse.c:25-68). *)
THEOREM Invariance == ASSUME ReverseAssumption PROVE ReverseSpec => []IInv
<1>1. ReverseInit => IInv
  <2> SUFFICES ASSUME ReverseInit PROVE IInv
    OBVIOUS
  <2>1. <<>> \in Seq(Byte)
    OBVIOUS
  <2>2. short \in BOOLEAN
    BY DEF ReverseInit
  <2>3. Types
    BY <2>1, <2>2 DEF ReverseInit, Types
  <2> QED
    BY <2>3 DEF ReverseInit, IInv, InBuffer, InOrder
<1>2. IInv /\ [ReverseNext]_reverseVars => IInv'
  <2> SUFFICES ASSUME IInv, [ReverseNext]_reverseVars PROVE IInv'
    OBVIOUS
  <2>1. CASE UNCHANGED reverseVars
    BY <2>1 DEF reverseVars, IInv, Types, InBuffer, InOrder, WrittenSoFar, ExchangedSoFar
  <2> QED
    BY <2>1, OpenKeepsIInv, ReadBlockKeepsIInv, SwapKeepsIInv, WriteBlockKeepsIInv,
       FinishKeepsIInv DEF ReverseNext
<1> QED
  BY <1>1, <1>2, PTL DEF ReverseSpec

(* Whatever the file contains and the buffer holds, the program writes the file
   backwards, or a fread() has returned less than asked for (reverse.c:42-68). *)
THEOREM ReversedSafety == ASSUME ReverseAssumption PROVE ReverseSpec => []Reversed
<1>1. IInv => Reversed
  <2> SUFFICES ASSUME IInv, pc = "done", ~short PROVE output_file = Backwards(input_file)
    BY DEF Reversed
  <2>1. /\ output_file \in Seq(Byte) /\ input_file \in Seq(Byte)
        /\ Len(output_file) = Len(input_file)
        /\ \A k \in 1 .. Len(output_file) :
            output_file[k] = input_file[Len(input_file) + 1 - k]
    BY DEF IInv, Types, InOrder, WrittenSoFar
  <2> QED
    BY <2>1 DEF Backwards
<1> QED
  BY <1>1, Invariance, PTL

-----------------------------------------------------------------------------
(* lab11: the list of the clients that answered their ping. *)

(* The ping thread is at most Latency late. *)
Clock ==
    /\ now \in Nat /\ wakeAt \in Nat /\ lastRound \in Nat /\ heardAt \in 0 .. now
    /\ pingedAt \in Int /\ active \in BOOLEAN /\ silent \in BOOLEAN
    /\ now <= wakeAt + Latency /\ lastRound <= now
    /\ last_response_time = time(heardAt)

(* A client that answers owes an answer since the last round, and not for
   long, or has been heard since then. *)
InTouch == active /\ ~silent =>
    \/ pingedAt # Never /\ pingedAt = lastRound /\ now <= lastRound + Delay
    \/ pingedAt = Never /\ heardAt >= lastRound

(* A client on the list was not overdue at the last round. *)
NotOverdueThen == active => lastRound - heardAt < Interval + SECOND

(* Seconds and ticks. *)

(* An interval is a positive number of ticks (serwer.c:12). *)
LEMMA IntervalType == Interval \in Nat /\ Interval >= 1 /\ SECOND \in Nat /\ SECOND >= 1
                      /\ PING_INTERVAL \in Nat /\ Latency \in Nat /\ Delay \in Nat
  BY TimingAssumption DEF Interval

(* time() rounds down to a second: it is less than a second behind the clock. *)
LEMMA TimeBounds ==
    ASSUME NEW a \in Nat
    PROVE  time(a) \in Nat /\ SECOND * time(a) <= a /\ a < SECOND * time(a) + SECOND
  BY TimingAssumption DEF time

(* A second more is SECOND ticks more. *)
LEMMA ManySeconds ==
    ASSUME NEW q \in Int, NEW t \in Int, SECOND * q < SECOND * t + SECOND
    PROVE  q <= t
<1> SUFFICES ASSUME q >= t + 1 PROVE FALSE
  OBVIOUS
<1>1. SECOND * q >= SECOND * (t + 1)
  BY TimingAssumption
<1>2. SECOND * (t + 1) = SECOND * t + SECOND
  BY TimingAssumption
<1> QED
  BY <1>1, <1>2, TimingAssumption

(* time() never goes back. *)
LEMMA TimeInOrder == ASSUME NEW a \in Nat, NEW b \in Nat, a <= b PROVE time(a) <= time(b)
<1> DEFINE s == time(a)
           t == time(b)
<1>1. s \in Nat /\ SECOND * s <= a /\ t \in Nat /\ b < SECOND * t + SECOND
  BY TimeBounds
<1> HIDE DEF s, t
<1>2. SECOND * s < SECOND * t + SECOND
  BY <1>1, TimingAssumption
<1>3. s <= t
  BY <1>1, <1>2, ManySeconds
<1> QED
  BY <1>3 DEF s, t

(* Within an interval no more than PING_INTERVAL seconds seem to pass, and
   when no more seem to pass, less than a second more than that has passed. *)
LEMMA SeenWithinInterval ==
    ASSUME NEW a \in Nat, NEW b \in Nat
    PROVE  /\ b - a <= Interval => time(b) - time(a) <= PING_INTERVAL
           /\ time(b) - time(a) <= PING_INTERVAL => b - a < Interval + SECOND
<1> DEFINE s == time(a)
           t == time(b)
<1>1. s \in Nat /\ SECOND * s <= a /\ a < SECOND * s + SECOND
  BY TimeBounds
<1>2. t \in Nat /\ SECOND * t <= b /\ b < SECOND * t + SECOND
  BY TimeBounds
<1>3. SECOND * (s + PING_INTERVAL) = SECOND * s + Interval
  BY <1>1, TimingAssumption DEF Interval
<1> HIDE DEF s, t
<1>4. ASSUME b - a <= Interval PROVE t - s <= PING_INTERVAL
  <2>1. SECOND * t < SECOND * (s + PING_INTERVAL) + SECOND
    BY <1>1, <1>2, <1>3, <1>4, IntervalType
  <2> QED
    BY <1>1, <1>2, <2>1, ManySeconds, IntervalType
<1>5. ASSUME t - s <= PING_INTERVAL PROVE b - a < Interval + SECOND
  <2>1. SECOND * t <= SECOND * (s + PING_INTERVAL)
    BY <1>1, <1>2, <1>5, TimingAssumption
  <2> QED
    BY <1>1, <1>2, <1>3, <2>1, IntervalType
<1> QED
  BY <1>4, <1>5 DEF s, t

(* The thread has slept for less than an interval when the client comes (serwer.c:60). *)
LEMMA InitHolds == Init => Clock /\ InTouch /\ NotOverdueThen
<1> SUFFICES ASSUME Init PROVE Clock /\ InTouch /\ NotOverdueThen
  OBVIOUS
<1>1. now \in 0 .. Interval /\ wakeAt = Interval /\ heardAt = now /\ last_response_time = time(now)
  BY DEF Init, Interval
<1>2. active = TRUE /\ pingedAt = Never /\ silent = FALSE
  BY DEF Init
<1>3. lastRound = 0
  BY <1>1, IntervalType DEF lastRound
<1>4. Clock
  <2>1. now \in Nat /\ heardAt \in 0 .. now /\ now <= wakeAt + Latency /\ lastRound <= now
    BY <1>1, <1>3, IntervalType
  <2>2. active \in BOOLEAN /\ silent \in BOOLEAN
    BY <1>2
  <2> QED
    BY <1>1, <1>2, <1>3, <2>1, <2>2, IntervalType DEF Clock, Never
<1>5. InTouch
  BY <1>1, <1>2, <1>3 DEF InTouch
<1>6. NotOverdueThen
  BY <1>1, <1>3, IntervalType DEF NotOverdueThen
<1> QED
  BY <1>4, <1>5, <1>6

(* A round begins a new sleep. *)
LEMMA RoundClock ==
    ASSUME Clock, PingRound
    PROVE  lastRound' = now /\ now' = now /\ now >= wakeAt /\ UNCHANGED <<heardAt, silent, last_response_time>>
  BY IntervalType DEF Clock, PingRound, lastRound, Interval

(* A round comes at most Latency late, whatever the client does. *)
LEMMA NextClock == Clock /\ [Next]_vars => Clock'
<1> SUFFICES ASSUME Clock, [Next]_vars PROVE Clock'
  OBVIOUS
<1>1. CASE Tick
  <2>1. /\ now' = now + 1 /\ now < wakeAt + Latency
        /\ UNCHANGED <<wakeAt, active, last_response_time, heardAt, pingedAt, silent>>
    BY <1>1 DEF Tick
  <2> QED
    BY <2>1, IntervalType DEF Clock, lastRound
<1>2. CASE PingRound
  <2>1. wakeAt' = now + Interval /\ lastRound' = now /\ UNCHANGED <<now, heardAt, silent, last_response_time>>
    BY <1>2, RoundClock DEF PingRound, Interval
  <2>2. pingedAt' \in Int
    BY <1>2 DEF PingRound, Clock
  <2>4. active' \in BOOLEAN
    BY <1>2 DEF PingRound, Clock
  <2> QED
    BY <2>1, <2>2, <2>4, IntervalType DEF Clock
<1>3. CASE Respond
  <2>1. /\ UNCHANGED <<now, wakeAt, active, silent>> /\ heardAt' = now /\ pingedAt' = Never
        /\ last_response_time' = time(now)
    BY <1>3 DEF Respond
  <2> QED
    BY <2>1, IntervalType DEF Clock, lastRound, Never
<1>4. CASE FallSilent \/ UNCHANGED vars
  <2>1. UNCHANGED <<now, wakeAt, active, last_response_time, heardAt, pingedAt>>
    BY <1>4 DEF FallSilent, vars
  <2>2. silent' \in BOOLEAN
    BY <1>4 DEF FallSilent, vars, Clock
  <2> QED
    BY <2>1, <2>2 DEF Clock, lastRound
<1> QED
  BY <1>1, <1>2, <1>3, <1>4 DEF Next

(* Rounds and answers keep a client that answers in touch (serwer.c:93-96, 166-189). *)
LEMMA NextInTouch == Clock /\ InTouch /\ [Next]_vars => InTouch'
<1> SUFFICES ASSUME Clock, InTouch, [Next]_vars, active', ~silent' PROVE InTouch'
  BY DEF InTouch
<1>1. CASE Tick
  BY <1>1, IntervalType DEF Tick, InTouch, Clock, lastRound, Never
<1>2. CASE PingRound
  <2>1. pingedAt' = now /\ lastRound' = now /\ now' = now
    BY <1>2, RoundClock DEF PingRound
  <2> QED
    BY <2>1, IntervalType DEF InTouch, Clock, Never
<1>3. CASE Respond
  <2>1. heardAt' = now /\ pingedAt' = Never /\ lastRound' = lastRound
    BY <1>3 DEF Respond, lastRound
  <2> QED
    BY <2>1 DEF InTouch, Clock
<1>4. CASE FallSilent
  BY <1>4 DEF FallSilent
<1>5. CASE UNCHANGED vars
  BY <1>5 DEF vars, InTouch, lastRound
<1> QED
  BY <1>1, <1>2, <1>3, <1>4, <1>5 DEF Next

(* What a round leaves on the list was not overdue (serwer.c:174). *)
LEMMA NextNotOverdueThen == Clock /\ NotOverdueThen /\ [Next]_vars => NotOverdueThen'
<1> SUFFICES ASSUME Clock, NotOverdueThen, [Next]_vars, active' PROVE NotOverdueThen'
  BY DEF NotOverdueThen
<1>1. CASE PingRound
  <2>1. lastRound' = now /\ heardAt' = heardAt
    BY <1>1, RoundClock
  <2>2. time(now) - time(heardAt) <= PING_INTERVAL
    <3>1. ~Overdue
      BY <1>1 DEF PingRound
    <3>2. time(now) \in Nat /\ time(heardAt) \in Nat
      BY TimeBounds DEF Clock
    <3> QED
      BY <3>1, <3>2, IntervalType DEF Overdue, Clock
  <2>3. now - heardAt < Interval + SECOND
    BY <2>2, SeenWithinInterval DEF Clock
  <2> QED
    BY <2>1, <2>3 DEF NotOverdueThen
<1>2. CASE Respond
  <2>1. heardAt' = now /\ lastRound' = lastRound
    BY <1>2 DEF Respond, lastRound
  <2> QED
    BY <2>1, IntervalType DEF NotOverdueThen, Clock
<1>3. CASE Tick \/ FallSilent \/ UNCHANGED vars
  BY <1>3 DEF Tick, FallSilent, vars, NotOverdueThen, lastRound
<1> QED
  BY <1>1, <1>2, <1>3 DEF Next

(* A round that removes a client finds it unheard for more than an interval; if
   the client answers, it has answered the round before. *)
LEMMA RemovalOverdue ==
    ASSUME Clock, InTouch, [Next]_vars, active, ~active'
    PROVE  /\ now - heardAt > Interval
           /\ silent \/ Delay >= Interval \/ heardAt - lastRound \in 0 .. now - wakeAt - 1
<1>1. PingRound /\ Overdue
  BY DEF Next, Tick, PingRound, Respond, FallSilent, vars, Clock
<1>2. now \in Nat /\ heardAt \in Nat /\ time(now) \in Nat /\ time(heardAt) \in Nat
  BY TimeBounds DEF Clock
<1>3. time(now) - time(heardAt) > PING_INTERVAL
  BY <1>1 DEF Overdue, Clock
<1>4. now - heardAt > Interval
  <2>1. now - heardAt <= Interval => time(now) - time(heardAt) <= PING_INTERVAL
    BY <1>2, SeenWithinInterval
  <2> QED
    BY <1>2, <1>3, <2>1, IntervalType
<1>5. ASSUME ~silent, Delay < Interval PROVE heardAt >= lastRound
  <2>1. now >= wakeAt
    BY <1>1 DEF PingRound
  <2>2. ~(now <= lastRound + Delay)
    BY <1>5, <2>1, IntervalType DEF lastRound, Clock
  <2> QED
    BY <1>5, <2>2 DEF InTouch
<1>6. now - wakeAt > heardAt - lastRound
  BY <1>2, <1>4, IntervalType DEF lastRound, Clock
<1>7. heardAt >= lastRound => heardAt - lastRound \in 0 .. now - wakeAt - 1
  BY <1>2, <1>6, IntervalType DEF lastRound, Clock
<1>8. Delay >= Interval \/ Delay < Interval
  BY IntervalType
<1> QED
  BY <1>4, <1>5, <1>7, <1>8

(* Whatever the latencies of the rounds and the time answers take, a client is
   removed only after more than an interval without a sign of life, and one
   that answers within an interval only by a round that is later than its
   answer was (serwer.c:168-176). *)
THEOREM UnheardSafety == Spec => OnlyUnheardRemoved
<1> DEFINE PingInv == Clock /\ InTouch
<1>1. Init => PingInv
  BY InitHolds
<1>2. PingInv /\ [Next]_vars => PingInv'
  BY NextClock, NextInTouch
<1>3. PingInv /\ [Next]_vars =>
        [active /\ ~active' =>
           /\ now - heardAt > Interval
           /\ silent \/ Delay >= Interval \/ heardAt - lastRound \in 0 .. now - wakeAt - 1]_vars
  BY RemovalOverdue
<1> QED
  BY <1>1, <1>2, <1>3, PTL DEF Spec, OnlyUnheardRemoved

(* Two intervals, a second and one late wake-up after its last sign of life a
   client is off the list, whatever the latencies (serwer.c:168-178). *)
THEOREM RemovalSafety == Spec => []SilentRemovedInTime
<1> DEFINE PingInv == Clock /\ NotOverdueThen
<1>1. Init => PingInv
  BY InitHolds
<1>2. PingInv /\ [Next]_vars => PingInv'
  BY NextClock, NextNotOverdueThen
<1>3. PingInv => SilentRemovedInTime
  BY IntervalType DEF Clock, NotOverdueThen, SilentRemovedInTime, lastRound, Interval
<1> QED
  BY <1>1, <1>2, <1>3, PTL DEF Spec

(* The ticks and seconds stay within the bound on the clock (serwer.c:168-178). *)
THEOREM PingTypeCorrect == Spec => []TypeOK
<1> DEFINE PingInv == Clock /\ TypeOK
<1> USE IntervalType, TimingAssumption
<1>1. Init => PingInv
  <2> SUFFICES ASSUME Init PROVE TypeOK
    BY InitHolds
  <2>1. now \in 0 .. MaxTime /\ wakeAt \in 0 .. MaxTime + Interval /\ heardAt = now
    BY DEF Init, Interval
  <2>2. time(now) \in Nat
    BY <2>1, TimeBounds
  <2>3. active = TRUE /\ silent = FALSE /\ last_response_time = time(now) /\ pingedAt = Never
    BY DEF Init
  <2>4. now \in Nat /\ last_response_time \in 0 .. time(now) /\ heardAt \in 0 .. now
    BY <2>1, <2>2, <2>3
  <2>5. active \in BOOLEAN /\ silent \in BOOLEAN
    BY <2>3
  <2> QED
    BY <2>1, <2>3, <2>4, <2>5 DEF TypeOK, Interval
<1>2. PingInv /\ [Next]_vars => PingInv'
  <2> SUFFICES ASSUME Clock, TypeOK, [Next]_vars PROVE Clock' /\ TypeOK'
    OBVIOUS
  <2>1. Clock'
    BY NextClock
  <2>2. last_response_time' \in 0 .. time(now')
    BY <2>1, TimeInOrder, TimeBounds DEF Clock
  <2>3. now' \in 0 .. MaxTime /\ wakeAt' \in 0 .. MaxTime + Interval /\ pingedAt' \in 0 .. now' \cup {Never}
    <3>1. CASE Tick
      BY <3>1 DEF Tick, TypeOK, Interval
    <3>2. CASE PingRound
      BY <3>2 DEF PingRound, TypeOK, Interval
    <3>3. CASE Respond \/ FallSilent \/ UNCHANGED vars
      BY <3>3 DEF Respond, FallSilent, vars, TypeOK, Interval
    <3> QED
      BY <3>1, <3>2, <3>3 DEF Next
  <2> QED
    BY <2>1, <2>2, <2>3 DEF Clock, TypeOK, Interval
<1> QED
  BY <1>1, <1>2, PTL DEF Spec

-----------------------------------------------------------------------------
(* lab06/zad2: the stages of an instance that is alone with its FIFOs. *)

Parent(k) == Fifos!ParentOf(k)
Child(k) == Fifos!ChildOf(k)
Holds(p, f) == fifoPc[p] \in Fifos!Holding /\ Fifos!Uses(p) = f
Up(k) == Fifos!Alive(Parent(k)) \/ Fifos!Alive(Child(k))
Solo(k) == k \notin overlapped \cup interrupted \cup alone
Empty == content["my_fifo1"] = << >> /\ content["my_fifo2"] = << >>

FifoTypes ==
    /\ fifoPc \in [Fifos!Process -> {"none", "open", "opening", "transfer", "close", "done", "dead"}]
    /\ turn \in [Fifos!Process -> {1, 2}]
    /\ content = [f \in Fifos!FifoName |-> content[f]]
    /\ value = [p \in Fifos!Process |-> value[p]]
    /\ shown = [k \in Instance |-> shown[k]]

(* What is in a FIFO does not outlive those who hold it. *)
HeldFifos == \A f \in Fifos!FifoName : content[f] # << >> => \E p \in Fifos!Process : Holds(p, f)

(* Whoever is not started has not moved; while an instance that no other has
   met is there, it is the only one. *)
OneAtATime ==
    /\ \A k \in Instance : fifoPc[Parent(k)] = "none" => fifoPc[Child(k)] = "none"
    /\ \A p \in Fifos!Process : fifoPc[p] = "none" => turn[p] = 1
    /\ \A k, l \in Instance : k \notin overlapped /\ Up(k) /\ Up(l) => k = l

At(p, t, pcs) == turn[p] = t /\ fifoPc[p] \in pcs

(* The stages of a run: the arguments are not written yet, are in the FIFO, have
   been read; both ends of the way back are open; the integral is in the FIFO,
   has been read, has been printed. *)
Unsent(k) ==
    /\ Empty /\ turn[Parent(k)] = 1 /\ turn[Child(k)] = 1
    /\ \/ fifoPc[Parent(k)] \in {"open", "opening"} /\ fifoPc[Child(k)] = "open"
       \/ fifoPc[Parent(k)] = "open" /\ fifoPc[Child(k)] = "opening"
       \/ fifoPc[Parent(k)] = "transfer" /\ fifoPc[Child(k)] = "transfer"
HasSent(k) == At(Parent(k), 1, {"close"}) \/ At(Parent(k), 2, {"open", "opening"})
Sent(k) ==
    /\ HasSent(k) /\ At(Child(k), 1, {"transfer"})
    /\ content["my_fifo1"] = << >> /\ content["my_fifo2"] = <<Fifos!Arguments(k)>>
Received(k) ==
    /\ HasSent(k) /\ (At(Child(k), 1, {"close"}) \/ At(Child(k), 2, {"open", "opening"}))
    /\ Empty /\ value[Child(k)] = Fifos!Arguments(k)
    /\ ~(At(Parent(k), 2, {"opening"}) /\ At(Child(k), 2, {"opening"}))
Meeting(k) ==
    /\ At(Parent(k), 2, {"transfer"}) /\ At(Child(k), 2, {"transfer"})
    /\ Empty /\ value[Child(k)] = Fifos!Arguments(k)
Replied(k) ==
    /\ At(Parent(k), 2, {"transfer"}) /\ At(Child(k), 2, {"close", "done"})
    /\ content["my_fifo1"] = <<Fifos!calc(Fifos!Arguments(k))>> /\ content["my_fifo2"] = << >>
Answered(k) ==
    /\ At(Parent(k), 2, {"close"}) /\ At(Child(k), 2, {"close", "done"})
    /\ value[Parent(k)] = Fifos!calc(Fifos!Arguments(k))
Shown(k) ==
    /\ At(Parent(k), 2, {"done"}) /\ At(Child(k), 2, {"close", "done"})
    /\ shown[k] = Fifos!calc(Fifos!Arguments(k))
Asleep(k) == fifoPc[Parent(k)] \in {"none", "dead"} /\ fifoPc[Child(k)] = "none"
Stage(k) == \/ Unsent(k) \/ Sent(k) \/ Received(k) \/ Meeting(k) \/ Replied(k) \/ Answered(k) \/ Shown(k)
            \/ Asleep(k)

FifoInOrder == FifoTypes /\ HeldFifos /\ OneAtATime /\ \A k \in Instance : Solo(k) => Stage(k)

(* Every process is one of its instance. *)
LEMMA Processes ==
    /\ \A p \in Fifos!Process : \E k \in Instance : p = Parent(k) \/ p = Child(k)
    /\ \A k \in Instance : Parent(k) \in Fifos!Process /\ Child(k) \in Fifos!Process
    /\ \A k, l : Parent(k) # Child(l) /\ (Parent(k) = Parent(l) => k = l) /\ (Child(k) = Child(l) => k = l)
    /\ \A k : Parent(k)[1] = k /\ Child(k)[1] = k /\ Parent(k)[2] = "parent" /\ Child(k)[2] = "child"
  BY DEF Fifos!Process, Parent, Child, Fifos!ParentOf, Fifos!ChildOf

(* The first FIFO leads to the child, the second back. *)
LEMMA Directions ==
    ASSUME FifoTypes, NEW k \in Instance
    PROVE  /\ Fifos!Uses(Parent(k)) = IF turn[Parent(k)] = 1 THEN "my_fifo2" ELSE "my_fifo1"
           /\ Fifos!Uses(Child(k)) = IF turn[Child(k)] = 1 THEN "my_fifo2" ELSE "my_fifo1"
           /\ turn[Parent(k)] \in {1, 2} /\ turn[Child(k)] \in {1, 2}
           /\ Fifos!Reads(Parent(k)) <=> turn[Parent(k)] = 2
           /\ Fifos!Reads(Child(k)) <=> turn[Child(k)] = 1
<1>1. turn[Parent(k)] \in {1, 2} /\ turn[Child(k)] \in {1, 2}
  BY Processes DEF FifoTypes
<1> QED
  BY <1>1, Processes DEF Fifos!Uses, Fifos!Reads

(* A process moves itself, wakes others from their open(), and leaves alone
   who is not alive. *)
LEMMA StepMoves ==
    ASSUME FifoTypes, NEW p \in Fifos!Process, Fifos!Step(p)
    PROVE  /\ FifoTypes' /\ Fifos!Alive(p) /\ UNCHANGED <<interrupted, alone, overlapped>>
           /\ \A q \in Fifos!Process :
                 /\ Fifos!Alive(q)' => Fifos!Alive(q)
                 /\ fifoPc'[q] = "none" <=> fifoPc[q] = "none"
                 /\ fifoPc[q] = "none" => turn'[q] = turn[q]
                 /\ ~Fifos!Alive(q) => fifoPc'[q] = fifoPc[q] /\ turn'[q] = turn[q] /\ value'[q] = value[q]
           /\ \A k \in Instance : ~Fifos!Alive(Parent(k)) => shown'[k] = shown[k]
<1> USE DEF FifoTypes, Fifos!Alive
<1>1. CASE Fifos!Open(p)
  BY <1>1 DEF Fifos!Open
<1>2. CASE Fifos!Write(p)
  <2>1. /\ fifoPc[p] = "transfer"
        /\ fifoPc' = [fifoPc EXCEPT ![p] = "close"] \/ fifoPc' = [fifoPc EXCEPT ![p] = "dead"]
        /\ UNCHANGED <<turn, value, shown, interrupted, alone, overlapped>>
    BY <1>2 DEF Fifos!Write
  <2>2. content' = [f \in Fifos!FifoName |-> content'[f]]
    BY <1>2 DEF Fifos!Write, Fifos!LeaveFifo
  <2>3. fifoPc' \in [Fifos!Process -> {"none", "open", "opening", "transfer", "close", "done", "dead"}]
        /\ \A q \in Fifos!Process \ {p} : fifoPc'[q] = fifoPc[q]
    BY <2>1
  <2>4. fifoPc'[p] \in {"close", "dead"}
    BY <2>1
  <2> HIDE DEF FifoTypes
  <2>5. FifoTypes'
    BY <2>1, <2>2, <2>3 DEF FifoTypes
  <2> QED
    BY <2>1, <2>3, <2>4, <2>5
<1>3. CASE Fifos!Read(p)
  <2>1. /\ fifoPc[p] = "transfer" /\ fifoPc' = [fifoPc EXCEPT ![p] = "close"]
        /\ UNCHANGED <<turn, shown, interrupted, alone, overlapped>>
    BY <1>3 DEF Fifos!Read
  <2>2. content' = [f \in Fifos!FifoName |-> content'[f]] /\ value' = [q \in Fifos!Process |-> value'[q]]
        /\ \A q \in Fifos!Process \ {p} : value'[q] = value[q]
    BY <1>3 DEF Fifos!Read
  <2> QED
    BY <2>1, <2>2
<1>4. CASE Fifos!Close(p)
  <2>1. content' = [f \in Fifos!FifoName |-> content'[f]]
    BY <1>4 DEF Fifos!Close, Fifos!LeaveFifo
  <2>2. /\ fifoPc[p] = "close" /\ UNCHANGED <<value, interrupted, alone, overlapped>>
        /\ \/ fifoPc' = [fifoPc EXCEPT ![p] = "open"] /\ turn' = [turn EXCEPT ![p] = 2] /\ shown' = shown
           \/ /\ fifoPc' = [fifoPc EXCEPT ![p] = "done"] /\ turn' = turn
              /\ shown' = IF p[2] = "parent" THEN [shown EXCEPT ![p[1]] = value[p]] ELSE shown
    BY <1>4 DEF Fifos!Close
  <2>3. p[1] \in Instance /\ (p[2] = "parent" => p = Parent(p[1]))
    BY Processes
  <2>4. shown' = [k \in Instance |-> shown'[k]] /\ \A k \in Instance : shown'[k] = shown[k] \/ p = Parent(k)
    BY <2>2, <2>3
  <2>5. fifoPc' \in [Fifos!Process -> {"none", "open", "opening", "transfer", "close", "done", "dead"}]
        /\ turn' \in [Fifos!Process -> {1, 2}] /\ value' = [q \in Fifos!Process |-> value'[q]]
    BY <2>2
  <2>6. \A q \in Fifos!Process \ {p} : fifoPc'[q] = fifoPc[q] /\ turn'[q] = turn[q] /\ value'[q] = value[q]
    BY <2>2
  <2> QED
    BY <2>1, <2>2, <2>4, <2>5, <2>6
<1>5. CASE Fifos!Die(p)
  <2>1. content' = [f \in Fifos!FifoName |-> content'[f]]
    BY <1>5 DEF Fifos!Die, Fifos!LeaveFifo
  <2> QED
    BY <1>5, <2>1 DEF Fifos!Die
<1> QED
  BY <1>1, <1>2, <1>3, <1>4, <1>5 DEF Fifos!Step

(* Who leaves a FIFO leaves its content to others only. *)
LEMMA LeavingEmpties ==
    ASSUME FifoTypes, HeldFifos, NEW p \in Fifos!Process, Fifos!LeaveFifo(p), fifoPc[p] \in Fifos!Holding,
           \A q \in Fifos!Process \ {p} : fifoPc'[q] = fifoPc[q] /\ turn'[q] = turn[q]
    PROVE  HeldFifos'
<1> SUFFICES ASSUME NEW f \in Fifos!FifoName, content'[f] # << >> PROVE \E q \in Fifos!Process : Holds(q, f)'
  BY DEF HeldFifos
<1>1. PICK q \in Fifos!Process : q # p /\ Holds(q, f)
  <2>1. CASE f = Fifos!Uses(p)
    <3>1. ~(Fifos!Readers(f) \cup Fifos!Writers(f) \subseteq {p})
      BY <2>1 DEF Fifos!LeaveFifo, FifoTypes
    <3> QED
      BY <3>1 DEF Fifos!Readers, Fifos!Writers, Holds
  <2>2. CASE f # Fifos!Uses(p)
    <3>1. content'[f] = content[f]
      BY <2>2 DEF Fifos!LeaveFifo, FifoTypes
    <3> QED
      BY <2>2, <3>1 DEF HeldFifos, Holds
  <2> QED
    BY <2>1, <2>2
<1> QED
  BY <1>1 DEF Holds, Fifos!Uses

(* Whatever is in a FIFO is held, after every step of a process. *)
LEMMA HeldStep == ASSUME FifoTypes, HeldFifos, NEW p \in Fifos!Process, Fifos!Step(p) PROVE HeldFifos'
<1>1. CASE Fifos!Open(p)
  <2>1. \A q \in Fifos!Process : fifoPc[q] \in Fifos!Holding => fifoPc'[q] \in Fifos!Holding
    BY <1>1 DEF Fifos!Open, Fifos!Holding, FifoTypes
  <2> QED
    BY <1>1, <2>1 DEF Fifos!Open, HeldFifos, Holds, Fifos!Uses
<1>2. CASE Fifos!Write(p)
  <2>1. fifoPc[p] = "transfer" /\ turn' = turn /\ \A q \in Fifos!Process \ {p} : fifoPc'[q] = fifoPc[q]
    BY <1>2 DEF Fifos!Write, FifoTypes
  <2>2. CASE fifoPc' = [fifoPc EXCEPT ![p] = "close"] /\ \A f \in Fifos!FifoName \ {Fifos!Uses(p)} : content'[f] = content[f]
    <3>1. \A q \in Fifos!Process : fifoPc[q] \in Fifos!Holding => fifoPc'[q] \in Fifos!Holding
      BY <2>2 DEF Fifos!Holding, FifoTypes
    <3>2. Holds(p, Fifos!Uses(p))
      BY <2>1 DEF Holds, Fifos!Holding
    <3>3. \A q \in Fifos!Process : \A f : Holds(q, f) => Holds(q, f)'
      BY <2>1, <3>1 DEF Holds, Fifos!Uses
    <3> QED
      BY <2>2, <3>2, <3>3 DEF HeldFifos
  <2>3. CASE Fifos!LeaveFifo(p)
    BY <2>1, <2>3, LeavingEmpties DEF Fifos!Holding
  <2> QED
    BY <1>2, <2>2, <2>3 DEF Fifos!Write, FifoTypes
<1>3. CASE Fifos!Read(p)
  <2>1. /\ fifoPc[p] = "transfer" /\ turn' = turn /\ fifoPc' = [fifoPc EXCEPT ![p] = "close"]
        /\ \A f \in Fifos!FifoName \ {Fifos!Uses(p)} : content'[f] = content[f]
    BY <1>3 DEF Fifos!Read, FifoTypes
  <2>2. \A q \in Fifos!Process : fifoPc[q] \in Fifos!Holding => fifoPc'[q] \in Fifos!Holding
    BY <2>1 DEF Fifos!Holding, FifoTypes
  <2>3. Holds(p, Fifos!Uses(p))
    BY <2>1 DEF Holds, Fifos!Holding
  <2>4. \A q \in Fifos!Process : \A f : Holds(q, f) => Holds(q, f)'
    BY <2>1, <2>2 DEF Holds, Fifos!Uses
  <2> QED
    BY <2>1, <2>3, <2>4 DEF HeldFifos
<1>4. CASE Fifos!Close(p)
  <2>1. fifoPc[p] \in Fifos!Holding /\ Fifos!LeaveFifo(p)
        /\ \A q \in Fifos!Process \ {p} : fifoPc'[q] = fifoPc[q] /\ turn'[q] = turn[q]
    BY <1>4 DEF Fifos!Close, Fifos!Holding, FifoTypes
  <2> QED
    BY <2>1, LeavingEmpties
<1>5. CASE Fifos!Die(p)
  <2>1. \A q \in Fifos!Process \ {p} : fifoPc'[q] = fifoPc[q] /\ turn'[q] = turn[q]
    BY <1>5 DEF Fifos!Die, FifoTypes
  <2>2. CASE fifoPc[p] \in Fifos!Holding
    BY <1>5, <2>1, <2>2, LeavingEmpties DEF Fifos!Die
  <2>3. CASE fifoPc[p] \notin Fifos!Holding
    <3>1. content' = content /\ \A q \in Fifos!Process : \A f : Holds(q, f) => Holds(q, f)'
      BY <1>5, <2>1, <2>3 DEF Fifos!Die, Holds, Fifos!Uses
    <3> QED
      BY <3>1 DEF HeldFifos
  <2> QED
    BY <2>2, <2>3
<1> QED
  BY <1>1, <1>2, <1>3, <1>4, <1>5 DEF Fifos!Step

(* Two instances are there at the same time only if both have been noted. *)
LEMMA OneAtATimeStep ==
    ASSUME FifoTypes, OneAtATime, NEW p \in Fifos!Process, Fifos!Step(p)
    PROVE  OneAtATime'
<1>1. /\ UNCHANGED overlapped
      /\ \A q \in Fifos!Process :
            /\ Fifos!Alive(q)' => Fifos!Alive(q)
            /\ fifoPc'[q] = "none" <=> fifoPc[q] = "none"
            /\ fifoPc[q] = "none" => turn'[q] = turn[q]
  BY StepMoves
<1>2. \A k \in Instance : Up(k)' => Up(k)
  BY <1>1, Processes DEF Up, Parent, Child
<1> QED
  BY <1>1, <1>2, Processes DEF OneAtATime, Parent, Child

(* With nobody else there, the two ends of a FIFO are the two processes of the
   instance, and one that leaves it empties it unless the other holds it. *)
LEMMA PairEnds ==
    ASSUME FifoTypes, OneAtATime, NEW k \in Instance, k \notin overlapped, Up(k)
    PROVE  /\ \A p \in Fifos!Process : Fifos!Alive(p) => p \in {Parent(k), Child(k)}
           /\ \A p, q \in {Parent(k), Child(k)} :
                 /\ Fifos!LeaveFifo(p) =>
                      content' = IF Fifos!Partners(p) = {} THEN [content EXCEPT ![Fifos!Uses(p)] = << >>]
                                 ELSE content
                 /\ p # q =>
                      Fifos!Partners(p) = IF fifoPc[q] \in Fifos!Holding /\ turn[p] = turn[q] THEN {q} ELSE {}
<1>1. ASSUME NEW p \in Fifos!Process, Fifos!Alive(p) PROVE p \in {Parent(k), Child(k)}
  <2>1. PICK l \in Instance : p = Parent(l) \/ p = Child(l)
    BY Processes
  <2>2. Up(l)
    BY <1>1, <2>1 DEF Up
  <2>3. k = l
    BY <2>2 DEF OneAtATime
  <2> QED
    BY <2>1, <2>3
<1>2. \A p \in Fifos!Process : fifoPc[p] \in Fifos!Holding => p \in {Parent(k), Child(k)}
  BY <1>1 DEF Fifos!Holding, Fifos!Alive
<1>3. /\ Parent(k) \in Fifos!Process /\ Child(k) \in Fifos!Process /\ Parent(k) # Child(k)
  BY Processes
<1>4. \A f : /\ Fifos!Readers(f) = {p \in {Parent(k), Child(k)} :
                                       fifoPc[p] \in Fifos!Holding /\ Fifos!Uses(p) = f /\ Fifos!Reads(p)}
             /\ Fifos!Writers(f) = {p \in {Parent(k), Child(k)} :
                                       fifoPc[p] \in Fifos!Holding /\ Fifos!Uses(p) = f /\ ~Fifos!Reads(p)}
  BY <1>2, <1>3 DEF Fifos!Readers, Fifos!Writers
<1>5. \A p, q \in {Parent(k), Child(k)} : p # q =>
         Fifos!Partners(p) = IF fifoPc[q] \in Fifos!Holding /\ turn[p] = turn[q] THEN {q} ELSE {}
  <2>1. /\ turn[Parent(k)] = turn[Child(k)] <=> Fifos!Uses(Parent(k)) = Fifos!Uses(Child(k))
        /\ turn[Parent(k)] = turn[Child(k)] => ~(Fifos!Reads(Parent(k)) <=> Fifos!Reads(Child(k)))
    BY Directions
  <2>2. Fifos!Partners(Parent(k)) = IF fifoPc[Child(k)] \in Fifos!Holding /\ turn[Parent(k)] = turn[Child(k)]
                                   THEN {Child(k)} ELSE {}
    BY <1>3, <1>4, <2>1 DEF Fifos!Partners
  <2>3. Fifos!Partners(Child(k)) = IF fifoPc[Parent(k)] \in Fifos!Holding /\ turn[Parent(k)] = turn[Child(k)]
                                  THEN {Parent(k)} ELSE {}
    BY <1>3, <1>4, <2>1 DEF Fifos!Partners
  <2> QED
    BY <2>2, <2>3
<1>6. ASSUME NEW p \in {Parent(k), Child(k)}
      PROVE  Fifos!Readers(Fifos!Uses(p)) \cup Fifos!Writers(Fifos!Uses(p)) \subseteq {p} <=> Fifos!Partners(p) = {}
  <2>1. /\ Fifos!Uses(Parent(k)) = Fifos!Uses(Child(k)) => ~(Fifos!Reads(Parent(k)) <=> Fifos!Reads(Child(k)))
    BY Directions
  <2> QED
    BY <1>3, <1>4, <2>1 DEF Fifos!Partners
<1> QED
  BY <1>1, <1>5, <1>6 DEF Fifos!LeaveFifo

(* Every step of the one instance that is there leads to its next stage. *)
LEMMA StageStep ==
    ASSUME FifoTypes, OneAtATime, NEW p \in Fifos!Process, Fifos!Step(p),
           NEW k \in Instance, Solo(k), Stage(k)
    PROVE  Stage(k)'
<1> DEFINE P == Parent(k)
           C == Child(k)
<1>1. /\ P \in Fifos!Process /\ C \in Fifos!Process /\ P # C /\ P[1] = k /\ C[1] = k
      /\ P[2] = "parent" /\ C[2] = "child"
  BY Processes
<1>2. Fifos!Alive(p) /\ k \notin overlapped /\ k \notin interrupted
  BY StepMoves DEF Solo
<1>3. CASE ~Up(k)
  <2>1. fifoPc'[P] = fifoPc[P] /\ fifoPc'[C] = fifoPc[C] /\ turn'[P] = turn[P] /\ turn'[C] = turn[C]
        /\ shown'[k] = shown[k]
    BY <1>1, <1>3, StepMoves DEF Up
  <2>2. Shown(k) \/ Asleep(k)
    BY <1>3 DEF Stage, Up, Fifos!Alive, Unsent, Sent, Received, Meeting, Replied, Answered, HasSent, At
  <2> QED
    BY <2>1, <2>2 DEF Stage, Shown, Asleep, At
<1>4. CASE Up(k)
  <2>1. /\ p \in {P, C}
        /\ Fifos!LeaveFifo(P) =>
             content' = IF Fifos!Partners(P) = {} THEN [content EXCEPT ![Fifos!Uses(P)] = << >>] ELSE content
        /\ Fifos!LeaveFifo(C) =>
             content' = IF Fifos!Partners(C) = {} THEN [content EXCEPT ![Fifos!Uses(C)] = << >>] ELSE content
        /\ Fifos!Partners(P) = IF fifoPc[C] \in Fifos!Holding /\ turn[P] = turn[C] THEN {C} ELSE {}
        /\ Fifos!Partners(C) = IF fifoPc[P] \in Fifos!Holding /\ turn[P] = turn[C] THEN {P} ELSE {}
    BY <1>1, <1>2, <1>4, PairEnds
  <2>2. /\ Fifos!Uses(P) = (IF turn[P] = 1 THEN "my_fifo2" ELSE "my_fifo1")
        /\ Fifos!Uses(C) = (IF turn[C] = 1 THEN "my_fifo2" ELSE "my_fifo1")
        /\ turn[P] \in {1, 2} /\ turn[C] \in {1, 2}
        /\ Fifos!Reads(P) <=> turn[P] = 2
        /\ Fifos!Reads(C) <=> turn[C] = 1
    BY Directions
  <2>3. /\ fifoPc \in [Fifos!Process -> {"none", "open", "opening", "transfer", "close", "done", "dead"}]
        /\ turn \in [Fifos!Process -> {1, 2}] /\ content = [f \in {"my_fifo1", "my_fifo2"} |-> content[f]]
        /\ value = [q \in Fifos!Process |-> value[q]] /\ shown = [l \in Instance |-> shown[l]]
    BY DEF FifoTypes, Fifos!FifoName
  <2>4. ~Fifos!Die(p)
    BY <1>1, <1>2, <2>1 DEF Fifos!Die
  <2> HIDE DEF P, C
  <2> USE DEF Fifos!Holding
  <2>5. CASE p = P
    <3>1. CASE Fifos!Open(p)
      <4>1. /\ fifoPc[P] = "open" /\ UNCHANGED <<turn, content, value, shown>>
            /\ fifoPc'[P] = IF Fifos!Partners(P) = {} THEN "opening" ELSE "transfer"
            /\ fifoPc'[C] = IF C \in Fifos!Partners(P) /\ fifoPc[C] = "opening" THEN "transfer" ELSE fifoPc[C]
        BY <1>1, <2>5, <3>1 DEF Fifos!Open
      <4> QED
        BY <1>1, <2>1, <2>3, <4>1 DEF Stage, Unsent, Sent, Received, Meeting, Replied, Answered, Shown, Asleep, HasSent, Empty, At, P, C
    <3>2. CASE Fifos!Write(p)
      <4>1. /\ fifoPc[P] = "transfer" /\ turn[P] = 1 /\ UNCHANGED <<turn, value, shown>>
            /\ Fifos!Partners(P) # {} =>
                 /\ content' = [content EXCEPT ![Fifos!Uses(P)] = Append(@, Fifos!Arguments(k))]
                 /\ fifoPc'[P] = "close" /\ fifoPc'[C] = fifoPc[C]
        BY <1>1, <2>2, <2>3, <2>5, <3>2 DEF Fifos!Write
      <4>2. Unsent(k) /\ fifoPc[C] = "transfer" /\ turn[C] = turn[P]
        BY <4>1 DEF Stage, Unsent, Sent, Received, Meeting, Replied, Answered, Shown, Asleep, HasSent, Empty, At, P, C
      <4>3. content'["my_fifo2"] = <<Fifos!Arguments(k)>> /\ content'["my_fifo1"] = << >>
        BY <2>1, <2>2, <2>3, <4>1, <4>2 DEF Unsent, Meeting, Empty, P, C
      <4> QED
        BY <2>1, <4>1, <4>2, <4>3 DEF Stage, Unsent, Sent, Received, Meeting, Replied, Answered, Shown, Asleep, HasSent, Empty, At, P, C
    <3>3. CASE Fifos!Read(p)
      <4>1. /\ fifoPc[P] = "transfer" /\ turn[P] = 2 /\ UNCHANGED <<turn, shown>>
            /\ fifoPc'[P] = "close" /\ fifoPc'[C] = fifoPc[C]
            /\ \/ /\ content[Fifos!Uses(P)] # << >>
                  /\ value'[P] = Head(content[Fifos!Uses(P)])
                  /\ content' = [content EXCEPT ![Fifos!Uses(P)] = Tail(@)]
               \/ content[Fifos!Uses(P)] = << >> /\ Fifos!Partners(P) = {}
        BY <1>1, <2>2, <2>3, <2>5, <3>3 DEF Fifos!Read, Fifos!EndOfFile
      <4>2. Replied(k)
        BY <2>1, <2>2, <4>1 DEF Stage, Unsent, Sent, Received, Meeting, Replied, Answered, Shown, Asleep, HasSent, Empty, At, P, C
      <4> QED
        BY <2>2, <2>3, <4>1, <4>2 DEF Stage, Unsent, Sent, Received, Meeting, Replied, Answered, Shown, Asleep, HasSent, Empty, At, P, C
    <3>4. CASE Fifos!Close(p)
      <4>1. /\ fifoPc[P] = "close" /\ UNCHANGED value /\ fifoPc'[C] = fifoPc[C] /\ turn'[C] = turn[C]
            /\ \/ turn[P] = 1 /\ turn'[P] = 2 /\ fifoPc'[P] = "open" /\ shown' = shown
               \/ /\ turn[P] = 2 /\ turn'[P] = 2 /\ fifoPc'[P] = "done"
                  /\ shown'[k] = value[P]
        BY <1>1, <2>3, <2>5, <3>4 DEF Fifos!Close
      <4>2. content' = IF Fifos!Partners(P) = {} THEN [content EXCEPT ![Fifos!Uses(P)] = << >>] ELSE content
        BY <2>1, <2>5, <3>4 DEF Fifos!Close
      <4>3. Empty => Empty'
        BY <2>3, <4>2 DEF Empty
      <4> QED
        BY <2>1, <2>2, <2>3, <4>1, <4>2, <4>3 DEF Stage, Unsent, Sent, Received, Meeting, Replied, Answered, Shown, Asleep, HasSent, Empty, At, P, C
    <3> QED
      BY <2>4, <3>1, <3>2, <3>3, <3>4 DEF Fifos!Step
  <2>6. CASE p = C
    <3>1. CASE Fifos!Open(p)
      <4>1. /\ fifoPc[C] = "open" /\ UNCHANGED <<turn, content, value, shown>>
            /\ fifoPc'[C] = IF Fifos!Partners(C) = {} THEN "opening" ELSE "transfer"
            /\ fifoPc'[P] = IF P \in Fifos!Partners(C) /\ fifoPc[P] = "opening" THEN "transfer" ELSE fifoPc[P]
        BY <1>1, <2>6, <3>1 DEF Fifos!Open
      <4> QED
        BY <1>1, <2>1, <2>3, <4>1 DEF Stage, Unsent, Sent, Received, Meeting, Replied, Answered, Shown, Asleep, HasSent, Empty, At, P, C
    <3>2. CASE Fifos!Write(p)
      <4>1. /\ fifoPc[C] = "transfer" /\ turn[C] = 2 /\ UNCHANGED <<turn, value, shown>>
            /\ Fifos!Partners(C) # {} =>
                 /\ content' = [content EXCEPT ![Fifos!Uses(C)] = Append(@, Fifos!calc(value[C]))]
                 /\ fifoPc'[C] = "close" /\ fifoPc'[P] = fifoPc[P]
        BY <1>1, <2>2, <2>3, <2>6, <3>2 DEF Fifos!Write
      <4>2. Meeting(k) /\ fifoPc[P] = "transfer" /\ turn[P] = turn[C]
        BY <4>1 DEF Stage, Unsent, Sent, Received, Meeting, Replied, Answered, Shown, Asleep, HasSent, Empty, At, P, C
      <4>3. content'["my_fifo1"] = <<Fifos!calc(Fifos!Arguments(k))>> /\ content'["my_fifo2"] = << >>
        BY <2>1, <2>2, <2>3, <4>1, <4>2 DEF Unsent, Meeting, Empty, P, C
      <4> QED
        BY <2>1, <4>1, <4>2, <4>3 DEF Stage, Unsent, Sent, Received, Meeting, Replied, Answered, Shown, Asleep, HasSent, Empty, At, P, C
    <3>3. CASE Fifos!Read(p)
      <4>1. /\ fifoPc[C] = "transfer" /\ turn[C] = 1 /\ UNCHANGED <<turn, shown>>
            /\ fifoPc'[C] = "close" /\ fifoPc'[P] = fifoPc[P]
            /\ \/ /\ content[Fifos!Uses(C)] # << >>
                  /\ value'[C] = Head(content[Fifos!Uses(C)])
                  /\ content' = [content EXCEPT ![Fifos!Uses(C)] = Tail(@)]
               \/ content[Fifos!Uses(C)] = << >> /\ Fifos!Partners(C) = {}
        BY <1>1, <2>2, <2>3, <2>6, <3>3 DEF Fifos!Read, Fifos!EndOfFile
      <4>2. Sent(k)
        BY <2>1, <2>2, <4>1 DEF Stage, Unsent, Sent, Received, Meeting, Replied, Answered, Shown, Asleep, HasSent, Empty, At, P, C
      <4>3. /\ turn[P] \in {1, 2} /\ HasSent(k) /\ content["my_fifo1"] = << >>
            /\ content["my_fifo2"] = <<Fifos!Arguments(k)>> /\ Fifos!Uses(C) = "my_fifo2"
        BY <2>2, <4>1, <4>2 DEF Sent
      <4>4. value'[C] = Fifos!Arguments(k) /\ content' = [content EXCEPT !["my_fifo2"] = << >>]
        <5>1. content["my_fifo2"] # << >> /\ Head(content["my_fifo2"]) = Fifos!Arguments(k)
              /\ Tail(content["my_fifo2"]) = << >>
          BY <4>3, ShortSequences
        <5>2. value'[C] = Head(content["my_fifo2"]) /\ content' = [content EXCEPT !["my_fifo2"] = Tail(@)]
          BY <4>1, <4>3, <5>1
        <5> QED
          BY <5>1, <5>2
      <4>5. Empty'
        BY <2>3, <4>3, <4>4 DEF Empty
      <4>6. HasSent(k)'
        BY <4>1, <4>3 DEF HasSent, At, P
      <4>7. Received(k)'
        BY <4>1, <4>4, <4>5, <4>6 DEF Received, At, C
      <4> QED
        BY <4>7 DEF Stage
    <3>4. CASE Fifos!Close(p)
      <4>1. /\ fifoPc[C] = "close" /\ UNCHANGED value /\ fifoPc'[P] = fifoPc[P] /\ turn'[P] = turn[P]
            /\ \/ turn[C] = 1 /\ turn'[C] = 2 /\ fifoPc'[C] = "open" /\ shown' = shown
               \/ /\ turn[C] = 2 /\ turn'[C] = 2 /\ fifoPc'[C] = "done"
                  /\ shown'[k] = shown[k]
        BY <1>1, <2>3, <2>6, <3>4 DEF Fifos!Close
      <4>2. content' = IF Fifos!Partners(C) = {} THEN [content EXCEPT ![Fifos!Uses(C)] = << >>] ELSE content
        BY <2>1, <2>6, <3>4 DEF Fifos!Close
      <4>3. Empty => Empty'
        BY <2>3, <4>2 DEF Empty
      <4> QED
        BY <2>1, <2>2, <2>3, <4>1, <4>2, <4>3 DEF Stage, Unsent, Sent, Received, Meeting, Replied, Answered, Shown, Asleep, HasSent, Empty, At, P, C
    <3> QED
      BY <2>4, <3>1, <3>2, <3>3, <3>4 DEF Fifos!Step
  <2> QED
    BY <2>1, <2>5, <2>6
<1> QED
  BY <1>3, <1>4

(* A start keeps it: who is alone finds empty FIFOs, who is not is noted, and so
   is everybody it meets. *)
LEMMA FifoStart == ASSUME FifoInOrder, NEW k \in Instance, Fifos!Start(k) PROVE FifoInOrder'
<1> DEFINE P == Parent(k)
           C == Child(k)
           others == {j \in Instance \ {k} : Fifos!Alive(Parent(j)) \/ Fifos!Alive(Child(j))}
<1>1. /\ P \in Fifos!Process /\ C \in Fifos!Process /\ P # C
      /\ \A j \in Instance \ {k} : /\ Parent(j) \in Fifos!Process \ {P, C}
                                   /\ Child(j) \in Fifos!Process \ {P, C}
  BY Processes
<1>2. /\ fifoPc[P] = "none" /\ fifoPc[C] = "none" /\ turn[P] = 1 /\ turn[C] = 1
      /\ overlapped' = overlapped \cup others \cup {j \in {k} : others # {}}
      /\ UNCHANGED <<turn, content, value, shown, interrupted>>
  BY <1>1 DEF Fifos!Start, P, C, Parent, Child, FifoInOrder, OneAtATime
<1>3. \/ fifoPc' = [fifoPc EXCEPT ![P] = "open", ![C] = "open"] /\ alone' = alone
      \/ fifoPc' = [fifoPc EXCEPT ![P] = "open"] /\ alone' = alone \cup {k}
      \/ fifoPc' = [fifoPc EXCEPT ![P] = "dead"] /\ alone' = alone
  BY DEF Fifos!Start, P, C, Parent, Child
<1>4. FifoTypes
  BY DEF FifoInOrder
<1>5. FifoTypes' /\ \A q \in Fifos!Process \ {P, C} : fifoPc'[q] = fifoPc[q]
  BY <1>1, <1>2, <1>3, <1>4 DEF FifoTypes
<1>6. /\ fifoPc'[P] \in {"open", "dead"} /\ fifoPc'[C] \in {"none", "open"}
      /\ \/ fifoPc'[P] = "open" /\ fifoPc'[C] = "open"
         \/ fifoPc'[P] = "open" /\ k \in alone'
         \/ fifoPc'[P] = "dead" /\ fifoPc'[C] = "none"
  BY <1>1, <1>2, <1>3, <1>4 DEF FifoTypes
<1>7. alone \subseteq alone'
  BY <1>3
<1> HIDE DEF P, C
<1>8. HeldFifos'
  <2>1. \A q \in Fifos!Process : \A f : Holds(q, f) => Holds(q, f)'
    BY <1>2, <1>5 DEF Holds, Fifos!Holding, Fifos!Uses
  <2> QED
    BY <1>2, <2>1 DEF HeldFifos, FifoInOrder
<1>9. \A j \in Instance \ {k} : Up(j)' <=> j \in others
  BY <1>1, <1>5 DEF Up, Fifos!Alive, Parent, Child
<1>10. OneAtATime'
  <2>1. ASSUME NEW j \in Instance, NEW l \in Instance, (j \notin overlapped)', Up(j)', Up(l)' PROVE j = l
    <3>1. CASE j = k
      BY <1>2, <1>9, <2>1, <3>1
    <3>2. CASE j # k
      BY <1>2, <1>9, <2>1, <3>2
    <3> QED
      BY <3>1, <3>2
  <2>2. \A q \in Fifos!Process : (fifoPc[q] = "none" => turn[q] = 1)' 
    BY <1>2, <1>5 DEF OneAtATime, FifoInOrder
  <2>3. \A j \in Instance : (fifoPc[Parent(j)] = "none" => fifoPc[Child(j)] = "none")'
    <3>1. \A j \in Instance \ {k} : (fifoPc[Parent(j)] = "none" => fifoPc[Child(j)] = "none")'
      BY <1>1, <1>5 DEF OneAtATime, FifoInOrder, Parent, Child
    <3> QED
      BY <1>6, <3>1 DEF P, C, Parent, Child
  <2> QED
    BY <2>1, <2>2, <2>3 DEF OneAtATime
<1>11. ASSUME NEW j \in Instance, Solo(j)' PROVE Stage(j)'
  <2>1. CASE j # k
    <3>1. ~Up(j) /\ Solo(j)
      BY <1>2, <1>7, <1>11, <2>1 DEF Solo, Up
    <3>2. Shown(j) \/ Asleep(j)
      BY <3>1 DEF FifoInOrder, Stage, Up, Fifos!Alive, Unsent, Sent, Received, Meeting, Replied, Answered, HasSent, At
    <3>3. fifoPc'[Parent(j)] = fifoPc[Parent(j)] /\ fifoPc'[Child(j)] = fifoPc[Child(j)]
      BY <1>1, <1>5, <2>1
    <3> QED
      BY <1>2, <3>2, <3>3 DEF Stage, Shown, Asleep, At, Parent, Child
  <2>2. CASE j = k
    <3>1. others = {} /\ k \notin alone'
      BY <1>2, <1>11, <2>2 DEF Solo
    <3>2. \A q \in Fifos!Process : fifoPc[q] \notin Fifos!Holding
      <4>1. \A q \in Fifos!Process : ~Fifos!Alive(q)
        BY <1>2, <3>1, Processes DEF P, C, Fifos!Alive
      <4> QED
        BY <4>1 DEF Fifos!Alive, Fifos!Holding
    <3>3. Empty
      BY <3>2 DEF FifoInOrder, HeldFifos, Holds, Empty, Fifos!FifoName
    <3> QED
      BY <1>2, <1>6, <2>2, <3>1, <3>3 DEF Stage, Unsent, Asleep, Empty, P, C, Parent, Child
  <2> QED
    BY <2>1, <2>2
<1> QED
  BY <1>5, <1>8, <1>10, <1>11 DEF FifoInOrder

(* Every step of the instances keeps it. *)
LEMMA FifoStep == FifoInOrder /\ [Fifos!Next]_fifoVars => FifoInOrder'
<1> SUFFICES ASSUME FifoInOrder, [Fifos!Next]_fifoVars PROVE FifoInOrder'
  OBVIOUS
<1>1. ASSUME NEW p \in Fifos!Process, Fifos!Step(p) PROVE FifoInOrder'
  <2>1. FifoTypes' /\ UNCHANGED <<interrupted, alone, overlapped>> /\ FifoTypes /\ OneAtATime /\ HeldFifos
    BY <1>1, StepMoves DEF FifoInOrder
  <2>2. HeldFifos' /\ OneAtATime'
    BY <1>1, <2>1, HeldStep, OneAtATimeStep
  <2>3. \A k \in Instance : Solo(k)' => Stage(k)'
    <3>1. \A k \in Instance : Solo(k)' => Solo(k) /\ Stage(k)
      BY <2>1 DEF Solo, FifoInOrder
    <3> QED
      BY <1>1, <2>1, <3>1, StageStep
  <2> QED
    BY <2>1, <2>2, <2>3 DEF FifoInOrder
<1>2. ASSUME NEW k \in Instance, Fifos!CtrlC(k) PROVE FifoInOrder'
  BY <1>2 DEF Fifos!CtrlC, FifoInOrder, FifoTypes, HeldFifos, Holds, OneAtATime, Up, Parent, Child, Fifos!Alive,
     Fifos!Uses, Solo, Stage, Unsent, Sent, Received, Meeting, Replied, Answered, Shown, Asleep, HasSent, Empty, At
<1>3. CASE UNCHANGED fifoVars
  <2>1. UNCHANGED <<fifoPc, turn, content, value, shown, interrupted, alone, overlapped>>
    BY <1>3 DEF fifoVars
  <2>2. FifoTypes' /\ HeldFifos' /\ OneAtATime'
    BY <2>1 DEF FifoInOrder, FifoTypes, HeldFifos, Holds, OneAtATime, Up, Parent, Child, Fifos!Alive, Fifos!Uses
  <2>3. \A k \in Instance : Solo(k)' => Stage(k)'
    BY <2>1 DEF FifoInOrder, Solo, Stage, Unsent, Sent, Received, Meeting, Replied, Answered, Shown, Asleep, HasSent,
       Empty, At, Parent, Child
  <2> QED
    BY <2>2, <2>3 DEF FifoInOrder
<1> QED
  BY <1>1, <1>2, <1>3, FifoStart DEF Fifos!Next

(* A parent that has ended its second turn has printed the integral of its own
   interval, unless another instance was there, it was interrupted or it had no
   child (main.c:63-90). *)
THEOREM ShownSafety == MCSpec => []Fifos!ShownIsOwn
<1>1. MCInit => FifoInOrder
  BY Processes DEF MCInit, Fifos!Init, FifoInOrder, FifoTypes, HeldFifos, OneAtATime, Up, Fifos!Alive, Stage, Asleep,
     Fifos!FifoName
<1>2. FifoInOrder /\ [MCNext]_MCVars => FifoInOrder'
  <2>1. [MCNext]_MCVars => [Fifos!Next]_fifoVars
    BY DEF MCNext, MCVars, Fifos!Next, fifoVars
  <2> QED
    BY <2>1, FifoStep
<1>3. FifoInOrder => Fifos!ShownIsOwn
  BY DEF FifoInOrder, Solo, Stage, Unsent, Sent, Received, Meeting, Replied, Answered, Shown, Asleep, HasSent, At,
     Fifos!ShownIsOwn, Parent
<1> QED
  BY <1>1, <1>2, <1>3, PTL DEF MCSpec

-----------------------------------------------------------------------------
(* kolokwium1, zad2: the lines in the buffers of stdio and in the output. *)

ForkTypes ==
    /\ forkPc \in [Fork!Process -> {"mask", "check_mask", "fork", "sleep", "wait", "return", "exited", "killed",
                                    "none", "exec", "start", "ready", "suspended"}]
    /\ sigaction \in [Fork!Process -> [Fork!Signal -> Fork!Disposition]]
    /\ stdout = [p \in Fork!Process |-> stdout[p]]

(* Where the lines of the two tests are, in a pipe and on a terminal. *)
NoLine == stdout["zad2"] = << >> /\ printed = << >>
MaskLineOut ==
    IF buffered THEN stdout["zad2"] = <<Fork!MaskLine>> /\ printed = << >>
                ELSE stdout["zad2"] = << >> /\ printed = <<Fork!MaskLine>>
BothLines ==
    IF buffered THEN /\ stdout["zad2"] = <<Fork!MaskLine>>
                     /\ IF forkPc["child"] = "exited"
                        THEN stdout["child"] = << >> /\ printed = <<Fork!ForkLine>>
                        ELSE stdout["child"] = <<Fork!ForkLine>> /\ printed = << >>
                ELSE /\ stdout["zad2"] = << >> /\ stdout["child"] = << >>
                     /\ printed = <<Fork!MaskLine, Fork!ForkLine>>

(* The exercise in its order: the child is in sigsuspend() when the signal
   comes, and has not kept the copy of its parent's line. *)
LinesInOrder ==
    \/ /\ forkPc["zad2"] \in {"mask", "check_mask"} /\ forkPc["child"] = "none" /\ NoLine
       /\ stdout["child"] = << >>
       /\ forkPc["zad2"] = "check_mask" => sigaction["zad2"]["SIGUSR2"] = "SIG_IGN"
    \/ forkPc["zad2"] = "fork" /\ forkPc["child"] = "none" /\ MaskLineOut
    \/ /\ forkPc["zad2"] = "sleep" /\ forkPc["child"] \in {"exec", "start", "ready", "suspended"} /\ MaskLineOut
       /\ forkPc["child"] # "exec" => stdout["child"] = << >>
       /\ forkPc["child"] \in {"ready", "suspended"} => sigaction["child"]["SIGUSR1"] = Fork!ForkLine
    \/ forkPc["zad2"] = "wait" /\ forkPc["child"] \in {"return", "exited"} /\ BothLines
    \/ forkPc["zad2"] = "return" /\ forkPc["child"] = "exited" /\ BothLines
    \/ /\ forkPc["zad2"] = "exited" /\ forkPc["child"] = "exited"
       /\ printed \in {<<Fork!ForkLine, Fork!MaskLine>>, <<Fork!MaskLine, Fork!ForkLine>>}

ForkInOrder == ForkTypes /\ (~late /\ ~failedCall => LinesInOrder)

(* Every step of the two processes keeps it. *)
LEMMA ForkStep == ForkInOrder /\ [Fork!Next]_forkVars => ForkInOrder'
<1> SUFFICES ASSUME ForkInOrder, [Fork!Next]_forkVars PROVE ForkInOrder'
  OBVIOUS
<1> DEFINE M == Fork!MaskLine
           F == Fork!ForkLine
<1>0. /\ Append(<< >>, M) = <<M>> /\ Append(<< >>, F) = <<F>> /\ Append(<<M>>, F) = <<M, F>>
      /\ << >> \o <<F>> = <<F>> /\ <<F>> \o <<M>> = <<F, M>> /\ <<M, F>> \o << >> = <<M, F>>
  BY ShortSequences
<1> USE DEF ForkInOrder, ForkTypes, LinesInOrder, NoLine, MaskLineOut, BothLines, Fork!Process, Fork!Signal, Fork!Disposition
<1>1. CASE Fork!Mask
  BY <1>1 DEF Fork!Mask
<1>2. CASE Fork!check_mask
  <2>1. /\ forkPc["zad2"] = "check_mask" /\ UNCHANGED <<buffered, late, failedCall>>
        /\ sigaction' = [sigaction EXCEPT !["zad2"]["SIGUSR1"] = Fork!MaskLine]
    BY <1>2 DEF Fork!check_mask
  <2>2. sigaction' \in [Fork!Process -> [Fork!Signal -> Fork!Disposition]]
    BY <2>1
  <2>3. CASE forkPc' = [forkPc EXCEPT !["zad2"] = "killed"] /\ UNCHANGED <<stdout, printed>> /\ sigaction["zad2"]["SIGUSR2"] = "SIG_DFL"
    BY <2>1, <2>2, <2>3
  <2>4. CASE forkPc' = [forkPc EXCEPT !["zad2"] = "fork"] /\ Fork!printf("zad2", Fork!MaskLine)
    <3>1. ~late /\ ~failedCall => NoLine /\ forkPc["child"] = "none"
      BY <2>1
    <3>2. CASE buffered
      <4>1. printed' = printed /\ stdout' = [stdout EXCEPT !["zad2"] = Append(stdout["zad2"], Fork!MaskLine)]
        BY <2>4, <3>2 DEF Fork!printf
      <4>2. ~late /\ ~failedCall => MaskLineOut'
        BY <2>1, <3>1, <3>2, <4>1, <1>0
      <4> QED
        BY <2>1, <2>2, <2>4, <3>1, <4>1, <4>2
    <3>3. CASE ~buffered
      <4>1. printed' = Append(printed, Fork!MaskLine) /\ stdout' = stdout
        BY <2>4, <3>3 DEF Fork!printf
      <4>2. ~late /\ ~failedCall => MaskLineOut'
        BY <2>1, <3>1, <3>3, <4>1, <1>0
      <4> QED
        BY <2>1, <2>2, <2>4, <3>1, <4>1, <4>2
    <3> QED
      BY <3>2, <3>3
  <2> QED
    BY <1>2, <2>3, <2>4 DEF Fork!check_mask
<1>3. CASE Fork!Fork
  BY <1>3 DEF Fork!Fork, Fork!printf
<1>4. CASE Fork!Kill
  <2> DEFINE reaction == sigaction["child"]["SIGUSR1"]
             handled == forkPc["child"] \notin Fork!Ended /\ reaction \in {Fork!MaskLine, Fork!ForkLine}
  <2>1. /\ forkPc["zad2"] = "sleep" /\ UNCHANGED <<sigaction, buffered, failedCall>>
        /\ forkPc' = [forkPc EXCEPT !["zad2"] = "wait", !["child"] =
                IF @ \notin Fork!Ended /\ reaction = "SIG_DFL" THEN "killed"
                ELSE IF @ = "suspended" /\ handled THEN "return"
                ELSE @]
        /\ IF handled THEN Fork!printf("child", reaction) ELSE UNCHANGED <<stdout, printed>>
        /\ late' = (late \/ forkPc["child"] \in {"exec", "start", "ready"})
    BY <1>4 DEF Fork!Kill, Fork!Send
  <2>2. ForkTypes'
    <3>1. forkPc' \in [Fork!Process -> {"mask", "check_mask", "fork", "sleep", "wait", "return", "exited", "killed",
                                        "none", "exec", "start", "ready", "suspended"}]
      BY <2>1
    <3>2. stdout' = [p \in Fork!Process |-> stdout'[p]]
      BY <2>1 DEF Fork!printf
    <3> QED
      BY <2>1, <3>1, <3>2
  <2>3. ASSUME ~late', ~failedCall' PROVE LinesInOrder'
    <3>1. ~late /\ ~failedCall /\ forkPc["child"] \notin {"exec", "start", "ready"}
      BY <2>1, <2>3
    <3>2. /\ forkPc["child"] = "suspended" /\ MaskLineOut /\ stdout["child"] = << >>
          /\ reaction = Fork!ForkLine
      BY <2>1, <3>1
    <3>3. handled
      BY <3>2 DEF Fork!Ended
    <3>4. forkPc'["zad2"] = "wait" /\ forkPc'["child"] = "return"
      <4>1. reaction # "SIG_DFL" /\ forkPc["child"] \notin Fork!Ended
        BY <3>2 DEF Fork!ForkLine, Fork!Ended
      <4> HIDE DEF reaction, handled
      <4> QED
        BY <2>1, <3>2, <3>3, <4>1
    <3>5. Fork!printf("child", Fork!ForkLine)
      BY <2>1, <3>2, <3>3
    <3>6. BothLines'
      <4>1. CASE buffered
        BY <2>1, <3>2, <3>4, <3>5, <4>1, <1>0 DEF Fork!printf
      <4>2. CASE ~buffered
        BY <2>1, <3>2, <3>4, <3>5, <4>2, <1>0 DEF Fork!printf
      <4> QED
        BY <4>1, <4>2
    <3> QED
      BY <3>4, <3>6
  <2> QED
    BY <2>2, <2>3
<1>5. CASE Fork!Wait
  BY <1>5 DEF Fork!Wait, Fork!Ended
<1>6. CASE Fork!Exit("zad2")
  <2>1. /\ forkPc["zad2"] = "return" /\ forkPc' = [forkPc EXCEPT !["zad2"] = "exited"]
        /\ printed' = printed \o stdout["zad2"] /\ stdout' = [stdout EXCEPT !["zad2"] = << >>]
        /\ UNCHANGED <<sigaction, buffered, late, failedCall>>
    BY <1>6 DEF Fork!Exit, Fork!Flush
  <2>2. ForkTypes'
    BY <2>1
  <2>3. ASSUME ~late, ~failedCall PROVE LinesInOrder'
    <3>1. forkPc["child"] = "exited" /\ BothLines
      BY <2>1, <2>3
    <3>2. printed' \in {<<Fork!ForkLine, Fork!MaskLine>>, <<Fork!MaskLine, Fork!ForkLine>>}
      BY <2>1, <3>1, <1>0
    <3> QED
      BY <2>1, <3>1, <3>2
  <2> QED
    BY <2>1, <2>2, <2>3
<1>7. CASE Fork!Exec
  <2>1. forkPc["child"] = "exec" /\ UNCHANGED <<buffered, printed, late>>
    BY <1>7 DEF Fork!Exec
  <2>2. CASE /\ forkPc' = [forkPc EXCEPT !["child"] = "start"]
             /\ sigaction' = [sigaction EXCEPT !["child"] = [s \in Fork!Signal |->
                    IF @[s] = "SIG_IGN" THEN "SIG_IGN" ELSE "SIG_DFL"]]
             /\ stdout' = [stdout EXCEPT !["child"] = << >>] /\ UNCHANGED failedCall
    <3>1. ForkTypes'
      <4>1. sigaction' \in [Fork!Process -> [Fork!Signal -> Fork!Disposition]]
        BY <2>2
      <4> QED
        BY <2>2, <4>1
    <3>2. stdout'["zad2"] = stdout["zad2"] /\ stdout'["child"] = << >>
          /\ forkPc'["zad2"] = forkPc["zad2"] /\ forkPc'["child"] = "start"
      BY <2>2
    <3> QED
      BY <2>1, <2>2, <3>1, <3>2
  <2>3. CASE /\ forkPc' = [forkPc EXCEPT !["child"] = "return"] /\ failedCall' = TRUE
             /\ UNCHANGED <<sigaction, stdout>>
    BY <2>3
  <2> QED
    BY <1>7, <2>2, <2>3 DEF Fork!Exec
<1>8. CASE Fork!Register
  BY <1>8 DEF Fork!Register
<1>9. CASE Fork!Suspend
  BY <1>9 DEF Fork!Suspend
<1>10. CASE Fork!Exit("child")
  <2>1. /\ forkPc["child"] = "return" /\ forkPc' = [forkPc EXCEPT !["child"] = "exited"]
        /\ printed' = printed \o stdout["child"] /\ stdout' = [stdout EXCEPT !["child"] = << >>]
        /\ UNCHANGED <<sigaction, buffered, late, failedCall>>
    BY <1>10 DEF Fork!Exit, Fork!Flush
  <2>2. ForkTypes'
    BY <2>1
  <2>3. ASSUME ~late, ~failedCall PROVE LinesInOrder'
    <3>1. forkPc["zad2"] = "wait" /\ BothLines
      BY <2>1, <2>3
    <3>2. /\ stdout'["zad2"] = stdout["zad2"] /\ stdout'["child"] = << >>
          /\ forkPc'["child"] = "exited" /\ forkPc'["zad2"] = "wait"
      BY <2>1, <3>1
    <3>3. CASE buffered
      BY <2>1, <3>1, <3>2, <3>3, <1>0
    <3>4. CASE ~buffered
      BY <2>1, <3>1, <3>2, <3>4, <1>0
    <3> QED
      BY <3>3, <3>4
  <2> QED
    BY <2>1, <2>2, <2>3
<1>11. CASE UNCHANGED forkVars
  BY <1>11 DEF forkVars
<1> QED
  BY <1>1, <1>2, <1>3, <1>4, <1>5, <1>6, <1>7, <1>8, <1>9, <1>10, <1>11 DEF Fork!Next, Fork!ParentStep, Fork!ChildStep

(* Whether the output is a terminal or a pipe, an exercise that has ended in
   time and without a failing call has left each line exactly once
   (zad2.c:27-51, zad2.h:7-21). *)
THEOREM LineSafety == MCSpec => []Fork!OnceAtEnd
<1>1. MCInit => ForkInOrder
  BY DEF MCInit, Fork!Init, ForkInOrder, ForkTypes, LinesInOrder, NoLine, Fork!Process, Fork!Signal, Fork!Disposition
<1>2. [MCNext]_MCVars => [Fork!Next]_forkVars
  BY DEF MCNext, MCVars
<1>3. ForkInOrder => Fork!OnceAtEnd
  <2> SUFFICES ASSUME ForkInOrder, forkPc["zad2"] \in Fork!Ended, ~late, ~failedCall,
                      NEW line \in {Fork!MaskLine, Fork!ForkLine}
               PROVE  \E k \in DOMAIN printed : Fork!Lines(line) = {k}
    BY DEF Fork!OnceAtEnd
  <2>1. printed \in {<<Fork!ForkLine, Fork!MaskLine>>, <<Fork!MaskLine, Fork!ForkLine>>}
    BY DEF ForkInOrder, LinesInOrder, Fork!Ended
  <2> DEFINE M == Fork!MaskLine
             F == Fork!ForkLine
  <2>5. /\ DOMAIN <<M, F>> = 1 .. 2 /\ <<M, F>>[1] = M /\ <<M, F>>[2] = F
        /\ DOMAIN <<F, M>> = 1 .. 2 /\ <<F, M>>[1] = F /\ <<F, M>>[2] = M
    BY ShortSequences
  <2>6. M # F /\ (line = M \/ line = F)
    BY DEF Fork!MaskLine, Fork!ForkLine
  <2> HIDE DEF M, F
  <2>2. DOMAIN printed = 1 .. 2 /\ printed[1] # printed[2] /\ (line = printed[1] \/ line = printed[2])
    <3>1. printed = <<F, M>> \/ printed = <<M, F>>
      BY <2>1 DEF F, M
    <3> QED
      BY <2>5, <2>6, <3>1
  <2>3. PICK k \in 1 .. 2 : line = printed[k]
    BY <2>2
  <2>4. Fork!Lines(line) = {k}
    BY <2>2, <2>3 DEF Fork!Lines
  <2> QED
    BY <2>2, <2>4
<1> QED
  BY <1>1, <1>2, <1>3, ForkStep, PTL DEF MCSpec

-----------------------------------------------------------------------------
(* kolokwium1, zad3: the bytes of the file. *)

PipeTypes ==
    /\ pipePc \in [Pipe!Process -> {"none", "createpipe", "fork", "close_read", "fread", "write", "close_write",
                                    "waitpid", "read", "exit", "done"}]
    /\ pipePc["parent"] \notin {"none", "read", "exit"}
    /\ block_size \in Nat \ {0} /\ size \in Nat \cup {Pipe!Missing} /\ unread \in Int
    /\ (size # Pipe!Missing => unread \in Nat) /\ bytesRead \in Nat
    /\ pipe \in Nat /\ bytes_total \in Nat /\ readEnd \subseteq Pipe!Process /\ writeEnd \subseteq Pipe!Process

(* Who has closed the end for writing, and that the pipe has room for a block. *)
EndsInOrder ==
    /\ pipePc["parent"] = "createpipe" => writeEnd = {} /\ ~failedPipe /\ pipe = 0 /\ bytes_total = 0
    /\ pipePc["parent"] \in {"waitpid", "done"} => "parent" \notin writeEnd
    /\ pipePc["child"] # "close_write" => "child" \notin writeEnd
    /\ pipePc["parent"] \notin {"createpipe", "done"} => block_size <= CAPACITY
    /\ pipePc["parent"] = "write" => bytesRead <= block_size

(* If no call fails, every byte of the file is still unread, in the block that
   is being written, in the pipe or counted; the child sees the end of the file
   with all of them counted. *)
BytesInOrder ==
    /\ size \in Nat /\ unread \in Nat
    /\ unread + (IF pipePc["parent"] = "write" THEN bytesRead ELSE 0) + pipe + bytes_total = size
    /\ pipePc["parent"] \in {"close_write", "waitpid", "done"} => unread = 0
    /\ pipePc["parent"] \in {"close_read", "fread", "write", "close_write"} => "parent" \in writeEnd
    /\ pipePc["parent"] \in {"createpipe", "fork"} <=> pipePc["child"] = "none"
    /\ pipePc["child"] \in {"none", "close_write", "read", "exit", "done"}
    /\ pipePc["child"] \in {"close_write", "read"} => "child" \in readEnd
    /\ pipePc["child"] \in {"exit", "done"} =>
         pipePc["parent"] \in {"waitpid", "done"} /\ bytes_total = size
    /\ pipePc["child"] = "done" => retval = 256
    /\ pipePc["parent"] = "done" => verdict = "PASS"

PipeInOrder == PipeTypes /\ EndsInOrder /\ (~failedPipe => BytesInOrder)

(* Every call of the two processes keeps it. *)
LEMMA PipeStep == PipeInOrder /\ [Pipe!Next]_pipeVars => PipeInOrder'
<1> SUFFICES ASSUME PipeInOrder, [Pipe!Next]_pipeVars PROVE PipeInOrder'
  OBVIOUS
<1> USE PipeAssumption DEF PipeInOrder, PipeTypes, EndsInOrder, BytesInOrder, Pipe!Process, Pipe!Missing, Pipe!file, Pipe!ends
<1>1. CASE Pipe!createpipe
  <2>1. CASE /\ block_size' \in BlockSizes /\ size' \in FileSizes \cup {Pipe!Missing} /\ unread' = size'
             /\ writeEnd' = {"parent"} /\ pipePc' = [pipePc EXCEPT !["parent"] = "fork"]
             /\ readEnd' = {"parent"} /\ failedPipe' = (size' = Pipe!Missing)
    <3>1. block_size' \in Nat \ {0} /\ block_size' <= CAPACITY /\ size' \in Nat \cup {Pipe!Missing}
      BY <2>1
    <3>2. pipePc["parent"] = "createpipe" /\ UNCHANGED <<bytesRead, pipe, bytes_total, retval, verdict>>
      BY <1>1 DEF Pipe!createpipe
    <3>3. PipeTypes' /\ EndsInOrder'
      BY <2>1, <3>1, <3>2
    <3>4. pipe = 0 /\ bytes_total = 0 /\ ~failedPipe
      BY <3>2
    <3>5. ~failedPipe' => size' \in Nat
      BY <2>1
    <3>6. ~failedPipe' => BytesInOrder'
      <4>1. pipePc["child"] = "none"
        BY <3>2, <3>4
      <4>2. pipePc'["parent"] = "fork" /\ pipePc'["child"] = "none"
        BY <2>1, <4>1
      <4>3. ~failedPipe' => unread' \in Nat /\ unread' + pipe' + bytes_total' = size'
        <5>1. pipe' = 0 /\ bytes_total' = 0 /\ unread' = size'
          BY <2>1, <3>2, <3>4
        <5> HIDE DEF PipeInOrder
        <5> QED
          BY <3>5, <5>1
      <4> QED
        BY <3>5, <4>2, <4>3
    <3> QED
      BY <3>3, <3>6
  <2>2. CASE pipePc' = [pipePc EXCEPT !["parent"] = "done"] /\ failedPipe' = TRUE /\ UNCHANGED <<block_size, size, unread, readEnd, writeEnd>>
    BY <1>1, <2>2 DEF Pipe!createpipe
  <2> QED
    BY <1>1, <2>1, <2>2 DEF Pipe!createpipe
<1>2. CASE Pipe!Fork
  BY <1>2 DEF Pipe!Fork
<1>3. CASE Pipe!CloseRead
  BY <1>3 DEF Pipe!CloseRead
<1>4. CASE Pipe!ReadBlock
  <2>1. /\ pipePc["parent"] = "fread"
        /\ bytesRead' = IF size = Pipe!Missing THEN 0 ELSE Pipe!Least(block_size, unread)
        /\ unread' = unread - bytesRead'
        /\ pipePc' = [pipePc EXCEPT !["parent"] = IF bytesRead' > 0 THEN "write" ELSE "close_write"]
        /\ UNCHANGED <<block_size, size, pipe, readEnd, writeEnd, bytes_total, retval, verdict, failedPipe>>
    BY <1>4 DEF Pipe!ReadBlock
  <2>2. /\ bytesRead' \in Nat /\ bytesRead' <= block_size /\ unread' \in Int
        /\ size # Pipe!Missing => unread' \in Nat
    BY <2>1 DEF Pipe!Least
  <2>3. PipeTypes' /\ EndsInOrder'
    BY <2>1, <2>2
  <2>4. ~failedPipe => unread' \in Nat /\ (~(bytesRead' > 0) => unread' = 0)
    BY <2>1 DEF Pipe!Least
  <2>5. ASSUME ~failedPipe PROVE BytesInOrder'
    <3>1. CASE bytesRead' > 0
      BY <2>1, <2>2, <2>4, <2>5, <3>1
    <3>2. CASE bytesRead' = 0
      <4>1. ~(bytesRead' > 0) /\ unread' = 0 /\ unread = 0
        BY <2>1, <2>4, <2>5, <3>2
      <4>2. pipePc' = [pipePc EXCEPT !["parent"] = "close_write"]
        BY <2>1, <4>1
      <4> QED
        BY <2>1, <2>5, <4>1, <4>2
    <3> QED
      BY <2>2, <3>1, <3>2
  <2> QED
    BY <2>1, <2>3, <2>5
<1>5. CASE Pipe!WriteBlock
  <2>1. CASE pipe' = pipe + bytesRead /\ pipePc' = [pipePc EXCEPT !["parent"] = "fread"] /\ UNCHANGED writeEnd
    BY <1>5, <2>1 DEF Pipe!WriteBlock
  <2>2. CASE /\ readEnd = {} /\ pipePc' = [pipePc EXCEPT !["parent"] = "done"]
             /\ writeEnd' = writeEnd \ {"parent"} /\ UNCHANGED pipe
    BY <1>5, <2>2 DEF Pipe!WriteBlock
  <2> QED
    BY <1>5, <2>1, <2>2 DEF Pipe!WriteBlock
<1>6. CASE Pipe!CloseWrite("parent")
  BY <1>6 DEF Pipe!CloseWrite
<1>7. CASE Pipe!Wait
  BY <1>7 DEF Pipe!Wait
<1>8. CASE Pipe!CloseWrite("child")
  BY <1>8 DEF Pipe!CloseWrite
<1>9. CASE Pipe!ReadPipe
  <2>1. /\ pipePc["child"] = "read"
        /\ UNCHANGED <<block_size, size, unread, bytesRead, readEnd, writeEnd, retval, verdict, failedPipe>>
    BY <1>9 DEF Pipe!ReadPipe
  <2>2. CASE /\ pipePc' = pipePc /\ pipe' = pipe - Pipe!Least(block_size, pipe)
             /\ bytes_total' = bytes_total + Pipe!Least(block_size, pipe)
    <3>1. pipe' \in Nat /\ bytes_total' \in Nat /\ pipe' + bytes_total' = pipe + bytes_total
      BY <2>2 DEF Pipe!Least
    <3> QED
      BY <2>1, <2>2, <3>1
  <2>3. CASE /\ pipe = 0 /\ writeEnd = {} /\ pipePc' = [pipePc EXCEPT !["child"] = "exit"]
             /\ UNCHANGED <<pipe, bytes_total>>
    <3>1. ~failedPipe => pipePc["parent"] \in {"waitpid", "done"} /\ bytes_total = size
      BY <2>1, <2>3
    <3> QED
      BY <2>1, <2>3, <3>1
  <2> QED
    BY <1>9, <2>2, <2>3 DEF Pipe!ReadPipe
<1>10. CASE Pipe!ExitChild
  BY <1>10 DEF Pipe!ExitChild
<1>11. CASE UNCHANGED pipeVars
  BY <1>11 DEF pipeVars
<1> QED
  BY <1>1, <1>2, <1>3, <1>4, <1>5, <1>6, <1>7, <1>8, <1>9, <1>10, <1>11 DEF Pipe!Next, Pipe!ParentStep, Pipe!ChildStep

(* It holds at first, and MCSpec takes no other steps. *)
LEMMA PipeInvariance == MCSpec => []PipeInOrder
<1>1. MCInit => PipeInOrder
  BY DEF MCInit, Pipe!Init, PipeInOrder, PipeTypes, EndsInOrder, BytesInOrder, Pipe!Process, Pipe!Missing
<1>2. [MCNext]_MCVars => [Pipe!Next]_pipeVars
  BY DEF MCNext, MCVars
<1> QED
  BY <1>1, <1>2, PipeStep, PTL DEF MCSpec

(* Whatever the sizes of the file and of the blocks, a writing in which no call
   has failed passes (zad3.c:28-33, zad3.h:47-64). *)
THEOREM PassSafety == MCSpec => []Pipe!EndsWithPass
<1>1. PipeInOrder => Pipe!EndsWithPass
  BY DEF PipeInOrder, BytesInOrder, Pipe!EndsWithPass
<1> QED
  BY <1>1, PipeInvariance, PTL

(* Writer and reader never wait for each other, also if a call has failed, for
   any pipe that holds a block (zad3.c:28-33, zad3.h:47-64). *)
THEOREM WaitSafety == MCSpec => []Pipe!NeverBothWait
<1>1. PipeInOrder => Pipe!NeverBothWait
  <2> SUFFICES ASSUME PipeInOrder, Pipe!ParentWaits, Pipe!ChildWaits PROVE FALSE
    BY DEF Pipe!NeverBothWait
  <2>1. PipeTypes /\ EndsInOrder /\ pipe = 0 /\ pipePc["child"] = "read"
    BY DEF PipeInOrder, Pipe!ChildWaits
  <2>2. CASE pipePc["parent"] = "write" /\ pipe + bytesRead > CAPACITY
    BY <2>1, <2>2, PipeAssumption DEF PipeTypes, EndsInOrder
  <2>3. CASE pipePc["parent"] = "waitpid"
    <3>1. "parent" \notin writeEnd /\ "child" \notin writeEnd
      BY <2>1, <2>3 DEF EndsInOrder
    <3> QED
      BY <2>1, <3>1 DEF PipeTypes, Pipe!ChildWaits, Pipe!Process
  <2> QED
    BY <2>2, <2>3 DEF Pipe!ParentWaits
<1> QED
  BY <1>1, PipeInvariance, PTL
=============================================================================
