--------------------------------- MODULE Kernel --------------------------------
(* The text of the operating system of Operating Systems/Semester Project    *)
(* (os.txt), a program of the simulated CPU: a scheduler, the handlers of    *)
(* two system calls and a table of threads, 500 + 10 * id the entry of       *)
(* thread id.                                                                *)
EXTENDS Integers, SequencesExt, Parser

(* The instructions of the kernel, each at its address: the handlers of      *)
(* YIELD (400) and HLT (430), and the scheduler (700).                       *)
Handlers == <<
  <<0, "SET", 700, 0>>, <<400, "CPY", 22, 50>>, <<401, "SET", 10, 51>>, <<402, "SET", 0, 52>>,
  <<403, "CPY", 50, 53>>, <<404, "JIF", 53, 408>>, <<405, "ADDI", 52, 51>>,
  <<406, "ADD", 53, -1>>, <<407, "JIF", 24, 404>>, <<408, "ADD", 52, 500>>,
  <<409, "ADD", 52, 3>>, <<410, "CPYI", 52, 60>>, <<411, "SET", 2, 61>>, <<412, "SUBI", 61, 60>>,
  <<413, "JIF", 60, 420>>, <<414, "JIF", 24, 417>>, <<417, "SET", 0, 54>>,
  <<418, "SET", 54, 55>>, <<419, "CPYI2", 55, 52>>, <<420, "CPY", 4, 53>>, <<421, "ADD", 52, 1>>,
  <<422, "SET", 53, 55>>, <<423, "CPYI2", 55, 52>>, <<424, "CPY", 1, 53>>, <<425, "ADD", 52, 1>>,
  <<426, "SET", 53, 55>>, <<427, "CPYI2", 55, 52>>, <<428, "JIF", 24, 700>>,
  <<430, "CPY", 22, 50>>, <<431, "SET", 10, 51>>, <<432, "SET", 0, 52>>, <<433, "CPY", 50, 53>>,
  <<434, "JIF", 53, 438>>, <<435, "ADDI", 52, 51>>, <<436, "ADD", 53, -1>>,
  <<437, "JIF", 24, 434>>, <<438, "ADD", 52, 500>>, <<439, "ADD", 52, 3>>, <<440, "SET", 3, 54>>,
  <<441, "SET", 54, 55>>, <<442, "CPYI2", 55, 52>>, <<443, "ADD", 201, 1>>,
  <<444, "CPY", 201, 50>>, <<445, "CPY", 21, 51>>, <<446, "SUBI", 51, 50>>,
  <<447, "JIF", 50, 449>>, <<448, "JIF", 24, 700>>, <<449, "HLT">>
>>

Scheduler == <<
  <<700, "ADD", 23, 1>>,
  <<701, "CPY", 23, 50>>, <<702, "CPY", 21, 51>>, <<703, "SUBI", 50, 51>>,
  <<704, "JIF", 51, 715>>, <<705, "SET", 1, 23>>, <<706, "JIF", 24, 715>>, <<715, "SET", 0, 26>>,
  <<716, "SET", 0, 25>>, <<717, "JIF", 24, 720>>, <<720, "ADD", 25, 1>>, <<721, "CPY", 25, 50>>,
  <<722, "CPY", 21, 51>>, <<723, "SUBI", 51, 50>>, <<724, "JIF", 50, 902>>,
  <<725, "JIF", 24, 730>>, <<730, "CPY", 23, 50>>, <<731, "SET", 10, 51>>, <<732, "SET", 0, 52>>,
  <<733, "CPY", 50, 53>>, <<734, "JIF", 53, 738>>, <<735, "ADDI", 52, 51>>,
  <<736, "ADD", 53, -1>>, <<737, "JIF", 24, 734>>, <<738, "ADD", 52, 500>>,
  <<739, "CPY", 52, 53>>, <<740, "ADD", 53, 3>>, <<741, "CPYI", 53, 54>>, <<742, "SET", 0, 55>>,
  <<743, "SUBI", 54, 55>>, <<744, "JIF", 55, 768>>, <<745, "SET", 3, 55>>,
  <<746, "CPYI", 53, 56>>, <<747, "SUBI", 55, 56>>, <<748, "JIF", 56, 700>>,
  <<749, "SET", 2, 55>>, <<750, "CPYI", 53, 56>>, <<751, "SUBI", 55, 56>>,
  <<752, "JIF", 56, 754>>, <<753, "JIF", 24, 700>>, <<754, "ADD", 53, -2>>,
  <<755, "CPYI", 53, 54>>, <<756, "CPY", 3, 55>>, <<757, "SUBI", 55, 54>>,
  <<758, "SET", 100, 56>>, <<759, "SUBI", 56, 54>>, <<760, "JIF", 54, 762>>,
  <<761, "JIF", 24, 700>>, <<762, "SET", 0, 54>>, <<763, "ADD", 53, 2>>, <<764, "CPYI", 53, 54>>,
  <<765, "JIF", 24, 768>>, <<768, "SET", 1, 26>>, <<769, "CPY", 52, 53>>,
  <<770, "JIF", 24, 780>>, <<780, "CPY", 23, 22>>, <<781, "ADD", 53, 3>>, <<782, "SET", 1, 54>>,
  <<783, "SET", 54, 55>>, <<784, "CPYI2", 55, 53>>, <<785, "ADD", 53, 2>>,
  <<786, "CPY", 53, 50>>, <<787, "CPYI", 50, 1>>, <<788, "ADD", 53, -4>>, <<789, "CPY", 3, 54>>,
  <<790, "CPY", 53, 50>>, <<791, "SET", 50, 55>>, <<792, "CPYI2", 55, 50>>,
  <<793, "ADD", 53, 3>>, <<794, "CPYI", 53, 19>>, <<795, "ADD", 200, 1>>, <<796, "USER", 19>>,
  <<902, "HLT">>
>>

(* Faulty variant of KernelText, no part of the specification: the test for  *)
(* ready threads lets every thread pass.                                     *)
KernelTextReady ==
  Handlers \o [i \in DOMAIN Scheduler |->
    IF Scheduler[i][1] = 742 THEN <<742, "SET", 3, 55>> ELSE Scheduler[i]]

KernelText == Handlers \o Scheduler

(* Cells that are not zero at the start: the stack pointer, the number of    *)
(* threads and the entries of the table.                                     *)
KernelData(n) ==
  <<<<1, 100>>, <<21, n>>, <<503, 1>>, <<505, 100>>>> \o
  FlattenSeq([t \in 1 .. n |->
    <<<<500 + 10 * t, t>>, <<504 + 10 * t, 1000 * t>>, <<505 + 10 * t, 1000 * t + 100>>>>])

(* A text of the kernel and the programs of its threads. *)
TextOf(threads) ==
  <<<<Begin.data>>>> \o KernelData(Len(threads)) \o <<<<End.data>>>> \o
  <<<<Begin.code>>>> \o KernelText \o FlattenSeq(threads) \o
  <<<<End.code>>>>
=============================================================================
