---------------------------- MODULE OperatingSystem ---------------------------
(* The simulated CPU as it runs the operating system of Kernel and the       *)
(* programs of its threads: what the two promise together.                   *)
EXTENDS Cpu, Kernel

(* Properties. *)

Field(t, k) == ReadIn(mem, 500 + 10 * t + k)
State(t) == Field(t, 3)
Threads == 1 .. ReadIn(mem, 21)

(* What an instruction in user mode changes of the memory of the kernel is   *)
(* the count and, by a PRN, the block time and the state of the current      *)
(* thread, whichever instruction it is and wherever its operands point       *)
(* (memory.cpp:21-27, cpu.cpp:65-68, 400-409).                             *)
KernelMemoryKept ==
  [][~kernelMode =>
       LET entry == 500 + 10 * ReadIn(mem, CurrentThread) IN
       \A a \in (21 .. UserStart - 1) \ (entry + 1 .. entry + 3) :
         ReadIn(mem', a) = ReadIn(mem, a)]_cvars

(* The scheduler goes round: the thread it is about to run is not terminated *)
(* and none between the last one that ran and this one is ready; one that a  *)
(* PRN has blocked was so for 100 instructions (os.txt:310-369).             *)
SchedulesNext ==
  LET new  == ReadIn(mem, 23)
      last == ReadIn(mem, CurrentThread)
      between == IF last < new THEN last + 1 .. new - 1 ELSE Threads \ (new .. last)
  IN  ~halted /\ ReadIn(mem, PC) = 780 =>
        /\ new \in Threads /\ State(new) # 3
        /\ State(new) = 2 => ReadIn(mem, INSTR_COUNT) - Field(new, 1) >= 100
        /\ \A t \in between \cap Threads : State(t) # 0

(* The kernel halts the machine only when every thread has terminated        *)
(* (os.txt:274-280, 377).                                                    *)
KernelHaltsLast ==
  halted /\ code # <<>> /\ ReadIn(mem, PC) < UserStart => \A t \in Threads : State(t) = 3
=============================================================================
