---------------------------------- MODULE Cpu ---------------------------------
(* The CPU simulator (Operating Systems/Semester Project: cpu.cpp,           *)
(* memory.cpp, and the loop of main.cpp), which runs a program that Parser   *)
(* has read.  An action executes one instruction.                            *)
(*                                                                           *)
(* mem holds the cells ever written; every other cell of the memory is zero. *)
(* An instruction is an operator from the state of the machine before it to  *)
(* the state after it; a C++ exception ends it early.                        *)
EXTENDS Integers, Sequences, Parser

CONSTANTS
  Texts,           (* the programs, each a sequence of lines                  *)
  MaxCycles        (* bound: cycles after which the simulator stops (100000)  *)

VARIABLES
  mem, kernelMode, halted,
  code,            (* the instruction map *)
  cycles           (* cycleCount          *)

cvars == <<mem, kernelMode, halted, code, cycles>>

MemorySize == 10000
UserStart  == 1000
PC == 0
SP == 1
SYSCALL_RESULT == 2
INSTR_COUNT == 3
CurrentThread == 22

Cells == 0 .. MemorySize - 1
ReadIn(m, a) == IF a \in DOMAIN m THEN m[a] ELSE 0
WriteIn(m, a, v) == [b \in DOMAIN m \cup {a} |-> IF b = a THEN v ELSE m[b]]

(* Faulty variant of IsAddressValid, no part of the specification: the mode  *)
(* is not asked.                                                             *)
IsAddressValidAlways(a, kernel) == a \in Cells

IsAddressValid(a, kernel) == a \in Cells /\ (kernel \/ a <= 20 \/ a >= UserStart)

TypeOK ==
  /\ DOMAIN mem \subseteq Cells /\ \A a \in DOMAIN mem : mem[a] \in Int
  /\ kernelMode \in BOOLEAN /\ halted \in BOOLEAN
  /\ \A a \in DOMAIN code : code[a].op \in DOMAIN Arity \cup {"SYSCALL"}
  /\ cycles \in 0 .. MaxCycles + 1

Init ==
  /\ mem = <<>> /\ kernelMode = TRUE /\ halted = TRUE /\ code = <<>> /\ cycles = 0

(* loadProgram: the data is written, then the registers are reset. *)
LoadProgram ==
  /\ code = <<>>
  /\ \E text \in Texts :
       /\ code' = ProcessInstructionLines(text)
       /\ LET data == ProcessDataLines(text)
          IN  mem' = WriteIn(WriteIn(WriteIn(data, SYSCALL_RESULT, 0), INSTR_COUNT, 0), PC, 0)
  /\ halted' = FALSE /\ kernelMode' = TRUE
  /\ UNCHANGED cycles
-----------------------------------------------------------------------------
(* The machine as an instruction sees it. *)
Machine  == [mem |-> mem, kernel |-> kernelMode, halted |-> FALSE, thrown |-> FALSE]
Get(c, a)    == ReadIn(c.mem, a)
Put(c, a, v) == [c EXCEPT !.mem = WriteIn(@, a, v)]
Valid(c, addresses) == \A a \in addresses : IsAddressValid(a, c.kernel)
Halt(c)  == [c EXCEPT !.halted = TRUE]
Throw(c) == [c EXCEPT !.halted = TRUE, !.thrown = TRUE]
Jump(c, a) == Put(c, PC, a)

(* The stack grows downward. *)
Push(c, v) ==
  LET sp == Get(c, SP) - 1
  IN  IF Valid(c, {sp}) THEN Put(Put(c, sp, v), SP, sp) ELSE Halt(c)

(* Faulty variant of ExecuteSUBI, no part of the specification: it subtracts *)
(* the other way round.                                                      *)
ExecuteSUBIReversed(c, x, y) ==
  IF Valid(c, {x, y}) THEN Put(c, y, Get(c, y) - Get(c, x)) ELSE Halt(c)

ExecuteSET(c, x, y) == IF Valid(c, {y}) THEN Put(c, y, x) ELSE Halt(c)
ExecuteCPY(c, x, y) == IF Valid(c, {x, y}) THEN Put(c, y, Get(c, x)) ELSE Halt(c)
ExecuteCPYI(c, x, y) ==
  IF Valid(c, {x, y}) /\ Valid(c, {Get(c, x)}) THEN Put(c, y, Get(c, Get(c, x))) ELSE Halt(c)
ExecuteCPYI2(c, x, y) ==
  IF Valid(c, {x, y}) /\ Valid(c, {Get(c, x), Get(c, y)})
  THEN Put(c, Get(c, y), Get(c, Get(c, x))) ELSE Halt(c)
ExecuteADD(c, x, v) == IF Valid(c, {x}) THEN Put(c, x, Get(c, x) + v) ELSE Halt(c)
ExecuteADDI(c, x, y) == IF Valid(c, {x, y}) THEN Put(c, x, Get(c, x) + Get(c, y)) ELSE Halt(c)
ExecuteSUBI(c, x, y) == IF Valid(c, {x, y}) THEN Put(c, y, Get(c, x) - Get(c, y)) ELSE Halt(c)
ExecuteJIF(c, x, target) ==
  IF ~Valid(c, {x}) THEN Halt(c) ELSE IF Get(c, x) <= 0 THEN Jump(c, target) ELSE c
ExecutePUSH(c, x) == IF Valid(c, {x}) THEN Push(c, Get(c, x)) ELSE Halt(c)
ExecutePOP(c, x) ==
  LET sp == Get(c, SP)
  IN  IF Valid(c, {x, sp}) THEN Put(Put(c, x, Get(c, sp)), SP, sp + 1) ELSE Halt(c)
ExecuteCALL(c, target) ==
  LET p == Push(c, Get(c, PC) + 1) IN IF p.halted THEN p ELSE Jump(p, target)
ExecuteRET(c) ==
  LET sp == Get(c, SP)
  IN  IF Valid(c, {sp}) THEN Put(Jump(c, Get(c, sp)), SP, sp + 1) ELSE Halt(c)

(* To user mode; with an operand, to the address that is kept there. *)
ExecuteUSER(c, args) ==
  LET user == [c EXCEPT !.kernel = FALSE]
  IN  IF args = <<>> THEN user
      ELSE IF IsAddressValid(args[1], TRUE) /\ Valid(user, {Get(c, args[1])})
           THEN Jump(user, Get(c, args[1])) ELSE Halt(user)

(* PRN blocks the current thread, which goes on to its next instruction; HLT *)
(* and YIELD save the PC in cell 4 and enter the kernel.  A PRN without an   *)
(* operand reads past a vector: the model ends the program there.            *)
ExecuteSYSCALL(c, sys, args) ==
  LET k     == [c EXCEPT !.kernel = TRUE]
      entry == 500 + 10 * Get(c, CurrentThread)
      next  == Get(c, PC) + 1
      blocked == Jump(Put(Put(k, entry + 3, 2), entry + 1, Get(c, INSTR_COUNT)), next)
  IN  CASE sys = "PRN" /\ args # <<>> /\ args[1] \in Cells -> [blocked EXCEPT !.kernel = FALSE]
        [] sys = "PRN" /\ ~(args # <<>> /\ args[1] \in Cells) -> Throw(blocked)
        [] sys = "HLT"   -> Jump(Put(k, 4, next), 430)
        [] sys = "YIELD" -> Jump(Put(k, 4, next), 400)
        [] OTHER         -> Halt(k)

Execute1(c, i, sys) ==
  LET x == i.args[1]   y == i.args[2]
  IN  IF i.op \in DOMAIN Arity \ {"USER", "RET", "HLT"} /\ Len(i.args) # Arity[i.op] THEN Throw(c)
      ELSE CASE i.op = "SET"   -> ExecuteSET(c, x, y)
             [] i.op = "CPY"   -> ExecuteCPY(c, x, y)
             [] i.op = "CPYI"  -> ExecuteCPYI(c, x, y)
             [] i.op = "CPYI2" -> ExecuteCPYI2(c, x, y)
             [] i.op = "ADD"   -> ExecuteADD(c, x, y)
             [] i.op = "ADDI"  -> ExecuteADDI(c, x, y)
             [] i.op = "SUBI"  -> ExecuteSUBI(c, x, y)
             [] i.op = "JIF"   -> ExecuteJIF(c, x, y)
             [] i.op = "PUSH"  -> ExecutePUSH(c, x)
             [] i.op = "POP"   -> ExecutePOP(c, x)
             [] i.op = "CALL"  -> ExecuteCALL(c, x)
             [] i.op = "RET"   -> ExecuteRET(c)
             [] i.op = "HLT"   -> Halt(c)
             [] i.op = "USER"  -> ExecuteUSER(c, i.args)
             [] OTHER          -> ExecuteSYSCALL(c, sys, i.args)
-----------------------------------------------------------------------------
(* The instruction at pc is counted for the current thread if it is in that  *)
(* thread's segment.                                                         *)
Counted(c) ==
  LET t == Get(c, CurrentThread)   count == 502 + 10 * t
  IN  IF Get(c, PC) \div 1000 = t THEN Put(c, count, Get(c, count) + 1) ELSE c

(* Then the PC moves on, unless the instruction has changed it. *)
Advanced(c, pc) ==
  LET n == Put(c, INSTR_COUNT, Get(c, INSTR_COUNT) + 1)
  IN  IF Get(n, PC) = pc THEN Jump(n, pc + 1) ELSE n

Execute ==
  /\ ~halted /\ cycles <= MaxCycles
  /\ LET c  == Counted(Machine)
         pc == Get(c, PC)
     IN  IF pc \notin DOMAIN code
         THEN halted' = TRUE /\ mem' = c.mem /\ UNCHANGED <<kernelMode, cycles>>
         ELSE \E sys \in IF code[pc].sys = "unset" THEN Syscalls \cup {"other"} ELSE {code[pc].sys} :
                LET done == Execute1(c, code[pc], sys)
                IN  /\ halted' = done.halted
                    /\ kernelMode' = done.kernel
                    /\ mem' = IF done.thrown THEN done.mem ELSE Advanced(done, pc).mem
                    /\ cycles' = IF done.halted THEN cycles ELSE cycles + 1
  /\ UNCHANGED code

Next == LoadProgram \/ Execute
Spec == Init /\ [][Next]_cvars
=============================================================================
