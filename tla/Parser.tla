-------------------------------- MODULE Parser --------------------------------
(* The program reader of the CPU simulator (Operating Systems/Semester       *)
(* Project, parser.cpp).  A line is the sequence of its words, the comment   *)
(* taken off; a section marker is one word.  NotANumber stands, where a      *)
(* number is expected, for a word from which stol and stoul read none.       *)
EXTENDS Integers, Sequences, FiniteSetsExt, TLC

(* How many operands an instruction takes from its line. *)
Arity ==
  [SET |-> 2, CPY |-> 2, CPYI |-> 2, CPYI2 |-> 2, ADD |-> 2, ADDI |-> 2, SUBI |-> 2,
   JIF |-> 2, PUSH |-> 1, POP |-> 1, CALL |-> 1, RET |-> 0, HLT |-> 0, USER |-> 1]

Syscalls == {"PRN", "HLT", "YIELD"}

(* The operands from the n words after word k: all of them or, if some are   *)
(* missing, none.                                                            *)
Operands(line, k, n) == IF Len(line) >= k + n THEN SubSeq(line, k + 1, k + n) ELSE <<>>

NotANumber == 10^9
AllNumbers(words) == \A i \in DOMAIN words : words[i] # NotANumber

(* The instruction of a line, as a set: empty if the line is refused.  A     *)
(* SYSCALL without a type leaves the type uninitialised.                     *)
InstructionOf(line) ==
  LET op == line[2]
      Instr(sys, args) ==
        IF AllNumbers(<<line[1]>> \o args) THEN {[op |-> op, sys |-> sys, args |-> args]} ELSE {}
  IN  IF op \in DOMAIN Arity THEN Instr("none", Operands(line, 2, Arity[op]))
      ELSE IF op # "SYSCALL" THEN {}
      ELSE IF Len(line) < 3 THEN Instr("unset", <<>>)
      ELSE IF line[3] \notin Syscalls THEN {}
      ELSE Instr(line[3], Operands(line, 3, IF line[3] = "PRN" THEN 1 ELSE 0))

Begin == [data |-> "Begin Data Section", code |-> "Begin Instruction Section"]
End   == [data |-> "End Data Section", code |-> "End Instruction Section"]

(* The lines of a section that are not skipped: a section lasts until it is  *)
(* ended or another one begins.                                              *)
LinesIn(lines, section) ==
  {i \in DOMAIN lines :
     LET begun == {j \in 1 .. i - 1 : lines[j] \in {<<Begin.data>>, <<Begin.code>>}}
     IN  /\ Len(lines[i]) >= 2 /\ begun # {}
         /\ lines[Max(begun)] = <<Begin[section]>>
         /\ \A j \in Max(begun) .. i : lines[j] # <<End[section]>>}

(* Of two lines for one address the later one counts. *)
LastFor(lines, is, address) == lines[Max({i \in is : lines[i][1] = address})]

ProcessDataLines(lines) ==
  LET is == {i \in LinesIn(lines, "data") : AllNumbers(SubSeq(lines[i], 1, 2))}
  IN  [a \in {lines[i][1] : i \in is} |-> LastFor(lines, is, a)[2]]

ProcessInstructionLines(lines) ==
  LET is == {i \in LinesIn(lines, "code") : InstructionOf(lines[i]) # {}}
  IN  [a \in {lines[i][1] : i \in is} |->
         CHOOSE instr \in InstructionOf(LastFor(lines, is, a)) : TRUE]
=============================================================================
