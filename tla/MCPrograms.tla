------------------------------ MODULE MCPrograms ------------------------------
(* Model checking of Programs. *)
EXTENDS Programs, MCBank

Krn == INSTANCE Kernel

(* Programs for the simulated machine, each at the address b of its thread:  *)
(* one prints, one calls, one writes where it may not, one has lines that    *)
(* the parser or the CPU refuses, one leaves out the type of a system call,  *)
(* one just ends.                                                            *)
Printing(b) ==
  <<<<b, "SYSCALL", "PRN", b + 50>>, <<b + 1, "SYSCALL", "YIELD">>,
    <<b + 2, "SYSCALL", "PRN", 30>>, <<b + 3, "SYSCALL", "HLT">>>>
Calling(b) ==
  <<<<b, "CALL", b + 10>>, <<b + 1, "SYSCALL", "HLT">>, <<b + 10, "PUSH", 1>>,
    <<b + 11, "POP", b + 50>>, <<b + 12, "SYSCALL", "YIELD">>, <<b + 13, "RET">>>>
Trespassing(b) ==
  <<<<b, "SYSCALL", "YIELD">>, <<b + 1, "SET", 0, 21>>, <<b + 2, "SYSCALL", "HLT">>>>
Malformed(b) == <<<<b, "ADD", 3>>, <<b + 1, "SYSCALL", "HLT">>, <<Krn!NotANumber, "HLT">>>>
Untyped(b) ==
  <<<<b, "SYSCALL">>, <<b + 1, "USER">>, <<b + 2, "NOP">>, <<b + 2, "SYSCALL", "HLT">>>>
Ending(b) == <<<<b, "SYSCALL", "HLT">>>>

ThreadTexts(b) ==
  {Printing(b), Calling(b), Trespassing(b), Malformed(b), Untyped(b), Ending(b)}

(* Every pair of them, as threads 1 and 2. *)
PairTexts == {Krn!TextOf(<<s, t>>) : s \in ThreadTexts(1000), t \in ThreadTexts(2000)}

(* Robots of three types: one that fights for several hits, two that explode *)
(* and one that dies of any hit.                                             *)
FourTypes      == <<"bulldozer", "kamikaze", "kamikaze", "roomba">>
SmallHitpoints == [bulldozer |-> 3, kamikaze |-> 1, roomba |-> 1]
SmallDamages   == [bulldozer |-> {1, 2}, roomba |-> {1}]

(* Hardware of which all devices of a kind compete for one place, and one    *)
(* with a name that is no protocol and room for two sensors.                 *)
OneOfEach == [Sensor |-> 1, Display |-> 1, WirelessIO |-> 1, MotorDriver |-> 1]
TwoConfigs ==
  {[ports |-> <<"SPI", "UART">>, max |-> OneOfEach],
   [ports |-> <<"I2C", "USB", "OneWire">>, max |-> [OneOfEach EXCEPT !.Sensor = 2]]}

(* Keys 1 and 3 have the same place in a table of three. *)
ThreeHashes == <<0, 1, 3>>

(* Users in falling order of priority, and two of the same one. *)
TwoConfigFiles == {<<2, 1, 0>>, <<1, -1, 1>>}
=============================================================================
