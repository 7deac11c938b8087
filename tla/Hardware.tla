-------------------------------- MODULE Hardware ------------------------------
(* The hardware system of Data Structures And Algorithms, HW3: ports with a  *)
(* protocol each, devices of four kinds that are added to ports and listed   *)
(* by kind and ID, and the log of each port, which is written to a file at   *)
(* the end.                                                                  *)
(*                                                                           *)
(* Commands are read up to exit and then executed one by one; an action is   *)
(* the execution of one.  A command that is refused, or ends in an exception *)
(* that Main prints, changes nothing and is no action.  The data that a      *)
(* device is given is text other than the entries the program makes itself.  *)
EXTENDS Integers, SequencesExt

CONSTANTS
  Configs,         (* [ports: names of protocols, max: the devices of each kind] *)
  MaxEntries       (* bound: entries in the logs                              *)

VARIABLES
  stage,           (* "config", "commands" or "exit"                          *)
  ports,           (* [protocol, device], as they are numbered                *)
  listed,          (* the devices of each kind by ID                          *)
  powered,         (* the devices whose state is ON                           *)
  log_stacks,      (* the stack of entries of each port's protocol            *)
  log_files        (* the lines of each port's file                           *)

wvars == <<stage, ports, listed, powered, log_stacks, log_files>>

Protocols == {"I2C", "SPI", "OneWire", "UART"}

(* The types of devices of each kind, and the protocols they accept. *)
TypesOf ==
  [Sensor |-> {"DHT11", "BME280", "MPU6050", "GY951"}, Display |-> {"LCD", "OLED"},
   WirelessIO |-> {"Bluetooth", "Wifi"}, MotorDriver |-> {"PCA9685", "SparkFunMD"}]
Kinds == DOMAIN TypesOf
Accepts ==
  [DHT11 |-> {"OneWire"}, BME280 |-> {"I2C", "SPI"}, MPU6050 |-> {"I2C"},
   GY951 |-> {"UART", "SPI"}, LCD |-> {"I2C"}, OLED |-> {"SPI"}, Bluetooth |-> {"UART"},
   Wifi |-> {"SPI", "UART"}, PCA9685 |-> {"I2C"}, SparkFunMD |-> {"SPI"}]
IMUSensors == {"MPU6050", "GY951"}

(* A device is known by its type, its ID and the port whose protocol it uses. *)
Device(kind, type, id, p) == [kind |-> kind, type |-> type, id |-> id, port |-> p]
NoDevice == Device("none", "none", 0, 0)
Entries  == {"opened", "turnON", "turnOFF", "data", "reading"}

TypeOK ==
  /\ stage \in {"config", "commands", "exit"}
  /\ \A p \in DOMAIN ports : ports[p].protocol \in Protocols
  /\ DOMAIN listed = Kinds
  /\ powered \subseteq {ports[p].device : p \in DOMAIN ports}
  /\ log_stacks \in Seq(Seq(Entries)) /\ log_files \in Seq(Seq(Entries))

Init ==
  /\ stage = "config" /\ ports = <<>> /\ listed = [k \in Kinds |-> <<>>] /\ powered = {}
  /\ log_stacks = <<>> /\ log_files = <<>>
-----------------------------------------------------------------------------
(* loadConfiguration: names that are no protocols are passed over. *)
LoadConfiguration ==
  /\ stage = "config" /\ stage' = "commands"
  /\ \E config \in Configs :
       LET names == SelectSeq(config.ports, LAMBDA n : n \in Protocols) IN
       /\ ports' = [p \in DOMAIN names |-> [protocol |-> names[p], device |-> NoDevice]]
       /\ listed' = [k \in Kinds |-> [id \in 0 .. config.max[k] - 1 |-> NoDevice]]
       /\ log_stacks' = [p \in DOMAIN names |-> <<"opened">>]
       /\ log_files' = [p \in DOMAIN names |-> <<>>]
  /\ UNCHANGED powered

Logged == FoldSeq(LAMBDA stack, n : n + Len(stack), 0, log_stacks)

(* The protocol of port p logs an entry, n times. *)
Write(p, entry, n) ==
  /\ stage = "commands" /\ Logged + n <= MaxEntries
  /\ log_stacks' = [log_stacks EXCEPT ![p] = @ \o [i \in 1 .. n |-> entry]]
  /\ UNCHANGED <<stage, ports, listed, log_files>>

addDev ==
  /\ stage = "commands"
  /\ \E p \in DOMAIN ports, kind \in Kinds : \E type \in TypesOf[kind], id \in DOMAIN listed[kind] :
       LET device == Device(kind, type, id, p) IN
       /\ ports[p].device = NoDevice
       /\ listed[kind][id] = NoDevice
       /\ ports[p].protocol \in Accepts[type]
       /\ ports' = [ports EXCEPT ![p].device = device]
       /\ listed' = [listed EXCEPT ![kind][id] = device]
  /\ UNCHANGED <<stage, powered, log_stacks, log_files>>

(* Faulty variant of rmDev, no part of the specification: a device that is   *)
(* ON is removed too, and what is forgotten is OFF.                          *)
rmDevAnyway ==
  /\ stage = "commands"
  /\ \E p \in DOMAIN ports :
       LET device == ports[p].device IN
       /\ device # NoDevice
       /\ listed' = [listed EXCEPT ![device.kind][device.id] = NoDevice]
       /\ ports' = [ports EXCEPT ![p].device = NoDevice]
       /\ powered' = powered \ {device}
  /\ UNCHANGED <<stage, log_stacks, log_files>>

rmDev ==
  /\ stage = "commands"
  /\ \E p \in DOMAIN ports :
       LET device == ports[p].device IN
       /\ device # NoDevice /\ device \notin powered
       /\ listed' = [listed EXCEPT ![device.kind][device.id] = NoDevice]
       /\ ports' = [ports EXCEPT ![p].device = NoDevice]
  /\ UNCHANGED <<stage, powered, log_stacks, log_files>>

turnON ==
  \E p \in DOMAIN ports :
    LET device == ports[p].device IN
    /\ device # NoDevice /\ device \notin powered
    /\ powered' = powered \cup {device}
    /\ Write(device.port, "turnON", 1)

turnOFF ==
  \E p \in DOMAIN ports :
    LET device == ports[p].device IN
    /\ device \in powered
    /\ powered' = powered \ {device}
    /\ Write(device.port, "turnOFF", 1)

(* The commands that use a device find it in the list of its kind; it must   *)
(* be ON.  A sensor of movement is read twice.                               *)
InUse(kind) == {listed[kind][id] : id \in DOMAIN listed[kind]} \cap powered

readSensor ==
  /\ \E d \in InUse("Sensor") : Write(d.port, "reading", IF d.type \in IMUSensors THEN 2 ELSE 1)
  /\ UNCHANGED powered
printDisplay  == (\E d \in InUse("Display") : Write(d.port, "data", 1)) /\ UNCHANGED powered
setMotorSpeed == (\E d \in InUse("MotorDriver") : Write(d.port, "data", 1)) /\ UNCHANGED powered
writeWireless == (\E d \in InUse("WirelessIO") : Write(d.port, "data", 1)) /\ UNCHANGED powered
readWireless  == (\E d \in InUse("WirelessIO") : Write(d.port, "reading", 1)) /\ UNCHANGED powered

(* exit: every stack is popped into the file of its port. *)
logOperation ==
  /\ stage = "commands" /\ stage' = "exit"
  /\ log_files' = [p \in DOMAIN ports |-> Reverse(log_stacks[p])]
  /\ log_stacks' = [p \in DOMAIN ports |-> <<>>]
  /\ UNCHANGED <<ports, listed, powered>>
-----------------------------------------------------------------------------
Next ==
  \/ LoadConfiguration \/ addDev \/ rmDev \/ turnON \/ turnOFF \/ readSensor \/ printDisplay
  \/ setMotorSpeed \/ writeWireless \/ readWireless \/ logOperation

Spec == Init /\ [][Next]_wvars
-----------------------------------------------------------------------------
(* Properties. *)

Log(p) == IF stage = "exit" THEN Reverse(log_files[p]) ELSE log_stacks[p]

(* The last power entry of a log is turnON. *)
SaysOn(log) ==
  \E i \in DOMAIN log : log[i] = "turnON" /\ \A j \in i + 1 .. Len(log) : log[j] # "turnOFF"

(* The log of a port tells the story of the devices that were there, one     *)
(* after the other: each is turned on and off in turn, is used only in       *)
(* between, and is ON now if the log says so, whichever commands come        *)
(* through the ports and whichever through the lists                         *)
(* (HWSystem.java:149-264, Port.java:52, SPI.java:48-81).                    *)
PowerLogged ==
  \A p \in DOMAIN ports :
    /\ \A i \in DOMAIN Log(p) :
         LET before == SubSeq(Log(p), 1, i - 1) IN
         CASE Log(p)[i] = "opened" -> i = 1
           [] Log(p)[i] = "turnON" -> ~SaysOn(before)
           [] OTHER                -> SaysOn(before)
    /\ SaysOn(Log(p)) <=> ports[p].device \in powered

(* The device at a port is the one listed under its ID, and nothing else is  *)
(* listed; it accepts the protocol (HWSystem.java:87-142, 160-166).          *)
DevicesListed ==
  /\ \A p \in DOMAIN ports :
       LET d == ports[p].device IN
       d # NoDevice => listed[d.kind][d.id] = d /\ ports[p].protocol \in Accepts[d.type]
  /\ \A kind \in Kinds : \A id \in DOMAIN listed[kind] :
       LET d == listed[kind][id] IN d # NoDevice => ports[d.port].device = d
=============================================================================
