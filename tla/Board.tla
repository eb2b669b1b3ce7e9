------------------------------- MODULE Board -------------------------------
(***************************************************************************)
(* The i.MX6UL boards: the USB armory Mk II (models beta, gamma and LAN)   *)
(* and the MCIMX6ULL-EVK.                                                  *)
(*                                                                         *)
(* A pad of the SoC carries one signal at a time.  The board packages give *)
(* pads to the card slots, the LEDs, the Bluetooth module and the Ethernet *)
(* transceivers, and some pads are wanted by two of them: the two MACs of  *)
(* the EVK share the management pads GPIO1_IO06/07, which on the USB armory*)
(* are also Bluetooth lines.  A management frame reaches a transceiver only*)
(* when these pads carry the signals of the MAC that sends it.             *)
(*                                                                         *)
(* pins: the pads and the lines; phy: the Ethernet transceiver (KSZ8081 or *)
(* DP83825I) and its driver; ble: the Bluetooth module; accessory: the     *)
(* detection of a debug accessory on the side receptacle.                  *)
(***************************************************************************)
EXTENDS Naturals, Sequences, FiniteSets, TLC

CONSTANTS Boards,        \* "evk", "beta", "gamma", "lan", "emulated"
          Callers,       \* goroutines that call the Bluetooth module
          MaxBoardCalls, \* bound: calls
          MaxPolls       \* bound: polls of the receptacle before the timeout

VARIABLES pins, phy, ble, accessory

(* One pad configuration: the mux mode, the electrical control and, where  *)
(* the code selects one, the daisy chain input.                            *)
configurePad(pad, mode, ctl, input) == [pad |-> pad, mode |-> mode, ctl |-> ctl, input |-> input]

Apply(mux, entries) ==
  [p \in DOMAIN mux \cup {entries[i].pad : i \in DOMAIN entries} |->
     IF \E i \in DOMAIN entries : entries[i].pad = p
     THEN LET i == CHOOSE j \in DOMAIN entries :
                     /\ entries[j].pad = p
                     /\ \A m \in DOMAIN entries : entries[m].pad = p => m <= j
          IN  [mode |-> entries[i].mode, ctl |-> entries[i].ctl, input |-> entries[i].input]
     ELSE mux[p]]

Enet1 == <<"ENET1_RX_DATA0", "ENET1_RX_DATA1", "ENET1_RX_EN", "ENET1_TX_DATA0", "ENET1_TX_DATA1", "ENET1_TX_EN">>
Enet2 == <<"ENET2_RX_DATA0", "ENET2_RX_DATA1", "ENET2_RX_EN", "ENET2_TX_DATA0", "ENET2_TX_DATA1", "ENET2_TX_EN">>

(* The pads of the two MACs of the EVK.  The reference clock has SION set. *)
configurePHY1Pads ==
  [i \in 1..6 |-> configurePad(Enet1[i], "alt0", "100", 0)]
    \o <<configurePad("ENET1_TX_CLK", "alt4 sion", "50", 2), configurePad("ENET1_RX_ER", "alt0", "100", 0),
         configurePad("IO06", "alt0", "100", 0), configurePad("IO07", "alt0", "100", 0)>>

configurePHY2Pads ==
  [i \in 1..6 |-> configurePad(Enet2[i], "alt0", "100", 0)]
    \o <<configurePad("ENET2_TX_CLK", "alt4 sion", "50", 2), configurePad("ENET2_RX_ER", "alt0", "100", 0),
         configurePad("IO06", "alt1", "100", 1), configurePad("IO07", "alt1", "100", 0)>>

(* Those of the MAC of the USB armory LAN; MDIO selects input 0 here.      *)
configurePHYPads ==
  [i \in 1..6 |-> configurePad(Enet2[i], "alt0", "100", 0)]
    \o <<configurePad("ENET2_TX_CLK", "alt4 sion", "50", 2), configurePad("ENET2_RX_ER", "alt0", "100", 0),
         configurePad("IO06", "alt1", "100", 0), configurePad("IO07", "alt1", "100", 0)>>

(* The write protect pads of the card controllers: unconnected and pulled  *)
(* down, so that the driver never sees write protection.                   *)
WpSd == configurePad("CSI_DATA04", "alt8", "down", 2)
WpMmc == configurePad("CSI_PIXCLK", "alt1", "down", 2)

(* Bluetooth: on beta the two flow control lines are GPIOs, on gamma UART  *)
(* signals; the DSR pad receives the control value as its mux mode and the *)
(* GPIO mode as its control value.                                         *)
BleUart == <<configurePad("UART1_TX", "alt0", "up", 0), configurePad("UART1_RX", "alt0", "up", 3)>>

BleFlow(board) ==
  IF board = "beta"
  THEN <<configurePad("IO07", "gpio", "up", 0), configurePad("UART1_CTS", "gpio", "down", 0)>>
  ELSE <<configurePad("UART1_CTS", "alt0", "up", 0), configurePad("IO07", "alt8", "down", 1)>>

BleLines ==
  <<configurePad("UART3_TX", "22k", "gpio", 0), configurePad("IO04", "gpio", "22k", 0),
    configurePad("IO06", "gpio", "22k", 0), configurePad("IO09", "gpio", "22k", 0),
    configurePad("UART3_RTS", "gpio", "22k", 0), configurePad("UART3_CTS", "gpio", "22k", 0),
    configurePad("UART3_RX", "gpio", "hys", 0)>>

LedPads == <<configurePad("CSI_DATA00", "gpio", "100", 0), configurePad("CSI_DATA01", "gpio", "100", 0)>>

(* GPIO.Init of a line: the number is checked and the clock of the         *)
(* controller is opened once; Out and In set its direction.                *)
Gpio(x, num, direction) ==
  IF num > 31 THEN x ELSE [x EXCEPT !.clk = TRUE, !.dir = (num :> direction) @@ @, !.data = @ @@ (num :> "low")]

Drive(x, num, level) == [x EXCEPT !.data = (num :> level) @@ @]

WHITE == 21
BLUE == 22
BT_RESET == 9
BT_SWITCH_1 == 27
BT_SWITCH_2 == 26

-----------------------------------------------------------------------------
(* The package's init functions, before any call: LEDs, then the cards in  *)
(* the order of the files (led.go, usdhc.go).                              *)

LedInit(x) == Gpio(Gpio([x EXCEPT !.mux = Apply(@, LedPads), !.up = Append(@, "led")], WHITE, "out"), BLUE, "out")

UsdhcInit(x) ==
  IF x.board \in {"lan", "emulated"}
  THEN [x EXCEPT !.mux = Apply(@, <<WpMmc>>), !.up = Append(@, "mmc"),
                 !.low = IF x.board = "lan" THEN {"mmc"} ELSE {}]
  ELSE [x EXCEPT !.mux = Apply(@, <<WpMmc, WpSd>>), !.up = @ \o <<"sd", "mmc">>,
                 !.low = IF x.board = "gamma" THEN {"sd", "mmc"} ELSE {}]

EvkUsdhcInit(x) == [x EXCEPT !.mux = Apply(@, <<WpSd, WpMmc>>), !.up = @ \o <<"sd", "mmc">>, !.low = {"sd"}]

NoPins == [x \in {} |-> 0]

Cold(board) == [board |-> board, mux |-> NoPins, clk |-> FALSE, dir |-> NoPins, data |-> NoPins, up |-> <<>>,
                low |-> {}, ldo3 |-> "3v3", asked |-> NoPins, calls |-> 0]

Por == [ctrl |-> "por", mode |-> "por", int |-> FALSE, led1 |-> "link", fn |-> "addr", addr |-> "none", led2 |-> "link",
        stray |-> FALSE]

BoardInit ==
  /\ \E b \in Boards : pins = IF b = "evk" THEN EvkUsdhcInit(Cold(b)) ELSE UsdhcInit(LedInit(Cold(b)))
  /\ phy = [phy |-> "nil", mac |-> 0, pa |-> 0, speed |-> 0, todo |-> <<>>, op |-> "none", ok |-> FALSE,
            regs |-> [a \in 0..2 |-> Por]]
  /\ ble = [lock |-> 0, pc |-> [c \in Callers |-> "idle"], call |-> [c \in Callers |-> "none"], ready |-> FALSE,
            errata |-> FALSE, flow |-> FALSE, mode |-> "off"]
  /\ accessory = [pc |-> "idle", enabled |-> FALSE, type |-> "none", polls |-> 0, answer |-> "none", seen |-> FALSE]

Budget == pins.calls < MaxBoardCalls

(* 1.8 V signalling of the card slot of the gamma: the voltage is the third*)
(* regulator of the PMIC, over I2C; the eMMC needs nothing.                *)
lowVoltageSD(enable) ==
  /\ Budget /\ "sd" \in pins.low /\ pins.board = "gamma"
  /\ \E fails \in BOOLEAN :
       pins' = [pins EXCEPT !.calls = @ + 1, !.ldo3 = IF fails THEN @ ELSE IF enable THEN "1v8" ELSE "3v3"]
  /\ UNCHANGED <<phy, ble, accessory>>

-----------------------------------------------------------------------------
(* Ethernet: the transceivers' drivers are sequences of register writes,   *)
(* each of which the MAC may fail (a timeout of the management interface). *)

W(field, val) == [field |-> field, val |-> val]

KszInit == <<W("reset", 0), W("mode", "rmii"), W("ctrl", "100fd"), W("speed", 100)>>
KszInterrupts == <<W("int", TRUE)>>
DpInit == <<W("reset", 0), W("ctrl", "100fd"), W("mode", "rmii"), W("speed", 100)>>

LEDCR2 == "ledcr2"

Lit(on) == IF on THEN "on" ELSE "off"

(* LED: the first is a register of its own; the second is behind the MMD   *)
(* access registers: address function, address, data function, data.       *)
DpLed(which, on) ==
  IF which = 1 THEN <<W("led1", Lit(on))>>
  ELSE <<W("fn", "addr"), W("mmd", LEDCR2), W("fn", "data"), W("mmd", Lit(on))>>

EnablePHYEarly(index) ==
  /\ Budget /\ phy.todo = <<>> /\ pins.board = "evk"
  /\ pins' = [pins EXCEPT !.calls = @ + 1, !.up = Append(@, IF index = 1 THEN "enet1" ELSE "enet2")]
  /\ phy' = [phy EXCEPT !.phy = "ksz8081", !.mac = index, !.pa = 3 - index, !.speed = 0,
                        !.todo = KszInit \o KszInterrupts, !.op = "enable", !.ok = FALSE]
  /\ UNCHANGED <<ble, accessory>>

(* EnablePHY of the EVK: pads, then the transceiver: the first MAC's is at *)
(* address 2 and the second's at address 1.                                *)
EnablePHY(index) ==
  /\ Budget /\ phy.todo = <<>> /\ pins.board = "evk"
  /\ pins' = [pins EXCEPT !.calls = @ + 1, !.up = Append(@, IF index = 1 THEN "enet1" ELSE "enet2"),
                          !.mux = Apply(@, IF index = 1 THEN configurePHY1Pads ELSE configurePHY2Pads)]
  /\ phy' = [phy EXCEPT !.phy = "ksz8081", !.mac = index, !.pa = 3 - index, !.speed = 0,
                        !.todo = KszInit \o KszInterrupts, !.op = "enable", !.ok = FALSE]
  /\ UNCHANGED <<ble, accessory>>

(* EnablePHY of the USB armory LAN.                                        *)
EnablePHYLan ==
  /\ Budget /\ phy.todo = <<>> /\ pins.board = "lan"
  /\ pins' = [pins EXCEPT !.calls = @ + 1, !.up = Append(@, "enet2"), !.mux = Apply(@, configurePHYPads),
                          !.asked = [x \in DOMAIN @ \ {"green", "yellow"} |-> @[x]]]
  /\ phy' = [phy EXCEPT !.phy = "dp83825i", !.mac = 2, !.pa = 0, !.speed = 0, !.todo = DpInit, !.op = "enable",
                        !.ok = FALSE]
  /\ UNCHANGED <<ble, accessory>>

(* Negotiate of the transceiver that is up.                                *)
Negotiate ==
  /\ Budget /\ phy.todo = <<>> /\ phy.phy # "nil"
  /\ pins' = [pins EXCEPT !.calls = @ + 1]
  /\ phy' = [phy EXCEPT !.speed = 0, !.todo = Tail(IF phy.phy = "ksz8081" THEN KszInit ELSE DpInit), !.op = "negotiate"]
  /\ UNCHANGED <<ble, accessory>>

(* A frame of MAC m reaches the transceivers when both management pads     *)
(* carry the signals of m.                                                 *)
Carries(m) ==
  LET alt == IF m = 1 THEN "alt0" ELSE "alt1"
  IN  {"IO06", "IO07"} \subseteq DOMAIN pins.mux /\ pins.mux["IO06"].mode = alt /\ pins.mux["IO07"].mode = alt

(* External: the transceiver's registers.  A software reset is over before *)
(* the next frame.  The second MMD write is an address or, after the data  *)
(* function, a value of the register the address names.                    *)
Written(r, x) ==
  CASE x.field = "reset" -> Por
    [] x.field = "mmd" -> IF r.fn = "addr" THEN [r EXCEPT !.addr = x.val]
                          ELSE IF r.addr = LEDCR2 THEN [r EXCEPT !.led2 = x.val] ELSE [r EXCEPT !.stray = TRUE]
    [] x.field = "ctrl" -> [r EXCEPT !.ctrl = x.val]
    [] x.field = "mode" -> [r EXCEPT !.mode = x.val]
    [] x.field = "int" -> [r EXCEPT !.int = x.val]
    [] x.field = "led1" -> [r EXCEPT !.led1 = x.val]
    [] x.field = "fn" -> [r EXCEPT !.fn = x.val]

(* WritePHYRegister, one frame; the assignment of the speed is no frame.   *)
WritePHYRegister ==
  /\ phy.todo # <<>> /\ Head(phy.todo).field # "speed"
  /\ phy' = [phy EXCEPT !.todo = Tail(@), !.ok = Tail(phy.todo) = <<>>,
                        !.regs[phy.pa] = IF Carries(phy.mac) THEN Written(@, Head(phy.todo)) ELSE @]
  /\ pins' = IF Tail(phy.todo) = <<>> /\ phy.op \in {"green", "yellow"}
             THEN [pins EXCEPT !.asked = (phy.op :> Head(phy.todo).val) @@ @] ELSE pins
  /\ UNCHANGED <<ble, accessory>>

SetSpeed ==
  /\ phy.todo # <<>> /\ Head(phy.todo).field = "speed"
  /\ phy' = [phy EXCEPT !.todo = Tail(@), !.speed = 100, !.ok = Tail(phy.todo) = <<>>]
  /\ UNCHANGED <<pins, ble, accessory>>

(* A frame fails: the error ends the call.                                 *)
WriteFails ==
  /\ phy.todo # <<>> /\ Head(phy.todo).field # "speed"
  /\ phy' = [phy EXCEPT !.todo = <<>>, !.ok = FALSE]
  /\ pins' = [pins EXCEPT !.asked = [x \in DOMAIN @ \ {phy.op} |-> @[x]]]
  /\ UNCHANGED <<ble, accessory>>

(* LED: white and blue are lines of GPIO4, lit when low; green and yellow  *)
(* belong to the transceiver, and are invalid before EnablePHY.            *)
LED(name, on) ==
  /\ Budget /\ phy.todo = <<>> /\ pins.board # "evk"
  /\ \/ /\ name \in {"white", "blue"}
        /\ pins' = [Drive(pins, IF name = "white" THEN WHITE ELSE BLUE, IF on THEN "low" ELSE "high")
                   EXCEPT !.calls = @ + 1, !.asked = (name :> Lit(on)) @@ @]
        /\ UNCHANGED phy
     \/ /\ name \in {"green", "yellow"} /\ phy.phy # "nil"
        /\ pins' = [pins EXCEPT !.calls = @ + 1]
        /\ phy' = [phy EXCEPT !.todo = DpLed(IF name = "green" THEN 1 ELSE 2, on), !.op = name]
  /\ UNCHANGED <<ble, accessory>>

-----------------------------------------------------------------------------
(* The Bluetooth module.  Init, Reset, NormalMode and BootloaderMode take  *)
(* the same mutex; the last two call Reset while they hold it.             *)

BleCall(c, call) ==
  /\ Budget /\ pins.board # "evk" /\ ble.pc[c] = "idle"
  /\ pins' = [pins EXCEPT !.calls = @ + 1]
  /\ ble' = [ble EXCEPT !.pc[c] = "lock", !.call[c] = call]
  /\ UNCHANGED <<phy, accessory>>

(* The module latches its mode when its reset line rises.                  *)
Mode(x) == IF x.data[BT_SWITCH_1] = "high" /\ x.data[BT_SWITCH_2] = "high" THEN "normal" ELSE "bootloader"

BleUp(c) ==
  LET flow == IF pins.board = "beta" THEN Gpio(Gpio(pins, 7, "out"), 18, "in") ELSE pins
      lines == Gpio(Gpio(Gpio(flow, BT_RESET, "out"), BT_SWITCH_1, "out"), BT_SWITCH_2, "out")
      high == Drive(Drive(Drive(lines, BT_SWITCH_1, "high"), BT_SWITCH_2, "high"), BT_RESET, "high")
  IN  /\ pins' = [high EXCEPT !.mux = Apply(@, BleUart \o BleFlow(pins.board) \o BleLines), !.up = Append(@, "ble")]
      /\ ble' = [ble EXCEPT !.pc[c] = "idle", !.call[c] = "none", !.ready = TRUE, !.errata = pins.board = "beta",
                            !.flow = pins.board # "beta", !.mode = Mode(pins')]

BleInitAny(c) == ble.pc[c] = "lock" /\ ble.call[c] = "Init" /\ ble.lock = 0 /\ BleUp(c) /\ UNCHANGED <<phy, accessory>>

(* Init: on LAN an error, after two pads are set.                          *)
BleInit(c) ==
  /\ ble.pc[c] = "lock" /\ ble.call[c] = "Init" /\ ble.lock = 0
  /\ \/ /\ pins.board = "lan"
        /\ pins' = [pins EXCEPT !.mux = Apply(@, BleUart)]
        /\ ble' = [ble EXCEPT !.pc[c] = "idle", !.call[c] = "none"]
     \/ pins.board # "lan" /\ BleUp(c)
  /\ UNCHANGED <<phy, accessory>>

(* Reset, called by the application (the mutex is free) or from within the *)
(* two others: it takes the mutex, drives the line low and sleeps.         *)
ResetUnlocked(c) ==
  /\ \/ ble.pc[c] = "lock" /\ ble.call[c] = "Reset"
     \/ ble.pc[c] = "inner"
  /\ IF ~ble.ready THEN /\ ble' = [ble EXCEPT !.pc[c] = "idle", !.call[c] = "none"] /\ UNCHANGED pins
     ELSE /\ pins' = Drive(pins, BT_RESET, "low")
          /\ ble' = [ble EXCEPT !.pc[c] = "low"]
  /\ UNCHANGED <<phy, accessory>>

Reset(c) ==
  /\ \/ ble.pc[c] = "lock" /\ ble.call[c] = "Reset"
     \/ ble.pc[c] = "inner"
  /\ ble.lock = 0
  /\ IF ~ble.ready THEN /\ ble' = [ble EXCEPT !.pc[c] = "idle", !.call[c] = "none"] /\ UNCHANGED pins
     ELSE /\ pins' = Drive(pins, BT_RESET, "low")
          /\ ble' = [ble EXCEPT !.lock = c, !.pc[c] = "low"]
  /\ UNCHANGED <<phy, accessory>>

(* After the grace time the line rises and the mutex is released.          *)
ResetEnds(c) ==
  /\ ble.pc[c] = "low"
  /\ pins' = Drive(pins, BT_RESET, "high")
  /\ ble' = [ble EXCEPT !.lock = IF @ = c THEN 0 ELSE @, !.pc[c] = "idle", !.call[c] = "none", !.mode = Mode(pins')]
  /\ UNCHANGED <<phy, accessory>>

(* NormalMode and BootloaderMode up to their call of Reset.                *)
SwitchMode(c, call, level) ==
  /\ ble.pc[c] = "lock" /\ ble.call[c] = call /\ ble.lock = 0
  /\ IF ~ble.ready THEN /\ ble' = [ble EXCEPT !.pc[c] = "idle", !.call[c] = "none"] /\ UNCHANGED pins
     ELSE /\ pins' = Drive(Drive(pins, BT_SWITCH_1, level), BT_SWITCH_2, level)
          /\ ble' = [ble EXCEPT !.lock = c, !.pc[c] = "inner"]
  /\ UNCHANGED <<phy, accessory>>

NormalMode(c) == SwitchMode(c, "NormalMode", "high")
BootloaderMode(c) == SwitchMode(c, "BootloaderMode", "low")

(* CTS: on beta only, a line driven by hand.                               *)
CTS(clear) ==
  /\ Budget /\ pins.board # "evk" /\ ble.ready
  /\ pins' = [(IF ble.errata THEN Drive(pins, 7, IF clear THEN "low" ELSE "high") ELSE pins) EXCEPT !.calls = @ + 1]
  /\ UNCHANGED <<phy, ble, accessory>>

-----------------------------------------------------------------------------
(* Debug accessory: DetectDebugAccessory enables the port controller with a*)
(* read and a write over I2C and starts a goroutine that polls the type and*)
(* sends one Boolean on an unbuffered channel.                             *)

Debug == {"debugsrc", "debugsnk"}

DetectDebugAccessory ==
  /\ Budget /\ pins.board # "evk" /\ accessory.pc = "idle"
  /\ pins' = [pins EXCEPT !.calls = @ + 1]
  /\ \/ UNCHANGED accessory                       \* an I2C transfer failed: always on LAN, which has no controller
     \/ /\ pins.board # "lan"
        /\ accessory' = [accessory EXCEPT !.enabled = TRUE, !.pc = "poll", !.polls = 0, !.answer = "none",
                                          !.seen = accessory.type \in Debug]
  /\ UNCHANGED <<phy, ble>>

waitDebugAccessory ==
  /\ accessory.pc = "poll" /\ accessory.polls < MaxPolls
  /\ accessory' = [accessory EXCEPT !.polls = @ + 1, !.answer = IF accessory.type \in Debug THEN "true" ELSE @,
                                    !.pc = IF accessory.type \in Debug THEN "send" ELSE @]
  /\ UNCHANGED <<pins, phy, ble>>

(* The timeout, or a failed read of the type: false.                       *)
WaitGivesUp ==
  /\ accessory.pc = "poll"
  /\ accessory' = [accessory EXCEPT !.answer = "false", !.pc = "send"]
  /\ UNCHANGED <<pins, phy, ble>>

(* The application receives; a plug is put in or pulled out.               *)
ReceiveAnswer ==
  /\ accessory.pc = "send"
  /\ accessory' = [accessory EXCEPT !.pc = "idle"]
  /\ UNCHANGED <<pins, phy, ble>>

HwPlug ==
  /\ accessory.pc = "poll" /\ accessory.enabled
  /\ \E t \in {"none", "sink", "debugsrc", "debugsnk"} \ {accessory.type} :
       accessory' = [accessory EXCEPT !.type = t, !.seen = @ \/ t \in Debug]
  /\ UNCHANGED <<pins, phy, ble>>

BleStep(c) == BleInit(c) \/ Reset(c) \/ ResetEnds(c) \/ NormalMode(c) \/ BootloaderMode(c)

BoardNext ==
  \/ \E on \in BOOLEAN : lowVoltageSD(on) \/ CTS(on) \/ \E name \in {"white", "green", "yellow"} : LED(name, on)
  \/ \E i \in {1, 2} : EnablePHY(i)
  \/ EnablePHYLan \/ Negotiate \/ WritePHYRegister \/ SetSpeed \/ WriteFails
  \/ \E c \in Callers : BleStep(c) \/ \E call \in {"Init", "Reset", "NormalMode", "BootloaderMode"} : BleCall(c, call)
  \/ DetectDebugAccessory \/ waitDebugAccessory \/ WaitGivesUp \/ ReceiveAnswer \/ HwPlug

-----------------------------------------------------------------------------
(* The pads of a device that is up (configure*Pads, init, BLE.Init).       *)
PadsOf(d) ==
  CASE d = "led" -> LedPads
    [] d = "sd" -> <<WpSd>>
    [] d = "mmc" -> <<WpMmc>>
    [] d = "ble" -> BleUart \o BleFlow(pins.board) \o BleLines
    [] d = "enet1" -> configurePHY1Pads
    [] d = "enet2" -> IF pins.board = "lan" THEN configurePHYPads ELSE configurePHY2Pads

(* The transceiver enabled last stays reachable: whatever is initialised   *)
(* afterwards leaves both management pads with its MAC.                    *)
MdioHeld == phy.phy # "nil" => Carries(phy.mac)

(* A speed of 100 is reported only for a transceiver that holds the whole  *)
(* configuration, and EnablePHY of the EVK succeeds only with interrupts on*)
(* (Init, Negotiate and EnableInterrupts, with a frame failing anywhere).  *)
LinkAsReported ==
  /\ phy.speed = 100 => phy.regs[phy.pa].ctrl = "100fd" /\ phy.regs[phy.pa].mode = "rmii"
  /\ phy.ok /\ phy.op = "enable" /\ phy.phy = "ksz8081" => phy.regs[phy.pa].int

(* An LED whose last LED call succeeded is as that call asked, and the MMD *)
(* access has written no other register (LED of the board and of the PHY). *)
LedTruth ==
  /\ \A name \in DOMAIN pins.asked :
       CASE name = "white" -> pins.data[WHITE] = IF pins.asked[name] = "on" THEN "low" ELSE "high"
         [] name = "green" -> phy.regs[0].led1 = pins.asked[name]
         [] name = "yellow" -> phy.regs[0].led2 = pins.asked[name]
  /\ \A a \in DOMAIN phy.regs : ~phy.regs[a].stray

(* The reset line of the Bluetooth module is low for the whole of the reset*)
(* of one caller and high otherwise, whatever the others call meanwhile.   *)
ResetWhole ==
  ble.ready => ((\E c \in Callers : ble.pc[c] = "low") <=> pins.data[BT_RESET] = "low")

(* Every device that is up has each of its pads, in its own mode and with  *)
(* its own input, unless a device brought up later shares pads with it.    *)
PadsOwned ==
  \A i \in DOMAIN pins.up :
    LET mine == PadsOf(pins.up[i])
        shared(j) == \E x \in DOMAIN mine, y \in DOMAIN PadsOf(pins.up[j]) : mine[x].pad = PadsOf(pins.up[j])[y].pad
    IN  (\A j \in DOMAIN pins.up : j > i => ~shared(j))
          => \A x \in DOMAIN mine : pins.mux[mine[x].pad] = [mode |-> mine[x].mode, ctl |-> mine[x].ctl,
                                                            input |-> mine[x].input]

(* True is sent only when a debug accessory was seen during the detection. *)
AccessoryTruth == accessory.answer = "true" => accessory.seen

(* What the boards' packages promise together.                             *)
BoardsUp == MdioHeld /\ LinkAsReported /\ LedTruth /\ ResetWhole /\ PadsOwned /\ AccessoryTruth

(* A detection ends with an answer (DetectDebugAccessory: "On the returned *)
(* boolean channel are sent successful detection (true) or timeout         *)
(* (false).").                                                             *)
Answered == accessory.pc = "poll" ~> accessory.pc = "send"

(* "Enter bootloader mode by driving low SWITCH_1 and SWITCH_2 during a    *)
(* module reset cycle." (BootloaderMode; NormalMode alike): once the       *)
(* switches are driven, the reset cycle follows.                           *)
ModeEntered == \A c \in Callers : ble.pc[c] = "inner" ~> ble.pc[c] = "low"
=============================================================================
