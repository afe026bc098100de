---------------------------- MODULE RegisterMap -----------------------------
(***************************************************************************)
(* The register table of the E2 Pro and the decoders of its payloads       *)
(* (registers.py).  A payload is a sequence of bytes.  A number is held in *)
(* units of its register's scale, 10^-digits, which makes convert's        *)
(* multiplication and rounding exact; a string as its characters' codes.   *)
(***************************************************************************)
EXTENDS Packets, Integers, FiniteSetsExt

Row(key, board, index, length, decode, digits, static) ==
    [key |-> key, board |-> board, index |-> index, length |-> length,
     decode |-> decode, digits |-> digits, static |-> static]

MCU_REGISTERS == <<
    Row("serial_number", MCU, \h10, 14, "string", 0, TRUE),
    Row("controller_firmware", MCU, \h1A, 2, "version", 0, TRUE),
    Row("error_code", MCU, \h1B, 2, "u16", 0, FALSE),
    Row("warning_code", MCU, \h1C, 2, "u16", 0, FALSE),
    Row("remaining_range", MCU, \h25, 2, "u16", 2, FALSE),
    Row("uptime", MCU, \h3B, 2, "u16", 0, FALSE),
    Row("body_temperature", MCU, \h3E, 2, "u16", 1, FALSE),
    Row("bms_firmware", MCU, \h67, 2, "version", 0, TRUE),
    Row("ble_firmware", MCU, \h68, 2, "version", 0, TRUE),
    Row("activation_date", MCU, \h69, 2, "u16", 0, TRUE),
    Row("gear_mode", MCU, \h75, 2, "u16", 0, FALSE),
    Row("deceleration_mode", MCU, \h76, 2, "u16", 0, FALSE),
    Row("pedestrian_mode", MCU, \h77, 2, "u16", 0, FALSE),
    Row("light_mode", MCU, \h7A, 2, "u16", 0, FALSE),
    Row("cruise_control", MCU, \h7C, 2, "u16", 0, FALSE),
    Row("start_speed", MCU, \h7F, 2, "u16", 3, FALSE),
    Row("encryption_flag", MCU, \h95, 2, "u16", 0, TRUE),
    Row("battery_percent", MCU, \hB4, 2, "u16", 0, FALSE),
    Row("speed", MCU, \hB5, 2, "u16", 3, FALSE),
    Row("total_distance", MCU, \hB7, 4, "u32", 3, FALSE),
    Row("trip_distance", MCU, \hB9, 2, "u16", 2, FALSE),
    Row("cpu_id", MCU, \hDA, 12, "hex", 0, TRUE),
    Row("traction_control", MCU, \hF3, 2, "u16", 0, FALSE) >>

BMS_REGISTERS == <<
    Row("bms_serial_number", BMS, \h02, 14, "string", 0, TRUE),
    Row("bms_manufacture_date", BMS, \h0A, 2, "u16", 0, TRUE),
    Row("bms_version", BMS, \h0E, 2, "version", 0, TRUE),
    Row("battery_cycles", BMS, \h59, 2, "u16", 0, FALSE),
    Row("battery_design_capacity", BMS, \h5A, 2, "u16", 0, TRUE),
    Row("max_power", BMS, \h82, 2, "u16", 0, TRUE),
    Row("battery_deep_discharges", BMS, \h89, 2, "u16", 0, FALSE),
    Row("battery_remaining_capacity", BMS, \h8A, 2, "u16", 0, FALSE),
    Row("battery_voltage", BMS, \h8C, 2, "u16", 2, FALSE),
    Row("battery_current", BMS, \h8D, 2, "s16", 2, FALSE),
    Row("battery_level", BMS, \h8F, 2, "u16", 0, FALSE),
    Row("battery_temperatures", BMS, \h96, 4, "temperatures", 0, FALSE),
    Row("cell_voltages", BMS, \hA0, 26, "cells", 0, FALSE),
    Row("battery_capacity_throughput", BMS, \hE1, 4, "u32", 0, FALSE),
    Row("battery_energy_throughput", BMS, \hE3, 4, "u32", 0, FALSE) >>

BLE_REGISTERS == <<
    Row("locked", BLE, \h1C, 2, "bit0", 0, FALSE),
    Row("ble_part_number", BLE, \h59, 14, "string", 0, TRUE) >>

\* In the order they are read.
REGISTERS == MCU_REGISTERS \o BMS_REGISTERS \o BLE_REGISTERS

Registers == {REGISTERS[i] : i \in DOMAIN REGISTERS}
Keys == {r.key : r \in Registers}

\* REGISTERS_BY_KEY.
RegisterOf(key) == CHOOSE r \in Registers : r.key = key

STATIC_REGISTERS == {r.key : r \in {x \in Registers : x.static}}
DYNAMIC_REGISTERS == Keys \ STATIC_REGISTERS

\* A register's words in the board's memory.
WordsOf(r) == r.length \div 2
-----------------------------------------------------------------------------
(* The decoders.                                                           *)

\* data[offset : offset + 2], and the number it holds.
WordAt(data, offset) ==
    SubSeq(data, offset + 1, IF offset + 2 < Len(data) THEN offset + 2 ELSE Len(data))

Little(word) ==
    (IF word = <<>> THEN 0 ELSE word[1]) + (IF Len(word) < 2 THEN 0 ELSE 256 * word[2])

\* How many numbers two bytes hold.
WORD_RANGE == 256 * 256

U16(data) == Little(WordAt(data, 0))

S16(data) ==
    LET range == <<256, WORD_RANGE>>[IF Len(data) < 2 THEN 1 ELSE 2]
    IN  IF U16(data) < range \div 2 THEN U16(data) ELSE U16(data) - range

U32(data) == U16(data) + WORD_RANGE * Little(WordAt(data, 2))

\* data.split(b"\x00", 1)[0]
UpToNul(data) ==
    LET nuls == {i \in DOMAIN data : data[i] = 0}
    IN  IF nuls = {} THEN data ELSE SubSeq(data, 1, Min(nuls) - 1)

Blank == (9 .. 13) \union (28 .. 32)

\* The elements that are wanted.  (A fold by hand: SelectSeq has no definition
\* that a proof can use.)
Kept(s, wanted) ==
    LET kept[n \in 0 .. Len(s)] ==
            IF n = 0 THEN <<>>
            ELSE IF s[n] \in wanted THEN Append(kept[n - 1], s[n]) ELSE kept[n - 1]
    IN  kept[Len(s)]

Ascii(data) == Kept(data, 0 .. 127)

Strip(text) ==
    LET ink == {i \in DOMAIN text : text[i] \notin Blank}
    IN  IF ink = {} THEN <<>>
        ELSE SubSeq(text, Min(ink), Max(ink))

\* Undecodable bytes go wherever they are; blanks go at both ends.
String(data) == Strip(Ascii(UpToNul(data)))

Version(data) == <<U16(data) \div 256, (U16(data) \div 16) % 16, U16(data) % 16>>

TemperaturePair(data) == <<data[1] - 20, data[2] - 20>>

\* Empty slots go wherever they are.
Present(slots) == Kept(slots, 1 .. WORD_RANGE - 1)

CellVoltages(data) ==
    Present([k \in 1 .. Len(data) \div 2 |-> Little(WordAt(data, 2 * (k - 1)))])

\* Register.convert does not raise: only the temperatures index their payload.
Converts(r, data) == r.decode = "temperatures" => Len(data) >= 2

\* Register.convert.
Convert(r, data) ==
    CASE r.decode = "u16" -> U16(data)
      [] r.decode = "s16" -> S16(data)
      [] r.decode = "u32" -> U32(data)
      [] r.decode = "string" -> String(data)
      [] r.decode = "hex" -> data
      [] r.decode = "version" -> Version(data)
      [] r.decode = "temperatures" -> TemperaturePair(data)
      [] r.decode = "cells" -> CellVoltages(data)
      [] r.decode = "bit0" -> U16(data) % 2 = 1
=============================================================================
