------------------------------ MODULE Entities ------------------------------
(***************************************************************************)
(* What the owner sees of the scooter: the sensors and binary sensors over *)
(* the coordinator's merged state, what is known of the scooter's          *)
(* identity, and the diagnostics.  A poll is one step here (PollCycle has  *)
(* its inside).  What a register was read with is a fill, which stands for *)
(* a payload of every register; decoding it is RegisterMap's Convert.      *)
(***************************************************************************)
EXTENDS RegisterMap

CONSTANTS
    Fills,              \* bound: what the scooter's registers may be filled with
    Payload(_, _),      \* the payload of a register under a fill
    Losses,             \* bound: sets of registers a poll may fail to read
    HardwareIds,        \* what a scooter may advertise
    DEFAULT_HARDWARE_ID,
    None

\* None is no payload, and nothing a decoder returns.
ASSUME EntitiesAssumption ==
    /\ None \notin Fills /\ None \notin Int /\ None \notin BOOLEAN
    /\ \A fill \in Fills : \A r \in Registers : Payload(fill, r) \in Seq(Byte)

VARIABLES
    loaded,     \* the entry is set up
    heard,      \* the scooter has advertised of late (coordinator.available)
    linked,     \* client.is_connected
    values,     \* state.values: the fill each value was decoded from
    raw,        \* state.raw: the fill each raw payload is of
    hardware,   \* _hardware_id
    info,       \* coordinator.info
    reported    \* history: registers that were ever decoded, since the set-up

vars == <<loaded, heard, linked, values, raw, hardware, info, reported>>

\* The fields of ScooterInfo that come from registers.
InfoKeys ==
    {"serial_number", "controller_firmware", "ble_firmware", "bms_firmware",
     "bms_serial_number"}

Nothing == [k \in Keys |-> None]

NewInfo == [read |-> [k \in InfoKeys |-> None], hardware |-> DEFAULT_HARDWARE_ID]

Infos ==
    [read : [InfoKeys -> Fills \union {None}],
     hardware : HardwareIds \union {DEFAULT_HARDWARE_ID}]

TypeOK ==
    /\ loaded \in BOOLEAN /\ heard \in BOOLEAN /\ linked \in BOOLEAN
    /\ values \in [Keys -> Fills \union {None}]
    /\ raw \in [Keys -> Fills \union {None}]
    /\ hardware \in HardwareIds \union {None}
    /\ info \in Infos
    /\ reported \subseteq Keys
    /\ \A k \in Keys : values[k] # None =>
           raw[k] # None /\ Converts(RegisterOf(k), Payload(values[k], RegisterOf(k)))

Init ==
    /\ loaded = FALSE /\ heard = FALSE /\ linked = FALSE
    /\ values = Nothing /\ raw = Nothing
    /\ hardware = None /\ info = NewInfo
    /\ reported = {}
-----------------------------------------------------------------------------
(* The entry and its coordinator.  Definitions marked "fault" are seeded   *)
(* faults: no action uses them.                                            *)

\* async_setup_entry: a new client and a new coordinator.
SetUp ==
    /\ ~loaded
    /\ loaded' = TRUE /\ linked' = FALSE
    /\ values' = Nothing /\ raw' = Nothing /\ reported' = {}
    /\ hardware' = None /\ info' = NewInfo
    /\ UNCHANGED heard

\* async_unload_entry.
Unload ==
    /\ loaded
    /\ loaded' = FALSE /\ linked' = FALSE
    /\ UNCHANGED <<heard, values, raw, hardware, info, reported>>

\* _async_handle_bluetooth_event, for an advertisement that carries hardware ID
\* h or no manufacturer data.
Advertise(h) ==
    /\ loaded
    /\ heard' = TRUE
    /\ hardware' = IF h = None THEN hardware ELSE h
    /\ UNCHANGED <<loaded, linked, values, raw, info, reported>>

\* No advertisement for a while.
GoesQuiet ==
    /\ heard' = FALSE
    /\ UNCHANGED <<loaded, linked, values, raw, hardware, info, reported>>

LinkDrop ==
    /\ linked' = FALSE
    /\ UNCHANGED <<loaded, heard, values, raw, hardware, info, reported>>

Decodable_All(keys, fill) == keys   \* fault: a value is stored before it decodes

Decodable_Once(keys, fill) ==   \* fault: what has a value is not decoded again
    {k \in keys : values[k] = None /\ Converts(RegisterOf(k), Payload(fill, RegisterOf(k)))}

\* The registers that decode when they are read with a fill.
Decodable(keys, fill) ==
    {k \in keys : Converts(RegisterOf(k), Payload(fill, RegisterOf(k)))}

Merge_Replaces(old, keys, fill) ==   \* fault: the snapshot replaces the state
    [k \in Keys |-> IF k \in keys THEN fill ELSE None]

\* ScooterState.update.
Merge(old, keys, fill) == [k \in Keys |-> IF k \in keys THEN fill ELSE old[k]]

\* hardware_id of _async_update's call of build_info.
AdvertisedModel == IF hardware = None THEN DEFAULT_HARDWARE_ID ELSE hardware

BuildInfo_OfSnapshot(read, keys, fill) ==   \* fault: of what this poll has read
    [read |-> [k \in InfoKeys |-> IF k \in keys THEN fill ELSE None],
     hardware |-> AdvertisedModel]

\* client.build_info, of the merged state.
BuildInfo(read, keys, fill) ==
    [read |-> [k \in InfoKeys |-> read[k]], hardware |-> AdvertisedModel]

\* _async_update, when all goes well; lost is what could not be read.
Poll(fill, lost) ==
    /\ loaded
    /\ LET first == values = Nothing \/ ~linked
           read == (IF first THEN Keys ELSE DYNAMIC_REGISTERS) \ lost
           decoded == Decodable(read, fill)
       IN  /\ values' = Merge(values, decoded, fill)
           /\ raw' = Merge(raw, read, fill)
           /\ reported' = reported \union decoded
           /\ info' = IF first THEN BuildInfo(values', decoded, fill) ELSE info
    /\ linked' = TRUE
    /\ UNCHANGED <<loaded, heard, hardware>>

Next ==
    \/ SetUp \/ Unload \/ GoesQuiet \/ LinkDrop
    \/ \E h \in HardwareIds \union {None} : Advertise(h)
    \/ \E fill \in Fills, lost \in Losses : Poll(fill, lost)

Spec == Init /\ [][Next]_vars
-----------------------------------------------------------------------------
(* The entities.                                                           *)

\* state.get, of a register that was decoded.
Get(key) == Convert(RegisterOf(key), Payload(values[key], RegisterOf(key)))

\* The getters of sensor.py, each with the register it reads.
Value(key) == [register |-> key, fn |-> "value", arg |-> "none"]
Temperature(i) == [register |-> "battery_temperatures", fn |-> "temperature", arg |-> i]
CellStat(stat) == [register |-> "cell_voltages", fn |-> "cell", arg |-> stat]

\* SENSORS.
RideSensors ==
    {"battery_level", "battery_percent", "speed", "total_distance", "trip_distance",
     "remaining_range", "body_temperature"}
TemperatureSensors == {"battery_temperature_1", "battery_temperature_2"}
BatterySensors ==
    {"battery_voltage", "battery_current", "battery_remaining_capacity",
     "battery_design_capacity", "battery_cycles", "battery_deep_discharges"}
CellSensors == {"cell_voltage_min", "cell_voltage_max", "cell_voltage_delta"}
OtherSensors ==
    {"uptime", "max_power", "error_code", "warning_code", "gear_mode", "light_mode",
     "traction_control"}
SENSORS ==
    RideSensors \union TemperatureSensors \union BatterySensors \union CellSensors
        \union OtherSensors

\* value_fn of a sensor's description.
ValueFn(sensor) ==
    CASE sensor = "battery_temperature_1" -> Temperature(0)
      [] sensor = "battery_temperature_2" -> Temperature(1)
      [] sensor = "cell_voltage_min" -> CellStat("min")
      [] sensor = "cell_voltage_max" -> CellStat("max")
      [] sensor = "cell_voltage_delta" -> CellStat("delta")
      [] OTHER -> Value(sensor)

Summary(stat, cells) ==
    LET volts == {cells[i] : i \in DOMAIN cells}
    IN  CASE stat = "min" -> Min(volts)
          [] stat = "max" -> Max(volts)
          [] stat = "delta" -> Max(volts) - Min(volts)

\* The registers whose values are tuples, which _value drops.
Tuples == {"temperatures", "cells"}

\* native_value.
NativeValue(sensor) ==
    LET f == ValueFn(sensor)
        value == Get(f.register)
    IN  IF values[f.register] = None THEN None
        ELSE CASE f.fn = "value" ->
                    IF RegisterOf(f.register).decode \in Tuples THEN None ELSE value
               [] f.fn = "temperature" ->
                    IF f.arg >= Len(value) THEN None ELSE value[f.arg + 1]
               [] f.fn = "cell" ->
                    IF value = <<>> THEN None ELSE Summary(f.arg, value)

\* BINARY_SENSORS: "locked" is on when the scooter is not.
BINARY_SENSORS == {"locked", "problem"}

Truthy(key) == IF values[key] = None THEN FALSE ELSE Get(key) # 0

IsOn(sensor) ==
    CASE sensor = "locked" -> IF values["locked"] = None THEN None ELSE ~Get("locked")
      [] sensor = "problem" ->
           IF values["error_code"] = None /\ values["warning_code"] = None THEN None
           ELSE Truthy("error_code") \/ Truthy("warning_code")

\* available.
Available(sensor) ==
    /\ loaded /\ heard
    /\ IF sensor \in SENSORS THEN NativeValue(sensor) # None ELSE IsOn(sensor) # None

\* async_get_config_entry_diagnostics: what it gives of a register.
Diagnostics(key) == [raw |-> raw[key], value |-> values[key]]
-----------------------------------------------------------------------------
\* What an entity shows of, and what must have been reported for it.
Sources(sensor) ==
    CASE sensor \in SENSORS -> {ValueFn(sensor).register}
      [] sensor = "locked" -> {"locked"}
      [] sensor = "problem" -> {"error_code", "warning_code"}

\* A scooter that is heard shows everything it ever reported since the set-up,
\* whatever later polls fail to read ("available: Return True once the scooter
\* has reported this value"); only a pack that reports no cell voltage at all
\* has no cell to show.
ShownOnceReported ==
    loaded /\ heard =>
        \A s \in SENSORS \union BINARY_SENSORS :
            Sources(s) \intersect reported # {} =>
                Available(s) \/ (s \in CellSensors /\ Get("cell_voltages") = <<>>)

\* What is known of a scooter's identity is not forgotten when a poll on a new
\* link fails to read it again.
IdentityIsKept ==
    [][loaded /\ loaded' =>
         \A k \in InfoKeys : info.read[k] # None => info'.read[k] # None]_vars

\* "Each register appears with its raw payload, the scale applied, and the
\* resulting value" (README, of the diagnostics).  The two are merged apart, and
\* a payload that does not decode leaves the value of an earlier one; whenever
\* the raw payload shown decodes, the value shown is what it decodes to.
RawExplainsValue ==
    \A k \in Keys :
        LET shown == Diagnostics(k)
        IN  shown.value # None =>
              /\ shown.raw # None
              /\ Converts(RegisterOf(k), Payload(shown.raw, RegisterOf(k))) =>
                   Get(k) = Convert(RegisterOf(k), Payload(shown.raw, RegisterOf(k)))
=============================================================================
