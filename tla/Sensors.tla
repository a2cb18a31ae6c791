------------------------------ MODULE Sensors ------------------------------
(***************************************************************************)
(* The sensors command: getSensors (collector.c) reads every device of the *)
(* I2C bus (pi2c.c) into the static sensor_data, which still holds the     *)
(* readings of the round before.  Any transfer may fail; the value of a    *)
(* failed read is an uninitialised byte of the wrapper's stack.            *)
(*                                                                         *)
(* Register contents are numbers and are converted as the drivers do it.   *)
(* The compensation of the BME280 is a function of the calibration, of     *)
(* t_fine and of a measurement, written as the tuple of these: its 64-bit  *)
(* arithmetic is left out.                                                 *)
(***************************************************************************)
EXTENDS Integers

CONSTANTS
  Weathers,  \* the states of the world that the devices measure
  TmpIds,    \* the TMP100 sensors on the bus, 0 .. 7 in the code
  TmpReg,    \* [weather -> [sensor -> the temperature register's two bytes]]
  LtrReg,    \* [weather -> [channel -> low and high byte]]
  MpuReg     \* [weather -> [axis -> high and low byte]]

Byte == 0 .. 255
Channels == {0, 1}
Axes == {"x", "y", "z"}

ASSUME SensorAssumption ==
  /\ 0 \in TmpIds /\ TmpIds \subseteq 0 .. 7
  /\ \A w \in Weathers :
       /\ \A n \in TmpIds : TmpReg[w][n] \in Byte \X Byte
       /\ \A ch \in Channels : LtrReg[w][ch] \in Byte \X Byte
       /\ \A axis \in Axes : MpuReg[w][axis] \in Byte \X Byte

VARIABLES
  weather,
  bme, ltr, tmp, mpu,  \* sensor_data
  handle,              \* getSensors' bme280_t, shared by both BME280
  bme280_error,
  silent,              \* history: devices with a failed transfer this round
  round                \* where getSensors is

sensorVars == <<weather, bme, ltr, tmp, mpu, handle, bme280_error, silent,
                round>>

Bmes == {"i1", "e2"}

(***************************************************************************)
(* Conversions.                                                            *)
(***************************************************************************)

\* I2C_read16: the first byte is the high one.
I2C_read16(bytes) == bytes[1] * 256 + bytes[2]

int16(n) == IF n % 65536 < 32768 THEN n % 65536 ELSE (n % 65536) - 65536

\* C's division rounds towards zero.
Quotient(n, d) == IF n >= 0 THEN n \div d ELSE -((-n) \div d)

\* .0625C per count to 0.01C per count; the register is taken as unsigned.
tmp100_get_temperature(bytes) == int16(((I2C_read16(bytes) \div 16) * 25) \div 4)

\* Low and high byte are exchanged; the int16_t result goes to a uint16_t.
ltr329_get_intensity(bytes) ==
  LET val == I2C_read16(bytes)
  IN int16(val \div 256 + (val % 256) * 256) % 65536

mpu9250_get(bytes) == int16(Quotient(int16(I2C_read16(bytes)) * 1000, 16384))

(***************************************************************************)
(* The BME280.  A measurement is the device and the weather it comes from; *)
(* Garbage comes from a failed read and from everything computed with it.  *)
(***************************************************************************)

Garbage == <<>>
Read(failed, what, value) == IF what \in failed THEN Garbage ELSE value
Compensated(calib, t_fine, adc) ==
  IF Garbage \in {calib, t_fine, adc} THEN Garbage ELSE <<calib, t_fine, adc>>

NoReading == [press |-> <<"zero">>, hum |-> <<"zero">>, temp |-> <<"zero">>]
Uninitialised == [calib |-> Garbage, t_fine |-> Garbage]

\* BME280_getTemperature: t_fine follows from the calibration.
Temperature(calib, adc) ==
  IF Garbage \in {calib, adc} THEN Garbage ELSE <<calib, adc>>

\* Slip: BME280_Init does not read the temperature.
BmeInitWithoutTemperature(dev, failed) ==
  [calib |-> Read(failed, "calib", <<dev>>), t_fine |-> handle.t_fine]

\* BME280_Init reads the calibration and, for t_fine, the temperature.
BME280_Init(dev, failed) ==
  LET calib == Read(failed, "calib", <<dev>>)
  IN [calib |-> calib,
      t_fine |-> Temperature(calib, Read(failed, "init", <<dev, weather>>))]

\* getPressure and getHumidity use t_fine; getTemperature sets it again.
BmeReading(dev, h, failed) ==
  LET adc(what) == Read(failed, what, <<dev, weather>>)
  IN [press |-> Compensated(h.calib, h.t_fine, adc("press")),
      hum |-> Compensated(h.calib, h.t_fine, adc("hum")),
      temp |-> Temperature(h.calib, adc("temp"))]

(***************************************************************************)
(* getSensors, one kind of device after the other.                         *)
(***************************************************************************)

cmd_sensors ==
  /\ round = "idle"
  /\ weather' \in Weathers \ {weather}
  /\ bme280_error' = {}
  /\ silent' = {}
  /\ round' = "i1"
  /\ UNCHANGED <<bme, ltr, tmp, mpu, handle>>

\* BME280_isAvailable compares whatever I2C_read8 left in val: after a failed
\* read the device may seem to be there.  handle is not used behind e2.
MeasureBme(dev) ==
  /\ round = dev
  /\ \E failed \in SUBSET {"id", "calib", "init", "press", "hum", "temp"} :
       /\ silent' = IF failed = {} THEN silent ELSE silent \cup {<<"bme", dev>>}
       /\ \/ LET h == BME280_Init(dev, failed)
                 reading == BmeReading(dev, h, failed)
             IN /\ bme' = [bme EXCEPT ![dev] = reading]
                /\ handle' = IF dev = "e2" THEN Uninitialised
                             ELSE [h EXCEPT !.t_fine = reading.temp]
                /\ UNCHANGED bme280_error
          \/ /\ "id" \in failed
             /\ bme' = [bme EXCEPT ![dev] = NoReading]
             /\ bme280_error' = bme280_error \cup {dev}
             /\ handle' = IF dev = "e2" THEN Uninitialised ELSE handle
  /\ round' = IF dev = "i1" THEN "e2" ELSE "ltr"
  /\ UNCHANGED <<weather, ltr, tmp, mpu>>

\* Slip: a sensor that does not answer leaves its fields alone.
MeasureLtrKeeps ==
  /\ round = "ltr"
  /\ \E failed \in SUBSET Channels :
       /\ ltr' = [ch \in Channels |->
                    IF failed = Channels THEN ltr[ch]
                    ELSE IF ch \in failed THEN 0
                    ELSE ltr329_get_intensity(LtrReg[weather][ch])]
       /\ silent' = silent \cup {<<"ltr", ch>> : ch \in failed}
  /\ round' = "tmp"
  /\ UNCHANGED <<weather, bme, tmp, mpu, handle, bme280_error>>

\* A channel is 0 when its read fails, and both are when the id does.
MeasureLtr ==
  /\ round = "ltr"
  /\ \E failed \in SUBSET Channels :
       /\ ltr' = [ch \in Channels |->
                    IF ch \in failed THEN 0
                    ELSE ltr329_get_intensity(LtrReg[weather][ch])]
       /\ silent' = silent \cup {<<"ltr", ch>> : ch \in failed}
  /\ round' = "tmp"
  /\ UNCHANGED <<weather, bme, tmp, mpu, handle, bme280_error>>

\* The sensor that is read for field n: collector.c 377 asks sensor 0 for the
\* field of sensor 2.
TmpSource(n) == IF n = 2 THEN 0 ELSE n

\* Sensor n answers tmp100_isAvailable and the source of its field answers the
\* read, or the field is 0.
MeasureTmp ==
  /\ round = "tmp"
  /\ \E failed \in SUBSET TmpIds :
       /\ tmp' = [n \in TmpIds |->
                    IF n \in failed THEN 0
                    ELSE tmp100_get_temperature(TmpReg[weather][TmpSource(n)])]
       /\ silent' = silent \cup {<<"tmp", n>> : n \in failed}
  /\ round' = "mpu"
  /\ UNCHANGED <<weather, bme, ltr, mpu, handle, bme280_error>>

MeasureMpu ==
  /\ round = "mpu"
  /\ \E failed \in SUBSET Axes :
       /\ mpu' = [axis \in Axes |-> IF axis \in failed THEN 0
                                    ELSE mpu9250_get(MpuReg[weather][axis])]
       /\ silent' = silent \cup {<<"mpu", axis>> : axis \in failed}
  /\ round' = "idle"
  /\ UNCHANGED <<weather, bme, ltr, tmp, handle, bme280_error>>

getSensors ==
  \/ \E dev \in Bmes : MeasureBme(dev)
  \/ MeasureLtr \/ MeasureTmp \/ MeasureMpu

\* sensor_data is static and starts as zero.
SensorsInit ==
  /\ weather \in Weathers
  /\ bme = [dev \in Bmes |-> NoReading]
  /\ ltr = [ch \in Channels |-> 0]
  /\ tmp = [n \in TmpIds |-> 0]
  /\ mpu = [axis \in Axes |-> 0]
  /\ handle = Uninitialised
  /\ bme280_error = {} /\ round = "idle"
  /\ silent = {<<"bme", dev>> : dev \in Bmes}
              \cup {<<"ltr", ch>> : ch \in Channels}
              \cup {<<"tmp", n>> : n \in TmpIds}
              \cup {<<"mpu", axis>> : axis \in Axes}

SensorsNext == cmd_sensors \/ getSensors

(***************************************************************************)
(* Properties.                                                             *)
(***************************************************************************)

\* What the devices measure, in the units that collector.h 94-107 names.
Lux(bytes) == bytes[1] + 256 * bytes[2]
BelowZero(bytes) == bytes[1] >= 128
Centidegrees(bytes) ==
  100 * (IF BelowZero(bytes) THEN bytes[1] - 256 ELSE bytes[1])
  + (25 * (bytes[2] \div 16)) \div 4

\* What the field of a TMP100 shows: 256 degrees more than it should below zero.
Reported(bytes) == Centidegrees(bytes) + (IF BelowZero(bytes) THEN 25600 ELSE 0)

IsMilliG(n, bytes) ==
  LET counts == (IF bytes[1] < 128 THEN bytes[1] ELSE bytes[1] - 256) * 256
                + bytes[2]
      exact == counts * 1000
  IN exact - 16384 < n * 16384 /\ n * 16384 < exact + 16384

\* After a round no field is left over from an earlier one: that of a device
\* that did not answer is 0, and every other one is what a device measures now,
\* in the unit of the field (collector.c 299-447).  It is the field's own
\* device, except that sensor 2's temperature is sensor 0's (collector.c 377),
\* and the value is right, except that temperatures below zero come out exactly
\* 256 degrees too high (tmp100.c 21).  The BME280s are OwnCompensation's.
DataPointIsCurrent ==
  round = "idle" =>
    /\ \A ch \in Channels :
         ltr[ch] = IF <<"ltr", ch>> \in silent THEN 0
                   ELSE Lux(LtrReg[weather][ch])
    /\ \A n \in TmpIds :
         tmp[n] = IF <<"tmp", n>> \in silent THEN 0
                  ELSE Reported(TmpReg[weather][IF n = 2 THEN 0 ELSE n])
    /\ \A axis \in Axes :
         IF <<"mpu", axis>> \in silent THEN mpu[axis] = 0
         ELSE IsMilliG(mpu[axis], MpuReg[weather][axis])

\* Both BME280 go through one handle: a device whose transfers all succeed is
\* compensated with its own calibration and its own temperature of this round,
\* and one that is reported missing has no reading (collector.c 301-330,
\* bme280.c 74-107).
OwnCompensation ==
  round = "idle" =>
    \A dev \in Bmes :
      LET m == <<dev, weather>>
          t == Temperature(<<dev>>, m)
          p == Compensated(<<dev>>, t, m)
      IN /\ dev \in bme280_error => bme[dev] = NoReading
         /\ <<"bme", dev>> \notin silent =>
              bme[dev] = [press |-> p, hum |-> p, temp |-> t]
=============================================================================
