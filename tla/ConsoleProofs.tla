---------------------------- MODULE ConsoleProofs --------------------------
(***************************************************************************)
(* Proofs about the console commands: membench for every block size and    *)
(* length of a copy, sensors for every set of readings, and tree for every *)
(* card.                                                                   *)
(***************************************************************************)
EXTENDS Console, SequenceTheorems, FiniteSetTheorems, NaturalsInduction,
        WellFoundedInduction, TLAPS

(***************************************************************************)
(* membench.                                                               *)
(***************************************************************************)

\* The bytes of whole words are there, and no other.
WordsCopied(n) ==
  dest = [k \in 0 .. MaxSize - 1 |-> IF k < n * WordBytes THEN k ELSE Old]

\* The stream has an owner exactly while a copy runs.  A copy of at most one
\* block is made by CopyLast and CopyBytes alone.
Copying ==
  /\ size \in 0 .. MaxSize /\ words \in Nat
  /\ step \in {"idle", "blocks", "bytes", "stop"}
  /\ allocated \in BOOLEAN /\ asserted \in BOOLEAN
  /\ ~asserted
  /\ step = "idle" => ~allocated
  /\ DOMAIN dest = 0 .. MaxSize - 1
  /\ size \div WordBytes <= max_block =>
       /\ step = "blocks" => words = size \div WordBytes /\ dest = Untouched
       /\ step = "bytes" => WordsCopied(size \div WordBytes)
       /\ CopyIsMemcpy

\* A step of membench keeps the copy in order.
LEMMA CopyingInductive ==
  ASSUME Copying, CopyNext
  PROVE  Copying'
<1> USE CopyAssumption DEF WordBytes, Old
<1>1. CASE memcpy_dma_start
  <2>1. PICK n \in 0 .. MaxSize : size' = n /\ words' = n \div WordBytes
    BY <1>1 DEF memcpy_dma_start
  <2>2. step = "idle" /\ ~allocated /\ asserted' = allocated /\ allocated' = TRUE
        /\ step' = "blocks" /\ dest' = Untouched
    BY <1>1 DEF memcpy_dma_start, Copying
  <2>3. n \div 4 \in Nat
    OBVIOUS
  <2>4. allocated' \in BOOLEAN /\ asserted' \in BOOLEAN /\ ~asserted'
    BY <2>2, Zenon DEF Copying
  <2> QED
    BY <2>1, <2>2, <2>3, <2>4 DEF Copying, Untouched, CopyIsMemcpy
<1>2. CASE CopyBlock
  BY <1>2 DEF CopyBlock, DmaCopy, Copying, CopyIsMemcpy
<1>3. CASE CopyLast
  BY <1>3 DEF CopyLast, DmaCopy, Copying, CopyIsMemcpy, WordsCopied, Untouched
<1>4. CASE CopyBytes
  BY <1>4 DEF CopyBytes, Copying, CopyIsMemcpy, WordsCopied
<1>5. CASE memcpy_dma_stop
  BY <1>5 DEF memcpy_dma_stop, Copying, CopyIsMemcpy
<1> QED
  BY <1>1, <1>2, <1>3, <1>4, <1>5 DEF CopyNext

\* The copy is in order in every reachable state of the console.
LEMMA CopyingHolds == Spec => []Copying
<1>1. Init => Copying
  <2> SUFFICES ASSUME Init PROVE Copying
    OBVIOUS
  <2>1. allocated \in BOOLEAN /\ asserted \in BOOLEAN /\ ~asserted /\ ~allocated
    BY Zenon DEF Init, CopyInit
  <2>2. /\ size \in 0 .. MaxSize /\ words \in Nat /\ step = "idle"
        /\ DOMAIN dest = 0 .. MaxSize - 1
    BY CopyAssumption DEF Init, CopyInit, Untouched
  <2> QED
    BY <2>1, <2>2 DEF Copying, CopyIsMemcpy
<1>2. Copying /\ [Next]_vars => Copying'
  <2> SUFFICES ASSUME Copying, [Next]_vars PROVE Copying'
    OBVIOUS
  <2>1. CASE RunMembench
    BY <2>1, CopyingInductive DEF RunMembench
  <2>2. CASE UNCHANGED copyVars
    BY <2>2 DEF copyVars, Copying, CopyIsMemcpy, WordsCopied
  <2> QED
    BY <2>1, <2>2 DEF Next, RunSensors, RunTree, vars
<1> QED
  BY <1>1, <1>2, PTL DEF Spec

\* A copy that fits into one transfer is memcpy, for every block size and
\* length (memcpy_dma.c 85-104).
THEOREM CopyWorks == Spec => []CopyIsMemcpy
<1>1. Copying => CopyIsMemcpy
  BY DEF Copying, CopyIsMemcpy
<1> QED
  BY <1>1, CopyingHolds, PTL

\* The stream is never allocated twice (memcpy_dma.c 72).
THEOREM StreamIsFree == Spec => []NeverAllocatedTwice
<1>1. Copying => NeverAllocatedTwice
  BY DEF Copying, NeverAllocatedTwice
<1> QED
  BY <1>1, CopyingHolds, PTL

(***************************************************************************)
(* sensors: the conversions.                                               *)
(***************************************************************************)

\* A register is two bytes.
LEMMA TwoBytes ==
  ASSUME NEW b \in Byte \X Byte
  PROVE  /\ b[1] \in Int /\ 0 <= b[1] /\ b[1] < 256
         /\ b[2] \in Int /\ 0 <= b[2] /\ b[2] < 256
<1>1. b[1] \in Byte /\ b[2] \in Byte
  OBVIOUS
<1> QED
  BY <1>1, SMT DEF Byte

\* What fits into 16 bits is not changed by them.
LEMMA Int16 ==
  ASSUME NEW n \in Int
  PROVE  /\ -32768 <= n /\ n < 32768 => int16(n) = n
         /\ 32768 <= n /\ n < 65536 => int16(n) = n - 65536
         /\ 0 <= n /\ n < 65536 => int16(n) % 65536 = n
<1>1. CASE 0 <= n /\ n < 65536
  <2>1. n % 65536 = n
    BY <1>1, SMT
  <2>2. CASE n < 32768
    <3>1. int16(n) = n
      BY <2>1, <2>2, SMT DEF int16
    <3> QED
      BY <2>1, <2>2, <3>1, SMT
  <2>3. CASE 32768 <= n
    <3>1. int16(n) = n - 65536
      BY <2>1, <2>3, SMT DEF int16
    <3>2. (n - 65536) % 65536 = n
      BY <1>1, SMT
    <3> QED
      BY <2>3, <3>1, <3>2, SMT
  <2> QED
    BY <2>2, <2>3, SMT
<1>2. CASE -32768 <= n /\ n < 0
  <2>1. n % 65536 = n + 65536
    BY <1>2, SMT
  <2> QED
    BY <1>2, <2>1, SMT DEF int16
<1> QED
  BY <1>1, <1>2, SMT

\* The light sensor's bytes come back in order.
LEMMA LuxIsRead ==
  ASSUME NEW b \in Byte \X Byte
  PROVE  ltr329_get_intensity(b) = Lux(b)
<1> DEFINE lo == b[1]  hi == b[2]  val == lo * 256 + hi
<1>1. /\ lo \in Int /\ 0 <= lo /\ lo < 256
      /\ hi \in Int /\ 0 <= hi /\ hi < 256
  BY TwoBytes
<1>2. ltr329_get_intensity(b) = int16(val \div 256 + (val % 256) * 256) % 65536
  BY SMT DEF ltr329_get_intensity, I2C_read16
<1>3. Lux(b) = lo + 256 * hi
  BY SMT DEF Lux
<1> HIDE DEF lo, hi
<1>4. val \div 256 = lo /\ val % 256 = hi
  BY <1>1, SMT
<1>5. lo + hi * 256 \in Int /\ 0 <= lo + hi * 256 /\ lo + hi * 256 < 65536
      /\ lo + hi * 256 = lo + 256 * hi
  BY <1>1, SMT
<1>6. int16(lo + hi * 256) % 65536 = lo + hi * 256
  BY <1>5, Int16
<1> QED
  BY <1>2, <1>3, <1>4, <1>5, <1>6, SMT

\* A temperature is converted to hundredths of a degree, and one below zero to
\* 256 degrees more: all 12 bits of the reading are taken as its value.
LEMMA CentidegreesAreRead ==
  ASSUME NEW b \in Byte \X Byte
  PROVE  tmp100_get_temperature(b) = Reported(b)
<1> DEFINE hi == b[1]  lo == b[2]  q == lo \div 16
<1>1. /\ hi \in Int /\ 0 <= hi /\ hi < 256
      /\ lo \in Int /\ 0 <= lo /\ lo < 256
  BY TwoBytes
<1>2. tmp100_get_temperature(b) = int16((((hi * 256 + lo) \div 16) * 25) \div 4)
  BY SMT DEF tmp100_get_temperature, I2C_read16
<1> DEFINE shown == Reported(b)
<1>3. shown = 100 * hi + (25 * q) \div 4
  <2>1. Centidegrees(b) = 100 * (IF hi >= 128 THEN hi - 256 ELSE hi) + (25 * q) \div 4
    BY SMT DEF Centidegrees, BelowZero
  <2>2. shown = 100 * (IF hi >= 128 THEN hi - 256 ELSE hi) + (25 * q) \div 4
                + (IF hi >= 128 THEN 25600 ELSE 0)
    BY <2>1, SMT DEF Reported, BelowZero
  <2>3. (25 * q) \div 4 \in Int
    BY <1>1, SMT
  <2> HIDE DEF hi, q, shown
  <2>4. CASE hi >= 128
    BY <1>1, <2>2, <2>3, <2>4, SMT
  <2>5. CASE ~(hi >= 128)
    BY <1>1, <2>2, <2>3, <2>5, SMT
  <2> QED
    BY <2>4, <2>5
<1> HIDE DEF lo, hi, shown
<1>4. /\ q \in Int /\ 0 <= q /\ q < 16
      /\ (hi * 256 + lo) \div 16 = 16 * hi + q
  BY <1>1, SMT
<1> HIDE DEF q
<1>5. ((16 * hi + q) * 25) \div 4 = 100 * hi + (25 * q) \div 4
  BY <1>1, <1>4, SMT
<1> DEFINE n == 100 * hi + (25 * q) \div 4
<1>6. n \in Int /\ 0 <= n /\ n < 32768
  BY <1>1, <1>4, SMT
<1> HIDE DEF n
<1>7. int16(n) = n
  BY <1>6, Int16
<1>8. tmp100_get_temperature(b) = shown
  BY <1>2, <1>3, <1>4, <1>5, <1>7, SMT DEF n
<1> QED
  BY <1>8 DEF shown

\* An acceleration is converted to thousandths of g, rounded towards zero.
LEMMA MilliGIsRead ==
  ASSUME NEW b \in Byte \X Byte
  PROVE  IsMilliG(mpu9250_get(b), b)
<1> DEFINE hi == b[1]  lo == b[2]
           counts == (IF hi < 128 THEN hi ELSE hi - 256) * 256 + lo
           exact == counts * 1000
           q == Quotient(exact, 16384)
<1>1. /\ hi \in Int /\ 0 <= hi /\ hi < 256
      /\ lo \in Int /\ 0 <= lo /\ lo < 256
  BY TwoBytes
<1>2. mpu9250_get(b) = int16(Quotient(int16(hi * 256 + lo) * 1000, 16384))
  BY SMT DEF mpu9250_get, I2C_read16
<1>3. IsMilliG(mpu9250_get(b), b) <=>
        exact - 16384 < mpu9250_get(b) * 16384 /\ mpu9250_get(b) * 16384 < exact + 16384
  BY SMT DEF IsMilliG
<1> HIDE DEF lo, hi
<1>4. /\ hi * 256 + lo \in Int /\ 0 <= hi * 256 + lo /\ hi * 256 + lo < 65536
      /\ counts \in Int /\ -32768 <= counts /\ counts < 32768
      /\ hi < 128 => hi * 256 + lo < 32768 /\ counts = hi * 256 + lo
      /\ ~(hi < 128) => 32768 <= hi * 256 + lo /\ counts = hi * 256 + lo - 65536
  BY <1>1, SMT
<1> HIDE DEF counts
<1>5. int16(hi * 256 + lo) = counts
  <2> DEFINE raw == hi * 256 + lo
  <2>1. /\ raw \in Int /\ 0 <= raw /\ raw < 65536
        /\ (raw < 32768 /\ counts = raw) \/ (32768 <= raw /\ counts = raw - 65536)
    BY <1>1, <1>4, SMT
  <2> SUFFICES int16(raw) = counts
    BY SMT
  <2> HIDE DEF raw
  <2>2. CASE raw < 32768 /\ counts = raw
    <3>1. -32768 <= raw /\ raw < 32768
      BY <2>1, <2>2, SMT
    <3> QED
      BY <2>1, <2>2, <3>1, Int16, SMT
  <2>3. CASE 32768 <= raw /\ counts = raw - 65536
    BY <2>1, <2>3, Int16, SMT
  <2> QED
    BY <2>1, <2>2, <2>3, SMT
<1>6. exact \in Int /\ -32768000 <= exact /\ exact < 32768000
  BY <1>4, SMT
<1>7. mpu9250_get(b) = int16(q)
  BY <1>2, <1>5, SMT
<1> HIDE DEF exact
<1>8. /\ q \in Int /\ exact - 16384 < q * 16384 /\ q * 16384 < exact + 16384
      /\ -32768 <= q /\ q < 32768
  <2>1. CASE exact >= 0
    <3>1. q = exact \div 16384
      BY <1>6, <2>1, SMT DEF Quotient
    <3> QED
      BY <1>6, <2>1, <3>1, SMT
  <2>2. CASE exact < 0
    <3>1. q = -((-exact) \div 16384)
      BY <1>6, <2>2, SMT DEF Quotient
    <3> QED
      BY <1>6, <2>2, <3>1, SMT
  <2> QED
    BY <1>6, <2>1, <2>2, SMT
<1> HIDE DEF q
<1>9. mpu9250_get(b) = q
  BY <1>7, <1>8, Int16, SMT
<1> QED
  BY <1>3, <1>8, <1>9, SMT

(***************************************************************************)
(* sensors: a round.                                                       *)
(***************************************************************************)

\* Each kind's fields are right once its turn is over.
LtrRight ==
  \A ch \in Channels :
    ltr[ch] = IF <<"ltr", ch>> \in silent THEN 0 ELSE Lux(LtrReg[weather][ch])
TmpRight ==
  \A n \in TmpIds :
    tmp[n] = IF <<"tmp", n>> \in silent THEN 0
             ELSE Reported(TmpReg[weather][IF n = 2 THEN 0 ELSE n])
MpuRight ==
  \A axis \in Axes :
    IF <<"mpu", axis>> \in silent THEN mpu[axis] = 0
    ELSE IsMilliG(mpu[axis], MpuReg[weather][axis])

\* What a BME280 that answers reads with its own calibration.
OwnReading(dev) ==
  LET m == <<dev, weather>>
      t == Temperature(<<dev>>, m)
      p == Compensated(<<dev>>, t, m)
  IN [press |-> p, hum |-> p, temp |-> t]
BmeRight(dev) ==
  /\ dev \in bme280_error => bme[dev] = NoReading
  /\ <<"bme", dev>> \notin silent => bme[dev] = OwnReading(dev)

\* A device that has not had its turn is not among the silent ones.
Measured ==
  /\ weather \in Weathers
  /\ round \in {"idle", "i1", "e2", "ltr", "tmp", "mpu"}
  /\ DOMAIN bme = Bmes
  /\ round = "i1" => silent = {} /\ bme280_error = {}
  /\ round = "e2" => silent \subseteq {<<"bme", "i1">>} /\ bme280_error \subseteq {"i1"}
  /\ round \notin {"i1", "idle"} => \A ch \in Channels :
       <<"ltr", ch>> \in silent => round \in {"tmp", "mpu"}
  /\ round \notin {"i1", "idle"} => \A n \in TmpIds :
       <<"tmp", n>> \in silent => round = "mpu"
  /\ round # "idle" => \A axis \in Axes : <<"mpu", axis>> \notin silent
  /\ round \notin {"i1"} => BmeRight("i1")
  /\ round \notin {"i1", "e2"} => BmeRight("e2")
  /\ round \in {"tmp", "mpu", "idle"} => LtrRight
  /\ round \in {"mpu", "idle"} => TmpRight
  /\ round = "idle" => MpuRight

\* Names of different kinds are different.
LEMMA KindsDiffer ==
  ASSUME NEW a, NEW b, NEW x, NEW y
  PROVE  /\ <<a, x>> = <<b, y>> => a = b /\ x = y
         /\ <<"bme", x>> # <<"ltr", y>> /\ <<"bme", x>> # <<"tmp", y>>
         /\ <<"bme", x>> # <<"mpu", y>> /\ <<"ltr", x>> # <<"tmp", y>>
         /\ <<"ltr", x>> # <<"mpu", y>> /\ <<"tmp", x>> # <<"mpu", y>>
OBVIOUS

\* Initially nothing has been measured and every field is 0.
LEMMA MeasuredInit ==
  ASSUME SensorsInit
  PROVE  Measured
<1>1. LtrRight /\ TmpRight /\ MpuRight
  BY DEF SensorsInit, LtrRight, TmpRight, MpuRight
<1>2. BmeRight("i1") /\ BmeRight("e2")
  BY DEF SensorsInit, BmeRight, Bmes
<1> QED
  BY <1>1, <1>2 DEF SensorsInit, Measured

\* A BME280 is measured, or reported as missing.
LEMMA BmeMeasured ==
  ASSUME Measured, NEW dev \in Bmes, MeasureBme(dev)
  PROVE  Measured'
<1>1. /\ round = dev /\ round' = (IF dev = "i1" THEN "e2" ELSE "ltr")
      /\ weather' = weather /\ ltr' = ltr /\ tmp' = tmp /\ mpu' = mpu
      /\ dev \in {"i1", "e2"}
  BY DEF MeasureBme, Bmes
<1>2. PICK failed \in SUBSET {"id", "calib", "init", "press", "hum", "temp"} :
        /\ silent' = IF failed = {} THEN silent ELSE silent \cup {<<"bme", dev>>}
        /\ \/ /\ bme' = [bme EXCEPT ![dev] = BmeReading(dev, BME280_Init(dev, failed), failed)]
              /\ bme280_error' = bme280_error
           \/ /\ "id" \in failed /\ bme' = [bme EXCEPT ![dev] = NoReading]
              /\ bme280_error' = bme280_error \cup {dev}
  BY DEF MeasureBme
<1>3. /\ DOMAIN bme = Bmes /\ DOMAIN bme' = Bmes
      /\ \A d \in Bmes \ {dev} : bme'[d] = bme[d]
  BY <1>2 DEF Measured
<1>4. /\ dev \notin bme280_error /\ <<"bme", dev>> \notin silent
      /\ bme280_error \subseteq {"i1"} /\ silent \subseteq {<<"bme", "i1">>}
      /\ dev = "e2" => BmeRight("i1")
      /\ dev = "i1" => silent = {} /\ bme280_error = {}
  BY <1>1, KindsDiffer DEF Measured
<1>5. failed = {} => BmeReading(dev, BME280_Init(dev, failed), failed) = OwnReading(dev)
  BY DEF BmeReading, BME280_Init, Read, OwnReading
<1>6. BmeRight(dev)'
  <2>1. OwnReading(dev)' = OwnReading(dev)
    BY <1>1 DEF OwnReading
  <2> QED
    BY <1>2, <1>3, <1>4, <1>5, <2>1 DEF BmeRight
<1>7. ASSUME dev = "e2" PROVE BmeRight("i1")'
  <2>1. OwnReading("i1")' = OwnReading("i1")
    BY <1>1 DEF OwnReading
  <2>2. bme'["i1"] = bme["i1"]
    BY <1>3, <1>7 DEF Bmes
  <2>3. "i1" \in bme280_error' => "i1" \in bme280_error
    BY <1>2, <1>7
  <2>4. silent \subseteq silent'
    BY <1>2
  <2> QED
    BY <1>4, <1>7, <2>1, <2>2, <2>3, <2>4 DEF BmeRight
<1>8. silent' \subseteq {<<"bme", "i1">>, <<"bme", dev>>}
  BY <1>2, <1>4
<1>9. /\ \A ch \in Channels : <<"ltr", ch>> \notin silent'
      /\ \A n \in TmpIds : <<"tmp", n>> \notin silent'
      /\ \A axis \in Axes : <<"mpu", axis>> \notin silent'
  BY <1>8, KindsDiffer
<1>10. weather' \in Weathers
  BY <1>1 DEF Measured
<1>11. CASE dev = "i1"
  BY <1>1, <1>2, <1>3, <1>4, <1>6, <1>8, <1>9, <1>10, <1>11 DEF Measured
<1>12. CASE dev = "e2"
  BY <1>1, <1>3, <1>6, <1>7, <1>9, <1>10, <1>12 DEF Measured
<1> QED
  BY <1>1, <1>11, <1>12

\* What the other devices' turns leave alone.
LEMMA BmeStays ==
  ASSUME weather' = weather, bme' = bme, bme280_error' = bme280_error,
         silent \subseteq silent', NEW dev, BmeRight(dev)
  PROVE  BmeRight(dev)'
<1>1. OwnReading(dev)' = OwnReading(dev)
  BY DEF OwnReading
<1> QED
  BY <1>1 DEF BmeRight

\* A new round forgets who was silent.
LEMMA RoundBegins ==
  ASSUME Measured, cmd_sensors
  PROVE  Measured'
BY DEF Measured, cmd_sensors

\* The light sensor's turn.
LEMMA LtrMeasured ==
  ASSUME Measured, MeasureLtr
  PROVE  Measured'
<1>1. /\ round = "ltr" /\ round' = "tmp" /\ weather' = weather
      /\ bme' = bme /\ bme280_error' = bme280_error
  BY DEF MeasureLtr
<1>2. PICK failed \in SUBSET Channels :
        /\ ltr' = [ch \in Channels |->
                     IF ch \in failed THEN 0
                     ELSE ltr329_get_intensity(LtrReg[weather][ch])]
        /\ silent' = silent \cup {<<"ltr", ch>> : ch \in failed}
  BY DEF MeasureLtr
<1>3. /\ weather \in Weathers /\ DOMAIN bme = Bmes
      /\ BmeRight("i1") /\ BmeRight("e2")
      /\ \A ch \in Channels : <<"ltr", ch>> \notin silent
      /\ \A n \in TmpIds : <<"tmp", n>> \notin silent
      /\ \A axis \in Axes : <<"mpu", axis>> \notin silent
  BY <1>1 DEF Measured
<1>4. /\ \A ch \in Channels : <<"ltr", ch>> \in silent' <=> ch \in failed
      /\ \A n \in TmpIds : <<"tmp", n>> \notin silent'
      /\ \A axis \in Axes : <<"mpu", axis>> \notin silent'
  BY <1>2, <1>3, KindsDiffer
<1>5. BmeRight("i1")' /\ BmeRight("e2")'
  BY <1>1, <1>2, <1>3, BmeStays
<1>6. LtrRight'
  <2>1. \A ch \in Channels : ltr329_get_intensity(LtrReg[weather][ch]) = Lux(LtrReg[weather][ch])
    BY <1>3, SensorAssumption, LuxIsRead
  <2> QED
    BY <1>1, <1>2, <1>4, <2>1 DEF LtrRight
<1> QED
  BY <1>1, <1>3, <1>4, <1>5, <1>6 DEF Measured

\* The TMP100s' turn.
LEMMA TmpMeasured ==
  ASSUME Measured, MeasureTmp
  PROVE  Measured'
<1>1. /\ round = "tmp" /\ round' = "mpu" /\ weather' = weather
      /\ bme' = bme /\ bme280_error' = bme280_error /\ ltr' = ltr
  BY DEF MeasureTmp
<1>2. PICK failed \in SUBSET TmpIds :
        /\ tmp' = [n \in TmpIds |->
                     IF n \in failed THEN 0
                     ELSE tmp100_get_temperature(TmpReg[weather][TmpSource(n)])]
        /\ silent' = silent \cup {<<"tmp", n>> : n \in failed}
  BY DEF MeasureTmp
<1>3. /\ weather \in Weathers /\ DOMAIN bme = Bmes
      /\ BmeRight("i1") /\ BmeRight("e2") /\ LtrRight
      /\ \A n \in TmpIds : <<"tmp", n>> \notin silent
      /\ \A axis \in Axes : <<"mpu", axis>> \notin silent
  BY <1>1 DEF Measured
<1>4. /\ \A ch \in Channels : <<"ltr", ch>> \in silent' <=> <<"ltr", ch>> \in silent
      /\ \A n \in TmpIds : <<"tmp", n>> \in silent' <=> n \in failed
      /\ \A axis \in Axes : <<"mpu", axis>> \notin silent'
  BY <1>2, <1>3, KindsDiffer
<1>5. BmeRight("i1")' /\ BmeRight("e2")'
  BY <1>1, <1>2, <1>3, BmeStays
<1>6. LtrRight'
  BY <1>1, <1>3, <1>4 DEF LtrRight
<1>7. TmpRight'
  <2>1. \A n \in TmpIds : (IF n = 2 THEN 0 ELSE n) \in TmpIds
    BY SensorAssumption
  <2>2. \A n \in TmpIds :
          tmp100_get_temperature(TmpReg[weather][n]) = Reported(TmpReg[weather][n])
    BY <1>3, SensorAssumption, CentidegreesAreRead
  <2>3. \A n \in TmpIds :
          tmp'[n] = IF n \in failed THEN 0
                    ELSE Reported(TmpReg[weather][IF n = 2 THEN 0 ELSE n])
    BY <1>2, <2>1, <2>2 DEF TmpSource
  <2> SUFFICES ASSUME NEW n \in TmpIds
               PROVE  tmp'[n] = IF <<"tmp", n>> \in silent' THEN 0
                                ELSE Reported(TmpReg[weather'][IF n = 2 THEN 0 ELSE n])
    BY DEF TmpRight
  <2>4. <<"tmp", n>> \in silent' <=> n \in failed
    BY <1>4
  <2> QED
    BY <1>1, <2>3, <2>4
<1> QED
  BY <1>1, <1>3, <1>4, <1>5, <1>6, <1>7 DEF Measured

\* The accelerometer's turn ends the round.
LEMMA MpuMeasured ==
  ASSUME Measured, MeasureMpu
  PROVE  Measured'
<1>1. /\ round = "mpu" /\ round' = "idle" /\ weather' = weather
      /\ bme' = bme /\ bme280_error' = bme280_error /\ ltr' = ltr /\ tmp' = tmp
  BY DEF MeasureMpu
<1>2. PICK failed \in SUBSET Axes :
        /\ mpu' = [axis \in Axes |-> IF axis \in failed THEN 0
                                     ELSE mpu9250_get(MpuReg[weather][axis])]
        /\ silent' = silent \cup {<<"mpu", axis>> : axis \in failed}
  BY DEF MeasureMpu
<1>3. /\ weather \in Weathers /\ DOMAIN bme = Bmes
      /\ BmeRight("i1") /\ BmeRight("e2") /\ LtrRight /\ TmpRight
      /\ \A axis \in Axes : <<"mpu", axis>> \notin silent
  BY <1>1 DEF Measured
<1>4. /\ \A ch \in Channels : <<"ltr", ch>> \in silent' <=> <<"ltr", ch>> \in silent
      /\ \A n \in TmpIds : <<"tmp", n>> \in silent' <=> <<"tmp", n>> \in silent
      /\ \A axis \in Axes : <<"mpu", axis>> \in silent' <=> axis \in failed
  BY <1>2, <1>3, KindsDiffer
<1>5. BmeRight("i1")' /\ BmeRight("e2")'
  BY <1>1, <1>2, <1>3, BmeStays
<1>6. LtrRight' /\ TmpRight'
  BY <1>1, <1>3, <1>4 DEF LtrRight, TmpRight
<1>7. MpuRight'
  <2>1. \A axis \in Axes : IsMilliG(mpu9250_get(MpuReg[weather][axis]), MpuReg[weather][axis])
    BY <1>3, SensorAssumption, MilliGIsRead
  <2> QED
    BY <1>1, <1>2, <1>4, <2>1 DEF MpuRight
<1> QED
  BY <1>1, <1>3, <1>4, <1>5, <1>6, <1>7 DEF Measured

\* The data point is in order in every reachable state of the console.
LEMMA MeasuredHolds == Spec => []Measured
<1>1. Init => Measured
  BY MeasuredInit DEF Init
<1>2. Measured /\ [Next]_vars => Measured'
  <2> SUFFICES ASSUME Measured, [Next]_vars PROVE Measured'
    OBVIOUS
  <2>1. CASE RunSensors
    BY <2>1, RoundBegins, BmeMeasured, LtrMeasured, TmpMeasured, MpuMeasured
       DEF RunSensors, SensorsNext, getSensors
  <2>2. CASE UNCHANGED sensorVars
    BY <2>2 DEF sensorVars, Measured, BmeRight, OwnReading, LtrRight, TmpRight, MpuRight
  <2> QED
    BY <2>1, <2>2 DEF Next, RunTree, RunMembench, vars
<1> QED
  BY <1>1, <1>2, PTL DEF Spec

\* After a round of sensors every field of the light, temperature and motion
\* sensors is of this round, whatever the registers hold and whichever
\* transfers fail: 0 or the measurement in the unit of the field, with sensor
\* 0's temperature in the field of sensor 2 and 256 degrees too many below zero
\* (collector.c 299-447, tmp100.c 21).
THEOREM RoundIsCurrent == Spec => []DataPointIsCurrent
<1>1. Measured => DataPointIsCurrent
  BY DEF Measured, DataPointIsCurrent, LtrRight, TmpRight, MpuRight
<1> QED
  BY <1>1, MeasuredHolds, PTL

\* A BME280 that answers is compensated with its own calibration and its own
\* temperature, although both use one handle (collector.c 301-330).
THEOREM HandleIsOwn == Spec => []OwnCompensation
<1>1. Measured => OwnCompensation
  BY DEF Measured, OwnCompensation, BmeRight, OwnReading, Bmes
<1> QED
  BY <1>1, MeasuredHolds, PTL

(***************************************************************************)
(* tree: what the operators of the listing compute.  They are recursive    *)
(* functions; that each meets its equation follows from the heights of a   *)
(* tree, by a least counterexample.                                        *)
(***************************************************************************)

\* A set of numbers that is not empty has a least one.
LEMMA LeastNumber ==
  ASSUME NEW S \in SUBSET Nat, S # {}
  PROVE  \E n \in S : \A m \in S : n <= m
<1>1. IsWellFoundedOn(OpToRel(<, Nat), Nat)
  BY NatLessThanWellFounded
<1>2. PICK n \in S : \A m \in S : ~(<<m, n>> \in OpToRel(<, Nat))
  BY <1>1, WFMin, Zenon
<1>3. \A m \in S : ~(m < n)
  BY <1>2, Zenon DEF OpToRel
<1> QED
  BY <1>3

\* A function on 1 .. n is a sequence of length n.
LEMMA SeqLength ==
  ASSUME NEW S, NEW n \in Nat, NEW q \in [1 .. n -> S]
  PROVE  q \in Seq(S) /\ Len(q) = n /\ DOMAIN q = 1 .. n
<1>1. q \in Seq(S)
  BY SeqDef
<1>2. Len(q) \in Nat /\ DOMAIN q = 1 .. Len(q)
  BY <1>1, LenProperties
<1> QED
  BY <1>1, <1>2

\* f has the concatenations of the first entries of q.
Partial(S, q, n, f) ==
  /\ f \in [1 .. n -> Seq(S)] /\ f[1] = q[1]
  /\ \A i \in 2 .. n : f[i] = f[i - 1] \o q[i]

\* FlattenSeq returns the last of them.
LEMMA FlattenIs ==
  ASSUME NEW S, NEW n \in Nat \ {0}, NEW q \in [1 .. n -> Seq(S)], NEW f,
         Partial(S, q, n, f)
  PROVE  FlattenSeq(q) = f[n]
<1> DEFINE Meets(g) == g = [i \in 1 .. n |-> IF i = 1 THEN q[i] ELSE g[i - 1] \o q[i]]
<1>1. Len(q) = n
  BY SeqLength
<1>2. Meets(f)
  <2>1. ASSUME NEW i \in 1 .. n
        PROVE  f[i] = IF i = 1 THEN q[i] ELSE f[i - 1] \o q[i]
    <3>1. CASE i = 1
      BY <3>1 DEF Partial
    <3>2. CASE i # 1
      <4>1. i \in 2 .. n
        BY <3>2
      <4> QED
        BY <3>2, <4>1 DEF Partial
    <3> QED
      BY <3>1, <3>2
  <2>2. f = [i \in 1 .. n |-> f[i]]
    BY DEF Partial
  <2> QED
    BY <2>1, <2>2
<1>3. ASSUME NEW g, Meets(g) PROVE g = f
  <2> DEFINE D == {i \in 1 .. n : g[i] # f[i]}
  <2>1. /\ g = [i \in 1 .. n |-> g[i]] /\ f = [i \in 1 .. n |-> f[i]]
        /\ \A i \in 1 .. n : g[i] = IF i = 1 THEN q[i] ELSE g[i - 1] \o q[i]
        /\ \A i \in 1 .. n : f[i] = IF i = 1 THEN q[i] ELSE f[i - 1] \o q[i]
    BY <1>2, <1>3 DEF Partial
  <2>2. SUFFICES ASSUME D # {} PROVE FALSE
    BY <2>1
  <2>3. PICK i \in D : \A m \in D : i <= m
    <3>1. D \in SUBSET Nat
      OBVIOUS
    <3> QED
      BY <2>2, <3>1, LeastNumber
  <2>4. i \in 1 .. n /\ i # 1
    BY <2>1, <2>3
  <2>5. i - 1 \in 1 .. n /\ i - 1 \notin D
    BY <2>3, <2>4
  <2>6. g[i - 1] = f[i - 1]
    BY <2>5
  <2>7. g[i] = f[i]
    BY <2>1, <2>4, <2>6
  <2> QED
    BY <2>3, <2>7
<1>4. FlattenSeq(q) = (CHOOSE g : Meets(g))[n]
  BY <1>1 DEF FlattenSeq
<1> HIDE DEF Meets
<1>5. Meets(CHOOSE g : Meets(g))
  BY <1>2, Zenon
<1> QED
  BY <1>3, <1>4, <1>5

\* The concatenations exist.
LEMMA PartialExists ==
  ASSUME NEW S, NEW n \in Nat \ {0}, NEW q \in [1 .. n -> Seq(S)]
  PROVE  \E f : Partial(S, q, n, f)
<1> DEFINE D == {m \in 1 .. n : ~\E f : Partial(S, q, m, f)}
<1>1. SUFFICES ASSUME D # {} PROVE FALSE
  <2>1. n \in 1 .. n
    OBVIOUS
  <2> QED
    BY <2>1
<1>2. PICK m \in D : \A k \in D : m <= k
  <2>1. D \in SUBSET Nat
    OBVIOUS
  <2> QED
    BY <1>1, <2>1, LeastNumber
<1>3. m \in 1 .. n
  OBVIOUS
<1>4. CASE m = 1
  <2>1. Partial(S, q, 1, [i \in 1 .. 1 |-> q[1]])
    BY DEF Partial
  <2> QED
    BY <1>2, <1>4, <2>1
<1>5. CASE m # 1
  <2>1. m - 1 \in 1 .. n /\ m - 1 \notin D
    <3> HIDE DEF D
    <3> QED
      BY <1>2, <1>3, <1>5
  <2>2. PICK f : Partial(S, q, m - 1, f)
    BY <2>1
  <2> DEFINE g == [i \in 1 .. m |-> IF i = m THEN f[m - 1] \o q[m] ELSE f[i]]
  <2>3. f[m - 1] \o q[m] \in Seq(S)
    <3>1. f[m - 1] \in Seq(S) /\ q[m] \in Seq(S)
      BY <1>3, <1>5, <2>2 DEF Partial
    <3> QED
      BY <3>1, ConcatProperties
  <2>4. g \in [1 .. m -> Seq(S)]
    BY <1>3, <1>5, <2>2, <2>3 DEF Partial
  <2>5. g[1] = q[1]
    BY <1>3, <1>5, <2>2 DEF Partial
  <2>6. ASSUME NEW i \in 2 .. m PROVE g[i] = g[i - 1] \o q[i]
    <3>1. i \in 1 .. m /\ i - 1 \in 1 .. m /\ i - 1 # m
      BY <1>3
    <3>2. g[i - 1] = f[i - 1]
      BY <3>1
    <3>3. CASE i = m
      BY <3>1, <3>2, <3>3
    <3>4. CASE i # m
      <4>1. i \in 2 .. m - 1 /\ g[i] = f[i]
        BY <1>3, <3>1, <3>4
      <4> QED
        BY <2>2, <3>2, <4>1 DEF Partial
    <3> QED
      BY <3>3, <3>4
  <2>7. Partial(S, q, m, g)
    BY <2>4, <2>5, <2>6 DEF Partial
  <2> QED
    BY <1>2, <2>7
<1> QED
  BY <1>4, <1>5

\* Flattening one sequence more appends it.
LEMMA FlattenStep ==
  ASSUME NEW S, NEW n \in Nat, NEW q \in [1 .. n + 1 -> Seq(S)]
  PROVE  FlattenSeq(q) = FlattenSeq([k \in 1 .. n |-> q[k]]) \o q[n + 1]
<1> DEFINE r == [k \in 1 .. n |-> q[k]]
<1>1. PICK f : Partial(S, q, n + 1, f)
  BY PartialExists
<1>2. FlattenSeq(q) = f[n + 1]
  BY <1>1, FlattenIs
<1>3. r \in [1 .. n -> Seq(S)]
  OBVIOUS
<1>4. CASE n = 0
  <2>1. FlattenSeq(r) = <<>>
    <3>1. r = <<>> /\ Len(r) = 0
      BY <1>3, <1>4, SeqLength
    <3> QED
      BY <3>1 DEF FlattenSeq
  <2>2. q[1] \in Seq(S)
    BY <1>4
  <2>3. <<>> \o q[1] = q[1]
    BY <2>2, ConcatEmptySeq
  <2> QED
    BY <1>1, <1>2, <1>4, <2>1, <2>3 DEF Partial
<1>5. CASE n # 0
  <2> DEFINE g == [i \in 1 .. n |-> f[i]]
  <2>1. Partial(S, r, n, g)
    <3>1. g \in [1 .. n -> Seq(S)] /\ g[1] = r[1]
      BY <1>1, <1>5 DEF Partial
    <3>2. ASSUME NEW i \in 2 .. n PROVE g[i] = g[i - 1] \o r[i]
      <4>1. i \in 1 .. n /\ i - 1 \in 1 .. n /\ i \in 2 .. n + 1
        OBVIOUS
      <4>2. f[i] = f[i - 1] \o q[i]
        BY <1>1, <4>1 DEF Partial
      <4> QED
        BY <4>1, <4>2
    <3> QED
      BY <3>1, <3>2 DEF Partial
  <2>2. FlattenSeq(r) = g[n]
    <3> HIDE DEF g, r
    <3> QED
      BY <1>3, <1>5, <2>1, FlattenIs
  <2>3. n + 1 \in 2 .. n + 1 /\ (n + 1) - 1 = n /\ n \in 1 .. n
    BY <1>5
  <2>4. f[n + 1] = f[n] \o q[n + 1]
    BY <1>1, <2>3 DEF Partial
  <2> QED
    BY <1>2, <2>2, <2>3, <2>4
<1> QED
  BY <1>4, <1>5

\* Flattening returns a sequence of what the sequences hold.
LEMMA FlattenType ==
  ASSUME NEW S, NEW n \in Nat, NEW q \in [1 .. n -> Seq(S)]
  PROVE  FlattenSeq(q) \in Seq(S) /\ (n = 0 => FlattenSeq(q) = <<>>)
<1>1. CASE n = 0
  <2>1. q = <<>> /\ Len(q) = 0
    BY <1>1, SeqLength
  <2> QED
    BY <2>1 DEF FlattenSeq
<1>2. CASE n # 0
  <2>1. PICK f : Partial(S, q, n, f)
    BY <1>2, PartialExists
  <2>2. FlattenSeq(q) = f[n]
    BY <1>2, <2>1, FlattenIs
  <2>3. f[n] \in Seq(S)
    BY <1>2, <2>1 DEF Partial
  <2> QED
    BY <1>2, <2>2, <2>3
<1> QED
  BY <1>1, <1>2

\* What the proofs use of a tree: its names, the directory of each entry and
\* heights.
LEMMA TreeFacts ==
  ASSUME NEW t, IsTree(t)
  PROVE  /\ Root \in DOMAIN t /\ DOMAIN t \subseteq Names(t)
         /\ \A d \in DOMAIN t : /\ t[d] \in Seq(Names(t)) /\ Len(t[d]) \in Nat
                                /\ DOMAIN t[d] = 1 .. Len(t[d])
         /\ \A d \in DOMAIN t : \A k \in 1 .. Len(t[d]) :
              t[d][k] \in Names(t) /\ t[d][k] # Root /\ Parent(t, t[d][k]) = d
         /\ \A n \in Names(t) \ {Root} :
              Parent(t, n) \in DOMAIN t /\ n \in Range(t[Parent(t, n)])
<1>1. Root \in DOMAIN t /\ DOMAIN t \subseteq Names(t)
  BY DEF IsTree, Names
<1>2. \A d \in DOMAIN t : /\ t[d] \in Seq(Names(t)) /\ Len(t[d]) \in Nat
                          /\ DOMAIN t[d] = 1 .. Len(t[d])
  BY LenProperties DEF IsTree
<1>3. ASSUME NEW n \in Names(t) \ {Root}
      PROVE  Parent(t, n) \in DOMAIN t /\ n \in Range(t[Parent(t, n)])
  BY DEF IsTree, Parent
<1>4. ASSUME NEW d \in DOMAIN t, NEW k \in 1 .. Len(t[d])
      PROVE  t[d][k] \in Names(t) /\ t[d][k] # Root /\ Parent(t, t[d][k]) = d
  <2>1. t[d][k] \in Names(t) /\ t[d][k] \in Range(t[d])
    BY <1>2, ElementOfSeq DEF Range
  <2>2. t[d][k] # Root
    BY <2>1 DEF IsTree
  <2>3. Parent(t, t[d][k]) \in DOMAIN t /\ t[d][k] \in Range(t[Parent(t, t[d][k])])
    BY <1>3, <2>1, <2>2
  <2>4. \A e \in DOMAIN t : d # e => Range(t[d]) \cap Range(t[e]) = {}
    BY DEF IsTree
  <2> QED
    BY <2>1, <2>2, <2>3, <2>4
<1> QED
  BY <1>1, <1>2, <1>3, <1>4

\* A rank that falls towards the files, and one that falls towards the root.
LEMMA TreeRanks ==
  ASSUME NEW t, IsTree(t)
  PROVE  /\ \E M \in Nat : \E down \in [Names(t) -> 0 .. M] :
              \A d \in DOMAIN t : \A k \in 1 .. Len(t[d]) : down[t[d][k]] < down[d]
         /\ \E M \in Nat : \E up \in [Names(t) -> 0 .. M] :
              \A n \in Names(t) \ {Root} : up[Parent(t, n)] < up[n]
<1> DEFINE M == Cardinality(DOMAIN t)
<1>1. M \in Nat
  BY FS_CardinalityType DEF IsTree
<1>2. PICK height \in [DOMAIN t -> 0 .. M] :
        \A d, e \in DOMAIN t : e \in Range(t[d]) => height[e] < height[d]
  BY DEF IsTree
<1> HIDE DEF M
<1>3. \E down \in [Names(t) -> 0 .. M + 1] :
        \A d \in DOMAIN t : \A k \in 1 .. Len(t[d]) : down[t[d][k]] < down[d]
  <2> DEFINE down == [n \in Names(t) |-> IF n \in DOMAIN t THEN height[n] + 1 ELSE 0]
  <2>1. down \in [Names(t) -> 0 .. M + 1]
    BY <1>1
  <2>2. ASSUME NEW d \in DOMAIN t, NEW k \in 1 .. Len(t[d])
        PROVE  down[t[d][k]] < down[d]
    <3>1. t[d][k] \in Names(t) /\ d \in Names(t) /\ t[d][k] \in Range(t[d])
      BY TreeFacts DEF Range
    <3>2. height[d] \in 0 .. M /\ down[d] = height[d] + 1
      BY <3>1
    <3>3. CASE t[d][k] \in DOMAIN t
      <4>1. height[t[d][k]] \in 0 .. M /\ down[t[d][k]] = height[t[d][k]] + 1
        BY <3>1, <3>3
      <4>2. height[t[d][k]] < height[d]
        BY <1>2, <3>1, <3>3
      <4> QED
        BY <1>1, <3>2, <4>1, <4>2
    <3>4. CASE t[d][k] \notin DOMAIN t
      BY <1>1, <3>1, <3>2, <3>4
    <3> QED
      BY <3>3, <3>4
  <2> QED
    BY <2>1, <2>2
<1>4. \E up \in [Names(t) -> 0 .. M + 1] :
        \A n \in Names(t) \ {Root} : up[Parent(t, n)] < up[n]
  <2> DEFINE up == [n \in Names(t) |-> IF n \in DOMAIN t THEN M - height[n] ELSE M + 1]
  <2>1. up \in [Names(t) -> 0 .. M + 1]
    BY <1>1
  <2>2. ASSUME NEW n \in Names(t) \ {Root}
        PROVE  up[Parent(t, n)] < up[n]
    <3> DEFINE d == Parent(t, n)
    <3>1. d \in DOMAIN t /\ n \in Range(t[d]) /\ d \in Names(t)
      BY TreeFacts
    <3> HIDE DEF d
    <3>2. height[d] \in 0 .. M /\ up[d] = M - height[d]
      BY <3>1
    <3>3. CASE n \in DOMAIN t
      <4>1. height[n] \in 0 .. M /\ up[n] = M - height[n]
        BY <3>3
      <4>2. height[n] < height[d]
        BY <1>2, <3>1, <3>3
      <4> QED
        BY <1>1, <3>2, <4>1, <4>2 DEF d
    <3>4. CASE n \notin DOMAIN t
      BY <1>1, <3>2, <3>4 DEF d
    <3> QED
      BY <3>3, <3>4
  <2> QED
    BY <2>1, <2>2
<1>5. M + 1 \in Nat
  BY <1>1
<1> QED
  BY <1>3, <1>4, <1>5, Zenon

\* The path of an entry is the one of its directory with its name.
LEMMA PathsMeet ==
  ASSUME NEW t, IsTree(t)
  PROVE  /\ PathOf(t, Root) = <<>>
         /\ \A n \in Names(t) : PathOf(t, n) \in Seq(Names(t))
         /\ \A n \in Names(t) \ {Root} :
              PathOf(t, n) = Append(PathOf(t, Parent(t, n)), n)
<1> DEFINE N == Names(t)
           Next1(f, n) == IF n = Root THEN <<>> ELSE Append(f[Parent(t, n)], n)
           Meets(f) == f = [n \in N |-> Next1(f, n)]
<1>0. PICK M \in Nat : \E up \in [N -> 0 .. M] :
        \A n \in N \ {Root} : up[Parent(t, n)] < up[n]
  BY TreeRanks
<1>1. PICK up \in [N -> 0 .. M] :
        \A n \in N \ {Root} : up[Parent(t, n)] < up[n]
  BY <1>0
<1> DEFINE Good(m, f) == \A n \in N : up[n] < m => f[n] = Next1(f, n)
           D == {m \in Nat : ~\E f \in [N -> Seq(N)] : Good(m, f)}
<1>2. /\ \A n \in N \ {Root} : Parent(t, n) \in N
      /\ Root \in N
  BY TreeFacts
<1>3. \A f \in [N -> Seq(N)] : \A n \in N : Next1(f, n) \in Seq(N)
  <2> SUFFICES ASSUME NEW f \in [N -> Seq(N)], NEW n \in N PROVE Next1(f, n) \in Seq(N)
    OBVIOUS
  <2>1. CASE n = Root
    BY <2>1, EmptySeq
  <2>2. CASE n # Root
    <3>1. f[Parent(t, n)] \in Seq(N)
      BY <1>2, <2>2
    <3> QED
      BY <2>2, <3>1, AppendProperties
  <2> QED
    BY <2>1, <2>2
<1>4. ASSUME NEW m \in Nat, NEW f \in [N -> Seq(N)], Good(m, f)
      PROVE  \E g \in [N -> Seq(N)] : Good(m + 1, g)
  <2> DEFINE g == [n \in N |-> Next1(f, n)]
  <2>1. g \in [N -> Seq(N)]
    BY <1>3
  <2>2. ASSUME NEW n \in N, up[n] < m + 1 PROVE g[n] = Next1(g, n)
    <3>1. CASE n = Root
      BY <3>1
    <3>2. CASE n # Root
      <4>1. Parent(t, n) \in N /\ up[Parent(t, n)] < m
        <5>1. Parent(t, n) \in N /\ up[Parent(t, n)] < up[n]
          BY <1>1, <1>2, <3>2
        <5>2. up[n] \in 0 .. M /\ up[Parent(t, n)] \in 0 .. M
          BY <5>1
        <5> QED
          BY <2>2, <5>1, <5>2
      <4>2. f[Parent(t, n)] = g[Parent(t, n)]
        BY <1>4, <4>1
      <4> QED
        BY <3>2, <4>2
    <3> QED
      BY <3>1, <3>2
  <2>3. Good(m + 1, g)
    BY <2>2
  <2> QED
    BY <2>1, <2>3
<1>5. \E f \in [N -> Seq(N)] : Good(M + 1, f)
  <2>1. SUFFICES ASSUME D # {} PROVE FALSE
    <3>1. M + 1 \in Nat
      OBVIOUS
    <3> HIDE DEF Good
    <3> QED
      BY <3>1
  <2>2. D \in SUBSET Nat
    OBVIOUS
  <2>3. PICK m \in D : \A k \in D : m <= k
    <3> HIDE DEF D
    <3> QED
      BY <2>1, <2>2, LeastNumber
  <2>4. 0 \notin D
    <3> DEFINE f == [n \in N |-> <<>>]
    <3>1. f \in [N -> Seq(N)]
      BY EmptySeq
    <3>2. Good(0, f)
      <4> SUFFICES ASSUME NEW n \in N, up[n] < 0 PROVE FALSE
        BY DEF Good
      <4>1. up[n] \in 0 .. M
        OBVIOUS
      <4> QED
        BY <4>1
    <3> QED
      BY <3>1, <3>2
  <2>5. m \in Nat /\ m # 0
    BY <2>2, <2>3, <2>4
  <2>6. m - 1 \in Nat /\ m - 1 \notin D /\ (m - 1) + 1 = m
    <3> HIDE DEF D
    <3> QED
      BY <2>3, <2>5
  <2> HIDE DEF Good
  <2>7. PICK f \in [N -> Seq(N)] : Good(m - 1, f)
    BY <2>6
  <2>8. \E g \in [N -> Seq(N)] : Good(m, g)
    BY <1>4, <2>6, <2>7
  <2> QED
    BY <2>3, <2>8
<1>6. PICK f \in [N -> Seq(N)] : Good(M + 1, f)
  BY <1>5
<1>7. \A n \in N : f[n] = Next1(f, n)
  <2> SUFFICES ASSUME NEW n \in N PROVE up[n] < M + 1
    BY <1>6
  <2>1. up[n] \in 0 .. M
    OBVIOUS
  <2> QED
    BY <2>1
<1>8. Meets(f)
  BY <1>7
<1>9. ASSUME NEW g, Meets(g) PROVE \A n \in N : g[n] = f[n]
  <2> DEFINE E == {n \in N : g[n] # f[n]}
             R == {up[n] : n \in E}
  <2>1. SUFFICES ASSUME E # {} PROVE FALSE
    OBVIOUS
  <2>2. R \in SUBSET Nat /\ R # {}
    BY <2>1
  <2>3. PICK r \in R : \A k \in R : r <= k
    BY <2>2, LeastNumber
  <2>4. PICK n \in E : r = up[n]
    BY <2>3
  <2>5. /\ g[n] = Next1(g, n) /\ f[n] = Next1(f, n) /\ n \in N
    BY <1>7, <1>9
  <2>6. n # Root
    BY <2>4, <2>5
  <2>7. Parent(t, n) \in N /\ up[Parent(t, n)] < up[n]
    BY <1>1, <1>2, <2>5, <2>6
  <2>8. up[n] \in 0 .. M /\ up[Parent(t, n)] \in 0 .. M
    BY <2>5, <2>7
  <2>9. ASSUME Parent(t, n) \in E PROVE FALSE
    <3>1. up[Parent(t, n)] \in R
      BY <2>9
    <3>2. up[n] <= up[Parent(t, n)]
      BY <2>3, <2>4, <3>1
    <3> QED
      BY <2>7, <2>8, <3>2
  <2> QED
    BY <2>4, <2>5, <2>6, <2>7, <2>9
<1> DEFINE p == CHOOSE g : Meets(g)
<1>10. \A n : PathOf(t, n) = p[n]
  BY DEF PathOf
<1>11. Meets(p)
  <2> HIDE DEF Meets
  <2> QED
    BY <1>8, Zenon
<1> HIDE DEF p
<1>12. \A n \in N : p[n] = f[n]
  BY <1>9, <1>11
<1> QED
  BY <1>2, <1>7, <1>10, <1>12

\* The paths that the names of a tree can make.
Paths(t) == Seq(Names(t))

\* The lines of a directory are those of its entries, and a file has one line,
\* its path.
LEMMA LinesMeet ==
  ASSUME NEW t, IsTree(t)
  PROVE  /\ \A n \in Names(t) : Lines(t)[n] \in Seq(Paths(t))
         /\ \A n \in DOMAIN t :
              Lines(t)[n] = FlattenSeq([k \in 1 .. Len(t[n]) |-> Lines(t)[t[n][k]]])
         /\ \A n \in Names(t) \ DOMAIN t : Lines(t)[n] = <<PathOf(t, n)>>
<1> DEFINE N == Names(t)
           P == Paths(t)
           Below(f, n) == [k \in 1 .. Len(t[n]) |-> f[t[n][k]]]
           Next1(f, n) == IF n \in DOMAIN t THEN FlattenSeq(Below(f, n))
                          ELSE <<PathOf(t, n)>>
           Meets(f) == f = [n \in N |-> Next1(f, n)]
<1>0. PICK M \in Nat : \E down \in [N -> 0 .. M] :
        \A d \in DOMAIN t : \A k \in 1 .. Len(t[d]) : down[t[d][k]] < down[d]
  BY TreeRanks
<1>1. PICK down \in [N -> 0 .. M] :
        \A d \in DOMAIN t : \A k \in 1 .. Len(t[d]) : down[t[d][k]] < down[d]
  BY <1>0
<1> DEFINE Good(m, f) == \A n \in N : down[n] < m => f[n] = Next1(f, n)
           D == {m \in Nat : ~\E f \in [N -> Seq(P)] : Good(m, f)}
<1>2. /\ \A d \in DOMAIN t : d \in N /\ Len(t[d]) \in Nat /\ DOMAIN t[d] = 1 .. Len(t[d])
      /\ \A d \in DOMAIN t : \A k \in 1 .. Len(t[d]) : t[d][k] \in N
  BY TreeFacts
<1>3. ASSUME NEW f \in [N -> Seq(P)], NEW n \in N PROVE Next1(f, n) \in Seq(P)
  <2>1. CASE n \in DOMAIN t
    <3>1. Below(f, n) \in [1 .. Len(t[n]) -> Seq(P)]
      BY <1>2, <2>1
    <3> HIDE DEF Below, P
    <3>2. FlattenSeq(Below(f, n)) \in Seq(P)
      BY <1>2, <2>1, <3>1, FlattenType
    <3> QED
      BY <2>1, <3>2
  <2>2. CASE n \notin DOMAIN t
    <3>1. PathOf(t, n) \in P
      BY PathsMeet DEF Paths
    <3> QED
      BY <2>2, <3>1
  <2> QED
    BY <2>1, <2>2
<1>4. ASSUME NEW f, NEW g, NEW n \in N,
             n \in DOMAIN t => \A k \in 1 .. Len(t[n]) : f[t[n][k]] = g[t[n][k]]
      PROVE  Next1(f, n) = Next1(g, n)
  <2>1. ASSUME n \in DOMAIN t PROVE Below(f, n) = Below(g, n)
    BY <1>4, <2>1
  <2> HIDE DEF Below
  <2> QED
    BY <2>1
<1> HIDE DEF Next1
<1>5. ASSUME NEW m \in Nat, NEW f \in [N -> Seq(P)], Good(m, f)
      PROVE  \E g \in [N -> Seq(P)] : Good(m + 1, g)
  <2> DEFINE g == [n \in N |-> Next1(f, n)]
  <2>1. g \in [N -> Seq(P)]
    BY <1>3
  <2>2. ASSUME NEW n \in N, down[n] < m + 1 PROVE g[n] = Next1(g, n)
    <3>1. ASSUME n \in DOMAIN t, NEW k \in 1 .. Len(t[n]) PROVE f[t[n][k]] = g[t[n][k]]
      <4>1. t[n][k] \in N /\ down[t[n][k]] < down[n]
        BY <1>1, <1>2, <3>1
      <4>2. down[n] \in 0 .. M /\ down[t[n][k]] \in 0 .. M
        BY <4>1
      <4>3. down[t[n][k]] < m
        BY <2>2, <4>1, <4>2
      <4> QED
        BY <1>5, <4>1, <4>3
    <3>2. Next1(f, n) = Next1(g, n)
      <4> HIDE DEF g
      <4> QED
        BY <1>4, <3>1
    <3> QED
      BY <3>2
  <2>3. Good(m + 1, g)
    BY <2>2
  <2> QED
    BY <2>1, <2>3
<1>6. \E f \in [N -> Seq(P)] : Good(M + 1, f)
  <2>1. SUFFICES ASSUME D # {} PROVE FALSE
    <3>1. M + 1 \in Nat
      OBVIOUS
    <3> HIDE DEF Good
    <3> QED
      BY <3>1
  <2>2. D \in SUBSET Nat
    OBVIOUS
  <2>3. PICK m \in D : \A k \in D : m <= k
    <3> HIDE DEF D
    <3> QED
      BY <2>1, <2>2, LeastNumber
  <2>4. 0 \notin D
    <3> DEFINE f == [n \in N |-> <<>>]
    <3>1. f \in [N -> Seq(P)]
      BY EmptySeq
    <3>2. Good(0, f)
      <4> SUFFICES ASSUME NEW n \in N, down[n] < 0 PROVE FALSE
        BY DEF Good
      <4>1. down[n] \in 0 .. M
        OBVIOUS
      <4> QED
        BY <4>1
    <3> QED
      BY <3>1, <3>2
  <2>5. m \in Nat /\ m # 0
    BY <2>2, <2>3, <2>4
  <2>6. m - 1 \in Nat /\ m - 1 \notin D /\ (m - 1) + 1 = m
    <3> HIDE DEF D
    <3> QED
      BY <2>3, <2>5
  <2> HIDE DEF Good
  <2>7. PICK f \in [N -> Seq(P)] : Good(m - 1, f)
    BY <2>6
  <2>8. \E g \in [N -> Seq(P)] : Good(m, g)
    BY <1>5, <2>6, <2>7
  <2> QED
    BY <2>3, <2>8
<1>7. PICK f \in [N -> Seq(P)] : Good(M + 1, f)
  BY <1>6
<1>8. \A n \in N : f[n] = Next1(f, n)
  <2> SUFFICES ASSUME NEW n \in N PROVE down[n] < M + 1
    BY <1>7
  <2>1. down[n] \in 0 .. M
    OBVIOUS
  <2> QED
    BY <2>1
<1>9. Meets(f)
  BY <1>8
<1>10. ASSUME NEW g, Meets(g) PROVE \A n \in N : g[n] = f[n]
  <2> DEFINE E == {n \in N : g[n] # f[n]}
             R == {down[n] : n \in E}
  <2>1. SUFFICES ASSUME E # {} PROVE FALSE
    OBVIOUS
  <2>2. R \in SUBSET Nat /\ R # {}
    BY <2>1
  <2>3. PICK r \in R : \A k \in R : r <= k
    BY <2>2, LeastNumber
  <2>4. PICK n \in E : r = down[n]
    BY <2>3
  <2>5. g[n] = Next1(g, n) /\ f[n] = Next1(f, n) /\ n \in N
    BY <1>8, <1>10
  <2>6. ASSUME n \in DOMAIN t, NEW k \in 1 .. Len(t[n]) PROVE f[t[n][k]] = g[t[n][k]]
    <3>1. t[n][k] \in N /\ down[t[n][k]] < down[n]
      BY <1>1, <1>2, <2>6
    <3>2. down[n] \in 0 .. M /\ down[t[n][k]] \in 0 .. M
      BY <2>5, <3>1
    <3>3. ASSUME t[n][k] \in E PROVE FALSE
      <4>1. down[t[n][k]] \in R
        BY <3>3
      <4>2. down[n] <= down[t[n][k]]
        BY <2>3, <2>4, <4>1
      <4> QED
        BY <3>1, <3>2, <4>2
    <3> QED
      BY <3>1, <3>3
  <2>7. Next1(f, n) = Next1(g, n)
    BY <1>4, <2>5, <2>6
  <2> QED
    BY <2>4, <2>5, <2>7
<1> DEFINE l == CHOOSE g : Meets(g)
<1>11. Lines(t) = l
  <2>1. \A g : Meets(g) <=> g = [n \in N |->
                  IF n \in DOMAIN t
                  THEN FlattenSeq([k \in DOMAIN t[n] |-> g[t[n][k]]])
                  ELSE <<PathOf(t, n)>>]
    BY <1>2 DEF Next1
  <2> QED
    BY <2>1, Zenon DEF Lines
<1>12. Meets(l)
  <2> HIDE DEF Meets
  <2> QED
    BY <1>9, Zenon
<1> HIDE DEF l
<1>13. \A n \in N : l[n] = f[n]
  BY <1>10, <1>12
<1>14. \A n \in N : l[n] = Next1(l, n)
  BY <1>12
<1>15. \A n \in DOMAIN t : l[n] = FlattenSeq([k \in 1 .. Len(t[n]) |-> l[t[n][k]]])
  BY <1>2, <1>14 DEF Next1
<1>16. \A n \in N \ DOMAIN t : l[n] = <<PathOf(t, n)>>
  BY <1>14 DEF Next1
<1> QED
  BY <1>11, <1>13, <1>15, <1>16

(***************************************************************************)
(* tree: where the scan is.  off has, for each open directory, the number  *)
(* of lines of the listing in front of its own.                            *)
(***************************************************************************)

\* The lines of the first p entries of directory d.
Upto(t, d, p) == FlattenSeq([k \in 1 .. p |-> Lines(t)[t[d][k]]])

\* The lines of entry n are in the listing behind its first o lines.
Placed(t, o, n) ==
  /\ o + Len(Lines(t)[n]) <= Len(Listing(t))
  /\ \A j \in 1 .. Len(Lines(t)[n]) : Listing(t)[o + j] = Lines(t)[n][j]

\* The first m lines of the listing have been printed.
Shown(m) ==
  /\ Len(printed) = m /\ m <= Len(Listing(tree))
  /\ \A j \in 1 .. m : printed[j] = Listing(tree)[j]

\* An open directory, and the entry that was read from it last.
Levels(t) == [dir : Names(t), pos : Nat, i : Nat]
Open(t, l) ==
  /\ l.dir \in DOMAIN t /\ l.pos \in 0 .. Len(t[l.dir])
  /\ l.i = Len(PathOf(t, l.dir))
Current(t, l) == t[l.dir][l.pos]

\* Directory m is the entry that was read last from the open directory l, whose
\* own lines are behind o lines, and its lines are behind those of the entries
\* before it.
Below(t, l, o, m, q) ==
  /\ l.pos > 0 /\ m = Current(t, l)
  /\ q = o + Len(Upto(t, l.dir, l.pos - 1))

\* The open directories lie below one another, the root outermost, and off
\* has the number of lines in front of each one.
Stack(t, ls, off) ==
  /\ off \in [1 .. Len(ls) -> Nat]
  /\ \A k \in 1 .. Len(ls) : Open(t, ls[k]) /\ Placed(t, off[k], ls[k].dir)
  /\ ls # <<>> => ls[1].dir = Root /\ off[1] = 0
  /\ \A k \in 1 .. Len(ls) - 1 : Below(t, ls[k], off[k], ls[k + 1].dir, off[k + 1])

\* A directory is about to be opened: the path names it, and all in front of
\* it has been printed.
Entering(off) ==
  IF levels = <<>> THEN fbuff = <<>> /\ Shown(0)
  ELSE /\ Top.pos > 0 /\ Current(tree, Top) \in DOMAIN tree
       /\ fbuff = PathOf(tree, Current(tree, Top))
       /\ Shown(off[Len(levels)] + Len(Upto(tree, Top.dir, Top.pos - 1)))

\* The innermost directory is being read.
Reading(off) ==
  /\ levels # <<>> /\ fbuff = PathOf(tree, Top.dir)
  /\ Shown(off[Len(levels)] + Len(Upto(tree, Top.dir, Top.pos)))

\* The directory named by the path has been read to its end.
Returning(off) ==
  IF levels = <<>> THEN Shown(Len(Listing(tree)))
  ELSE /\ Top.pos > 0 /\ fbuff = PathOf(tree, Current(tree, Top))
       /\ Shown(off[Len(levels)] + Len(Upto(tree, Top.dir, Top.pos)))

\* Where a scan is, unless an error is on its way out.
Where ==
  \E off \in [1 .. Len(levels) -> Nat] :
    /\ Stack(tree, levels, off)
    /\ pc = "enter" => Entering(off)
    /\ pc = "read" => Reading(off)
    /\ pc = "return" => Returning(off)

Scanning ==
  /\ IsTree(tree) /\ printed \in Seq(Paths(tree)) /\ levels \in Seq(Levels(tree))
  /\ pc \in {"idle", "enter", "read", "return", "overrun"}
  /\ ListingInOrder
  /\ pc = "idle" => levels = <<>>
  /\ pc \in {"enter", "read"} \/ (pc = "return" /\ res = "ok") => Where

\* The lines of a directory grow by those of each entry, up to all of them.
LEMMA UptoMeets ==
  ASSUME NEW t, IsTree(t), NEW d \in DOMAIN t
  PROVE  /\ Upto(t, d, 0) = <<>>
         /\ \A p \in 0 .. Len(t[d]) : Upto(t, d, p) \in Seq(Paths(t))
         /\ \A p \in 0 .. Len(t[d]) - 1 :
              Upto(t, d, p + 1) = Upto(t, d, p) \o Lines(t)[t[d][p + 1]]
         /\ Upto(t, d, Len(t[d])) = Lines(t)[d]
<1> DEFINE q(p) == [k \in 1 .. p |-> Lines(t)[t[d][k]]]
           P == Paths(t)
<1>1. Len(t[d]) \in Nat /\ \A k \in 1 .. Len(t[d]) : t[d][k] \in Names(t)
  BY TreeFacts
<1>2. ASSUME NEW p \in 0 .. Len(t[d]) PROVE q(p) \in [1 .. p -> Seq(P)]
  BY <1>1, LinesMeet
<1> HIDE DEF P
<1>3. ASSUME NEW p \in 0 .. Len(t[d])
      PROVE  Upto(t, d, p) \in Seq(P) /\ (p = 0 => Upto(t, d, p) = <<>>)
  <2>1. p \in Nat /\ q(p) \in [1 .. p -> Seq(P)]
    BY <1>1, <1>2
  <2>2. Upto(t, d, p) = FlattenSeq(q(p))
    BY DEF Upto
  <2> HIDE DEF q
  <2> QED
    BY <2>1, <2>2, FlattenType
<1>4. ASSUME NEW p \in 0 .. Len(t[d]) - 1
      PROVE  Upto(t, d, p + 1) = Upto(t, d, p) \o Lines(t)[t[d][p + 1]]
  <2>1. p \in Nat /\ p + 1 \in 0 .. Len(t[d]) /\ q(p + 1) \in [1 .. p + 1 -> Seq(P)]
    BY <1>1, <1>2
  <2>2. q(p) = [k \in 1 .. p |-> q(p + 1)[k]] /\ q(p + 1)[p + 1] = Lines(t)[t[d][p + 1]]
    BY <2>1
  <2>3. Upto(t, d, p) = FlattenSeq(q(p)) /\ Upto(t, d, p + 1) = FlattenSeq(q(p + 1))
    BY DEF Upto
  <2> HIDE DEF q
  <2>4. FlattenSeq(q(p + 1)) = FlattenSeq([k \in 1 .. p |-> q(p + 1)[k]]) \o q(p + 1)[p + 1]
    BY <2>1, FlattenStep
  <2> QED
    BY <2>2, <2>3, <2>4
<1>5. Upto(t, d, Len(t[d])) = Lines(t)[d]
  BY LinesMeet DEF Upto
<1>6. 0 \in 0 .. Len(t[d])
  BY <1>1
<1> QED
  BY <1>3, <1>4, <1>5, <1>6 DEF P

\* The lines of its first entries begin the lines of a directory, and those of
\* the next one follow.
LEMMA UptoBegins ==
  ASSUME NEW t, IsTree(t), NEW d \in DOMAIN t, NEW p \in 0 .. Len(t[d])
  PROVE  /\ Len(Upto(t, d, p)) \in Nat /\ Len(Upto(t, d, p)) <= Len(Lines(t)[d])
         /\ \A j \in 1 .. Len(Upto(t, d, p)) : Lines(t)[d][j] = Upto(t, d, p)[j]
<1> DEFINE n == Len(t[d])
           u(k) == Upto(t, d, k)
           Begins(k) == /\ Len(u(k)) <= Len(Lines(t)[d])
                        /\ \A j \in 1 .. Len(u(k)) : Lines(t)[d][j] = u(k)[j]
           D == {m \in 0 .. n : ~Begins(n - m)}
<1>1. n \in Nat
  BY TreeFacts
<1>2. /\ \A k \in 0 .. n : u(k) \in Seq(Paths(t))
      /\ \A k \in 0 .. n - 1 : u(k + 1) = u(k) \o Lines(t)[t[d][k + 1]]
      /\ u(n) = Lines(t)[d]
  BY UptoMeets
<1>3. \A k \in 0 .. n - 1 : Lines(t)[t[d][k + 1]] \in Seq(Paths(t))
  <2> SUFFICES ASSUME NEW k \in 0 .. n - 1 PROVE Lines(t)[t[d][k + 1]] \in Seq(Paths(t))
    OBVIOUS
  <2>1. k + 1 \in 1 .. n
    BY <1>1
  <2>2. t[d][k + 1] \in Names(t)
    BY <2>1, TreeFacts
  <2> QED
    BY <2>2, LinesMeet
<1> HIDE DEF n, u
<1>4. \A k \in 0 .. n : Len(u(k)) \in Nat
  BY <1>2, LenProperties
<1>5. Begins(n)
  BY <1>1, <1>2, <1>4
<1>6. ASSUME NEW k \in 0 .. n - 1, Begins(k + 1) PROVE Begins(k)
  <2> DEFINE r == Lines(t)[t[d][k + 1]]
  <2>1. /\ k \in 0 .. n /\ k + 1 \in 0 .. n
    BY <1>1
  <2>2. u(k) \in Seq(Paths(t)) /\ r \in Seq(Paths(t)) /\ u(k + 1) = u(k) \o r
    BY <1>2, <1>3, <2>1
  <2> HIDE DEF r
  <2>3. /\ Len(u(k)) \in Nat /\ Len(r) \in Nat /\ Len(u(k + 1)) = Len(u(k)) + Len(r)
        /\ \A j \in 1 .. Len(u(k)) : u(k + 1)[j] = u(k)[j]
    BY <2>2, ConcatProperties, LenProperties
  <2>4. Len(Lines(t)[d]) \in Nat
    BY <1>1, <1>2, <1>4
  <2> QED
    BY <1>6, <2>3, <2>4
<1> HIDE DEF Begins
<1>7. D = {}
  <2>1. SUFFICES ASSUME D # {} PROVE FALSE
    OBVIOUS
  <2>2. PICK m \in D : \A k \in D : m <= k
    <3>1. D \in SUBSET Nat
      BY <1>1
    <3> HIDE DEF D
    <3> QED
      BY <2>1, <3>1, LeastNumber
  <2>3. m \in 0 .. n /\ ~Begins(n - m)
    BY <2>2
  <2>4. m # 0
    <3>1. n - 0 = n
      BY <1>1
    <3> QED
      BY <1>5, <2>3, <3>1
  <2>5. m - 1 \in 0 .. n /\ m - 1 \notin D
    <3> HIDE DEF D
    <3> QED
      BY <1>1, <2>2, <2>3, <2>4
  <2>6. Begins(n - (m - 1))
    BY <2>5
  <2>7. n - m \in 0 .. n - 1 /\ n - (m - 1) = (n - m) + 1
    BY <1>1, <2>3, <2>4
  <2> QED
    BY <1>6, <2>3, <2>6, <2>7
<1>8. n - p \in 0 .. n /\ n - (n - p) = p /\ p \in 0 .. n
  BY <1>1 DEF n
<1>9. Begins(p)
  BY <1>7, <1>8
<1> QED
  BY <1>4, <1>8, <1>9 DEF Begins, u

\* Where a directory is in the listing, each of its entries is behind the lines
\* of the entries before it.
LEMMA EntryPlaced ==
  ASSUME NEW t, IsTree(t), NEW d \in DOMAIN t, NEW p \in 1 .. Len(t[d]),
         NEW o \in Nat, Placed(t, o, d)
  PROVE  /\ Placed(t, o + Len(Upto(t, d, p - 1)), t[d][p])
         /\ Len(Upto(t, d, p - 1)) \in Nat /\ Len(Lines(t)[t[d][p]]) \in Nat
         /\ Len(Upto(t, d, p)) = Len(Upto(t, d, p - 1)) + Len(Lines(t)[t[d][p]])
<1> DEFINE u == Upto(t, d, p - 1)
           v == Upto(t, d, p)
           r == Lines(t)[t[d][p]]
           L == Lines(t)[d]
<1>1. p - 1 \in 0 .. Len(t[d]) - 1 /\ p - 1 \in 0 .. Len(t[d]) /\ (p - 1) + 1 = p
      /\ p \in 0 .. Len(t[d])
  BY TreeFacts
<1>2. u \in Seq(Paths(t)) /\ v = u \o r
  BY <1>1, UptoMeets
<1>3. r \in Seq(Paths(t))
  <2>1. t[d][p] \in Names(t)
    BY TreeFacts
  <2> QED
    BY <2>1, LinesMeet
<1>4. Len(v) <= Len(L) /\ \A j \in 1 .. Len(v) : L[j] = v[j]
  BY <1>1, UptoBegins
<1>5. L \in Seq(Paths(t)) /\ Listing(t) \in Seq(Paths(t))
  BY LinesMeet, TreeFacts DEF Listing
<1>6. o + Len(L) <= Len(Listing(t)) /\ \A j \in 1 .. Len(L) : Listing(t)[o + j] = L[j]
  BY DEF Placed
<1> SUFFICES /\ Len(u) \in Nat /\ Len(r) \in Nat /\ Len(v) = Len(u) + Len(r)
             /\ (o + Len(u)) + Len(r) <= Len(Listing(t))
             /\ \A j \in 1 .. Len(r) : Listing(t)[(o + Len(u)) + j] = r[j]
  BY DEF Placed
<1> HIDE DEF u, v, r, L
<1>7. /\ Len(u) \in Nat /\ Len(r) \in Nat /\ Len(v) = Len(u) + Len(r)
      /\ \A j \in Len(u) + 1 .. Len(u) + Len(r) : v[j] = r[j - Len(u)]
      /\ Len(L) \in Nat /\ Len(Listing(t)) \in Nat
  BY <1>2, <1>3, <1>5, ConcatProperties, LenProperties
<1>8. (o + Len(u)) + Len(r) <= Len(Listing(t))
  BY <1>4, <1>6, <1>7
<1>9. ASSUME NEW j \in 1 .. Len(r) PROVE Listing(t)[(o + Len(u)) + j] = r[j]
  <2>1. /\ Len(u) + j \in Len(u) + 1 .. Len(u) + Len(r) /\ Len(u) + j \in 1 .. Len(v)
        /\ Len(u) + j \in 1 .. Len(L) /\ (Len(u) + j) - Len(u) = j
        /\ (o + Len(u)) + j = o + (Len(u) + j)
    BY <1>4, <1>7
  <2> QED
    BY <1>4, <1>6, <1>7, <2>1
<1> QED
  BY <1>7, <1>8, <1>9

\* No two entries have the same path: it ends in the entry's own name.
LEMMA PathsDiffer ==
  ASSUME NEW t, IsTree(t), NEW m \in Names(t), NEW n \in Names(t),
         PathOf(t, m) = PathOf(t, n)
  PROVE  m = n
<1>1. ASSUME NEW k \in Names(t), k # Root
      PROVE  Len(PathOf(t, k)) \in Nat \ {0} /\ PathOf(t, k)[Len(PathOf(t, k))] = k
  <2>1. Parent(t, k) \in Names(t)
    BY <1>1, TreeFacts
  <2>2. PathOf(t, Parent(t, k)) \in Seq(Names(t))
    BY <2>1, PathsMeet
  <2>3. PathOf(t, k) = Append(PathOf(t, Parent(t, k)), k)
    BY <1>1, PathsMeet
  <2> QED
    BY <2>2, <2>3, AppendProperties, LenProperties
<1>2. Len(PathOf(t, Root)) = 0
  BY PathsMeet
<1> QED
  BY <1>1, <1>2

\* The card before the first listing is empty.
LEMMA EmptyCard == IsTree([d \in {Root} |-> <<>>])
<1> DEFINE t == [d \in {Root} |-> <<>>]
<1>1. DOMAIN t = {Root} /\ t[Root] = <<>> /\ Range(t[Root]) = {}
  BY DEF Range
<1> HIDE DEF t
<1>2. Names(t) = {Root}
  BY <1>1 DEF Names
<1>3. IsFiniteSet(DOMAIN t) /\ Cardinality(DOMAIN t) = 1
  BY <1>1, FS_Singleton
<1>4. \E height \in [DOMAIN t -> 0 .. Cardinality(DOMAIN t)] :
        \A d, e \in DOMAIN t : e \in Range(t[d]) => height[e] < height[d]
  <2>1. [d \in DOMAIN t |-> 0] \in [DOMAIN t -> 0 .. Cardinality(DOMAIN t)]
    BY <1>3
  <2> QED
    BY <1>1, <2>1
<1>5. t[Root] \in Seq(Names(t))
  BY <1>1, EmptySeq
<1>6. IsTree(t)
  BY <1>1, <1>2, <1>3, <1>4, <1>5 DEF IsTree
<1> QED
  BY <1>6 DEF t

\* A sequence that agrees with another as far as it goes is a prefix of it.
LEMMA AgreesIsPrefix ==
  ASSUME NEW S, NEW a \in Seq(S), NEW b \in Seq(S), Len(a) <= Len(b),
         \A j \in 1 .. Len(a) : a[j] = b[j]
  PROVE  IsPrefix(a, b) /\ (Len(a) = Len(b) => a = b)
<1>1. Len(a) \in Nat /\ Len(b) \in Nat
  BY LenProperties
<1>2. SubSeq(a, 1, Len(a)) = SubSeq(b, 1, Len(a))
  BY <1>1
<1>3. Len(a) = Len(b) => a = b
  BY SeqEqual
<1> QED
  BY <1>2, <1>3 DEF IsPrefix

\* The innermost open directory moves to another of its entries.
LEMMA StackMoves ==
  ASSUME NEW t, NEW ls \in Seq(Levels(t)), ls # <<>>,
         NEW off, Stack(t, ls, off),
         NEW p \in 0 .. Len(t[ls[Len(ls)].dir]),
         NEW ms \in Seq(Levels(t)), Len(ms) = Len(ls),
         \A k \in 1 .. Len(ls) - 1 : ms[k] = ls[k],
         ms[Len(ls)] = [dir |-> ls[Len(ls)].dir, pos |-> p, i |-> ls[Len(ls)].i]
  PROVE  Stack(t, ms, off)
<1> DEFINE n == Len(ls)
<1>1. n \in Nat \ {0}
  BY LenProperties, EmptySeq
<1>2. ms[n].dir = ls[n].dir /\ ms[n].pos = p /\ ms[n].i = ls[n].i
  OBVIOUS
<1>3. \A k \in 1 .. n - 1 : ms[k] = ls[k]
  OBVIOUS
<1> HIDE DEF n
<1>4. \A k \in 1 .. n : ms[k].dir = ls[k].dir
  <2> SUFFICES ASSUME NEW k \in 1 .. n PROVE ms[k].dir = ls[k].dir
    OBVIOUS
  <2>1. k = n \/ k \in 1 .. n - 1
    BY <1>1
  <2> QED
    BY <1>2, <1>3, <2>1
<1>5. ASSUME NEW k \in 1 .. n PROVE Open(t, ms[k]) /\ Placed(t, off[k], ms[k].dir)
  <2>1. Open(t, ls[k]) /\ Placed(t, off[k], ls[k].dir)
    BY DEF Stack, n
  <2>2. CASE k = n
    BY <1>2, <2>1, <2>2 DEF Open, n
  <2>3. CASE k \in 1 .. n - 1
    BY <1>3, <2>1, <2>3
  <2> QED
    BY <1>1, <2>2, <2>3
<1>6. ASSUME NEW k \in 1 .. n - 1
      PROVE  Below(t, ms[k], off[k], ms[k + 1].dir, off[k + 1])
  <2>1. Below(t, ls[k], off[k], ls[k + 1].dir, off[k + 1])
    BY DEF Stack, n
  <2>2. k + 1 \in 1 .. n
    BY <1>1
  <2> QED
    BY <1>3, <1>4, <2>1, <2>2
<1>7. ms[1].dir = Root /\ off[1] = 0 /\ off \in [1 .. n -> Nat]
  BY <1>1, <1>4 DEF Stack, n
<1> QED
  BY <1>5, <1>6, <1>7 DEF Stack, n

\* A directory is opened below the innermost one.
LEMMA StackGrows ==
  ASSUME NEW t, IsTree(t), NEW ls \in Seq(Levels(t)), NEW off, Stack(t, ls, off),
         NEW d \in DOMAIN t, NEW o \in Nat, Placed(t, o, d),
         IF ls = <<>> THEN d = Root /\ o = 0
         ELSE Below(t, ls[Len(ls)], off[Len(ls)], d, o)
  PROVE  LET ms == Append(ls, [dir |-> d, pos |-> 0, i |-> Len(PathOf(t, d))]) IN
           /\ ms \in Seq(Levels(t)) /\ ms # <<>> /\ Len(ms) = Len(ls) + 1
           /\ ms[Len(ms)].dir = d /\ ms[Len(ms)].pos = 0
           /\ \E on \in [1 .. Len(ms) -> Nat] : Stack(t, ms, on) /\ on[Len(ms)] = o
<1> DEFINE n == Len(ls)
           l == [dir |-> d, pos |-> 0, i |-> Len(PathOf(t, d))]
           ms == Append(ls, l)
           on == [k \in 1 .. n + 1 |-> IF k = n + 1 THEN o ELSE off[k]]
<1>1. n \in Nat /\ (ls = <<>> <=> n = 0)
  BY LenProperties, EmptySeq
<1>2. d \in Names(t) /\ Len(t[d]) \in Nat /\ Len(PathOf(t, d)) \in Nat
  BY TreeFacts, PathsMeet, LenProperties
<1>3. l \in Levels(t) /\ l.dir = d /\ l.pos = 0 /\ l.i = Len(PathOf(t, d))
  BY <1>2 DEF Levels
<1>4. Open(t, l)
  BY <1>2, <1>3 DEF Open
<1> HIDE DEF l
<1>5. /\ ms \in Seq(Levels(t)) /\ Len(ms) = n + 1 /\ ms[n + 1] = l
      /\ \A k \in 1 .. n : ms[k] = ls[k]
  BY <1>3, AppendProperties
<1>6. ms # <<>>
  BY <1>1, <1>5
<1>7. off \in [1 .. n -> Nat]
  BY DEF Stack
<1> HIDE DEF ms, n
<1>8. on \in [1 .. n + 1 -> Nat] /\ on[n + 1] = o /\ \A k \in 1 .. n : on[k] = off[k]
  BY <1>1, <1>7
<1> HIDE DEF on
<1>9. ASSUME NEW k \in 1 .. n + 1 PROVE Open(t, ms[k]) /\ Placed(t, on[k], ms[k].dir)
  <2>1. CASE k = n + 1
    BY <1>3, <1>4, <1>5, <1>8, <2>1
  <2>2. CASE k # n + 1
    <3>1. k \in 1 .. n
      BY <1>1, <2>2
    <3>2. Open(t, ls[k]) /\ Placed(t, off[k], ls[k].dir)
      BY <3>1 DEF Stack, n
    <3> QED
      BY <1>5, <1>8, <3>1, <3>2
  <2> QED
    BY <2>1, <2>2
<1>10. ASSUME NEW k \in 1 .. n
       PROVE  Below(t, ms[k], on[k], ms[k + 1].dir, on[k + 1])
  <2>1. CASE k = n
    BY <1>1, <1>3, <1>5, <1>8, <2>1 DEF n
  <2>2. CASE k # n
    <3>1. k \in 1 .. n - 1 /\ k + 1 \in 1 .. n
      BY <1>1, <2>2
    <3>2. Below(t, ls[k], off[k], ls[k + 1].dir, off[k + 1])
      BY <3>1 DEF Stack, n
    <3> QED
      BY <1>5, <1>8, <3>1, <3>2
  <2> QED
    BY <2>1, <2>2
<1>11. ms[1].dir = Root /\ on[1] = 0
  <2>1. CASE n = 0
    BY <1>1, <1>3, <1>5, <1>8, <2>1
  <2>2. CASE n # 0
    <3>1. 1 \in 1 .. n
      BY <1>1, <2>2
    <3>2. ls[1].dir = Root /\ off[1] = 0
      BY <1>1, <2>2 DEF Stack
    <3> QED
      BY <1>5, <1>8, <3>1, <3>2
  <2> QED
    BY <2>1, <2>2
<1>12. (n + 1) - 1 = n
  BY <1>1
<1>13. Stack(t, ms, on)
  BY <1>5, <1>8, <1>9, <1>10, <1>11, <1>12 DEF Stack
<1>14. ms[Len(ms)].dir = d /\ ms[Len(ms)].pos = 0
  BY <1>3, <1>5
<1>15. \E o1 \in [1 .. Len(ms) -> Nat] : Stack(t, ms, o1) /\ o1[Len(ms)] = o
  BY <1>5, <1>8, <1>13
<1> QED
  BY <1>5, <1>6, <1>14, <1>15 DEF n, ms, l

\* The innermost directory is closed.
LEMMA StackShrinks ==
  ASSUME NEW t, NEW ls \in Seq(Levels(t)), ls # <<>>
  PROVE  /\ Front(ls) \in Seq(Levels(t)) /\ Len(Front(ls)) = Len(ls) - 1
         /\ Len(ls) \in Nat \ {0}
         /\ \A k \in 1 .. Len(ls) - 1 : Front(ls)[k] = ls[k]
         /\ Front(ls) = <<>> <=> Len(ls) = 1
         /\ \A off : Stack(t, ls, off) =>
              \E on \in [1 .. Len(ls) - 1 -> Nat] :
                /\ Stack(t, Front(ls), on)
                /\ \A k \in 1 .. Len(ls) - 1 : on[k] = off[k]
<1> DEFINE n == Len(ls)
           ms == Front(ls)
<1>1. n \in Nat \ {0}
  BY LenProperties, EmptySeq
<1>2. /\ ms \in Seq(Levels(t)) /\ Len(ms) = n - 1
      /\ \A k \in 1 .. n - 1 : ms[k] = ls[k]
  <2>1. \A k \in 1 .. n - 1 : ls[k] \in Levels(t)
    BY <1>1, ElementOfSeq
  <2>2. n - 1 \in 1 - 1 .. n /\ (n - 1) - 1 + 1 = n - 1
    BY <1>1
  <2>3. ms \in Seq(Levels(t))
    BY <1>1, <2>1, SubSeqProperties DEF Front
  <2>4. Len(ms) = n - 1 /\ \A k \in 1 .. n - 1 : ms[k] = ls[k]
    BY <1>1, <2>2, SubSeqProperties DEF Front
  <2> QED
    BY <2>3, <2>4
<1>3. ms = <<>> <=> n = 1
  BY <1>1, <1>2, EmptySeq
<1> HIDE DEF ms
<1>4. ASSUME NEW off, Stack(t, ls, off)
      PROVE  \E on \in [1 .. n - 1 -> Nat] :
               Stack(t, ms, on) /\ \A k \in 1 .. n - 1 : on[k] = off[k]
  <2> DEFINE on == [k \in 1 .. n - 1 |-> off[k]]
  <2>1. off \in [1 .. n -> Nat]
    BY <1>4 DEF Stack
  <2>2. on \in [1 .. n - 1 -> Nat] /\ \A k \in 1 .. n - 1 : on[k] = off[k]
    BY <1>1, <2>1
  <2> HIDE DEF on
  <2>3. ASSUME NEW k \in 1 .. n - 1 PROVE Open(t, ms[k]) /\ Placed(t, on[k], ms[k].dir)
    <3>1. k \in 1 .. n
      BY <1>1
    <3> QED
      BY <1>2, <1>4, <2>2, <3>1 DEF Stack
  <2>4. ASSUME NEW k \in 1 .. (n - 1) - 1
        PROVE  Below(t, ms[k], on[k], ms[k + 1].dir, on[k + 1])
    <3>1. k \in 1 .. n - 1 /\ k + 1 \in 1 .. n - 1
      BY <1>1
    <3>2. Below(t, ls[k], off[k], ls[k + 1].dir, off[k + 1])
      BY <1>4, <3>1 DEF Stack
    <3> QED
      BY <1>2, <2>2, <3>1, <3>2
  <2>5. ASSUME ms # <<>> PROVE ms[1].dir = Root /\ on[1] = 0
    <3>1. 1 \in 1 .. n - 1
      <4>1. n # 1
        BY <1>3, <2>5
      <4> HIDE DEF n
      <4> QED
        BY <1>1, <4>1
    <3> QED
      BY <1>2, <1>4, <2>2, <3>1 DEF Stack
  <2>6. Stack(t, ms, on)
    BY <1>2, <2>2, <2>3, <2>4, <2>5 DEF Stack
  <2> QED
    BY <2>2, <2>6
<1> QED
  BY <1>1, <1>2, <1>3, <1>4 DEF ms

\* What every action uses of an open scan.
LEMMA ScanFacts ==
  ASSUME Scanning
  PROVE  /\ \A n \in Names(tree) : Lines(tree)[n] \in Seq(Paths(tree))
         /\ Listing(tree) \in Seq(Paths(tree)) /\ Len(Listing(tree)) \in Nat
         /\ levels # <<>> =>
              /\ Len(levels) \in Nat \ {0} /\ Top \in Levels(tree)
              /\ \A off : Stack(tree, levels, off) =>
                   /\ Open(tree, Top) /\ off[Len(levels)] \in Nat
                   /\ Placed(tree, off[Len(levels)], Top.dir)
<1>1. \A n \in Names(tree) : Lines(tree)[n] \in Seq(Paths(tree))
  BY LinesMeet DEF Scanning
<1>2. Listing(tree) \in Seq(Paths(tree)) /\ Len(Listing(tree)) \in Nat
  BY <1>1, TreeFacts, LenProperties DEF Scanning, Listing
<1>3. ASSUME levels # <<>>
      PROVE  Len(levels) \in Nat \ {0} /\ Len(levels) \in 1 .. Len(levels) /\ Top \in Levels(tree)
  <2>1. levels \in Seq(Levels(tree)) /\ Len(levels) \in Nat /\ Len(levels) # 0
    BY <1>3, LenProperties, EmptySeq DEF Scanning
  <2> QED
    BY <2>1, ElementOfSeq DEF Top
<1>4. ASSUME levels # <<>>, NEW off, Stack(tree, levels, off)
      PROVE  /\ Open(tree, Top) /\ off[Len(levels)] \in Nat
             /\ Placed(tree, off[Len(levels)], Top.dir)
  BY <1>3, <1>4 DEF Stack, Top
<1> QED
  BY <1>1, <1>2, <1>3, <1>4

\* The command starts at the root of a card.
LEMMA TreeStarts ==
  ASSUME Scanning, cmd_tree
  PROVE  Scanning'
<1> USE DEF cmd_tree
<1>1. IsTree(tree') /\ levels = <<>> /\ levels' = <<>> /\ printed' = <<>> /\ fbuff' = <<>>
  BY CardAssumption DEF Scanning
<1>2. Listing(tree') \in Seq(Paths(tree')) /\ Len(Listing(tree')) \in Nat
  BY <1>1, LinesMeet, TreeFacts, LenProperties DEF Listing
<1>3. printed' \in Seq(Paths(tree')) /\ levels' \in Seq(Levels(tree')) /\ Len(printed') = 0
      /\ Len(levels') = 0
  BY <1>1, EmptySeq
<1>4. IsPrefix(printed', Listing(tree'))
  <2>1. Len(printed') <= Len(Listing(tree'))
        /\ \A j \in 1 .. Len(printed') : printed'[j] = Listing(tree')[j]
    BY <1>2, <1>3
  <2> QED
    BY <1>2, <1>3, <2>1, AgreesIsPrefix
<1> DEFINE off == [k \in 1 .. 0 |-> 0]
<1>5. Stack(tree', levels', off) /\ off \in [1 .. Len(levels') -> Nat]
  BY <1>1, <1>3 DEF Stack
<1>6. Entering(off)'
  BY <1>1, <1>2, <1>3 DEF Entering, Shown
<1>7. Where'
  BY <1>5, <1>6 DEF Where
<1> QED
  BY <1>1, <1>3, <1>4, <1>7 DEF Scanning, ListingInOrder

\* The directory that the path names is the entry read last, or the root.
LEMMA DirOpens ==
  ASSUME Scanning, OpenDir
  PROVE  Scanning'
<1> USE DEF OpenDir
<1>1. PICK d \in DOMAIN tree :
        /\ PathOf(tree, d) = fbuff
        /\ levels' = Append(levels, [dir |-> d, pos |-> 0, i |-> Len(fbuff)])
  OBVIOUS
<1>2. /\ pc = "enter" /\ pc' = "read" /\ tree' = tree /\ fbuff' = fbuff
      /\ res' = res /\ printed' = printed
  OBVIOUS
<1>3. Where /\ IsTree(tree) /\ levels \in Seq(Levels(tree))
  BY <1>2 DEF Scanning
<1>4. PICK off \in [1 .. Len(levels) -> Nat] : Stack(tree, levels, off) /\ Entering(off)
  BY <1>2, <1>3 DEF Where
<1>5. Upto(tree, d, 0) = <<>> /\ d \in Names(tree) /\ Root \in Names(tree) /\ Root \in DOMAIN tree
  BY <1>3, UptoMeets, TreeFacts
<1>6. \E o \in Nat : /\ Placed(tree, o, d) /\ Shown(o)
                     /\ IF levels = <<>> THEN d = Root /\ o = 0
                        ELSE Below(tree, Top, off[Len(levels)], d, o)
  <2>1. CASE levels = <<>>
    <3>1. fbuff = <<>> /\ Shown(0)
      BY <1>4, <2>1 DEF Entering
    <3>2. d = Root
      BY <1>1, <1>3, <1>5, <3>1, PathsMeet, PathsDiffer
    <3>3. Placed(tree, 0, Root)
      BY ScanFacts DEF Placed, Listing
    <3> QED
      BY <2>1, <3>1, <3>2, <3>3
  <2>2. CASE levels # <<>>
    <3>1. /\ Top.pos > 0 /\ Current(tree, Top) \in DOMAIN tree
          /\ fbuff = PathOf(tree, Current(tree, Top))
          /\ Shown(off[Len(levels)] + Len(Upto(tree, Top.dir, Top.pos - 1)))
      BY <1>4, <2>2 DEF Entering
    <3>2. Open(tree, Top) /\ off[Len(levels)] \in Nat
          /\ Placed(tree, off[Len(levels)], Top.dir)
      BY <1>4, <2>2, ScanFacts
    <3>3. Current(tree, Top) \in Names(tree)
      BY <1>3, <3>1, TreeFacts
    <3>4. d = Current(tree, Top)
      BY <1>1, <1>3, <1>5, <3>1, <3>3, PathsDiffer
    <3>5. Top.dir \in DOMAIN tree /\ Top.pos \in 1 .. Len(tree[Top.dir])
      <4>1. Top.dir \in DOMAIN tree /\ Top.pos \in 0 .. Len(tree[Top.dir])
        BY <3>2 DEF Open
      <4> QED
        BY <1>3, <3>1, <4>1, TreeFacts
    <3>6. Placed(tree, off[Len(levels)] + Len(Upto(tree, Top.dir, Top.pos - 1)), d)
          /\ Len(Upto(tree, Top.dir, Top.pos - 1)) \in Nat
      BY <1>3, <3>2, <3>4, <3>5, EntryPlaced DEF Current
    <3>7. off[Len(levels)] + Len(Upto(tree, Top.dir, Top.pos - 1)) \in Nat
      BY <3>2, <3>6
    <3> QED
      BY <2>2, <3>1, <3>4, <3>6, <3>7 DEF Below
  <2> QED
    BY <2>1, <2>2
<1>7. PICK o \in Nat : /\ Placed(tree, o, d) /\ Shown(o)
                       /\ IF levels = <<>> THEN d = Root /\ o = 0
                          ELSE Below(tree, Top, off[Len(levels)], d, o)
  BY <1>6
<1>8. /\ levels' \in Seq(Levels(tree)) /\ levels' # <<>>
      /\ levels'[Len(levels')].dir = d /\ levels'[Len(levels')].pos = 0
      /\ \E on \in [1 .. Len(levels') -> Nat] :
           Stack(tree, levels', on) /\ on[Len(levels')] = o
  BY <1>1, <1>3, <1>4, <1>7, StackGrows DEF Top
<1>9. PICK on \in [1 .. Len(levels') -> Nat] :
        Stack(tree, levels', on) /\ on[Len(levels')] = o
  BY <1>8
<1>10. Reading(on)'
  <2>1. o + Len(Upto(tree, d, 0)) = o
    <3>1. Len(Upto(tree, d, 0)) = 0
      BY <1>5, EmptySeq
    <3> QED
      BY <3>1
  <2>2. Shown(o)'
    BY <1>2, <1>7 DEF Shown
  <2> QED
    BY <1>1, <1>2, <1>8, <1>9, <2>1, <2>2 DEF Reading, Top
<1>11. Where'
  BY <1>2, <1>9, <1>10 DEF Where
<1> QED
  BY <1>2, <1>8, <1>11 DEF Scanning, ListingInOrder

\* f_readdir returns an entry whose lines come next.
LEMMA EntryRead ==
  ASSUME Scanning, ReadDir
  PROVE  /\ levels # <<>> /\ Len(levels) \in Nat \ {0}
         /\ levels' \in Seq(Levels(tree)) /\ Len(levels') = Len(levels) /\ levels' # <<>>
         /\ levels'[Len(levels)].dir = Top.dir /\ levels'[Len(levels)].pos = Top.pos + 1
         /\ Top.dir \in DOMAIN tree /\ Top.pos \in Nat
         /\ Top.pos + 1 \in 1 .. Len(tree[Top.dir])
         /\ Entry \in Names(tree) /\ fbuff = PathOf(tree, Top.dir)
         /\ PathOf(tree, Entry) = Append(fbuff, Entry)
         /\ fbuff \in Seq(Names(tree)) /\ Top.i = Len(fbuff)
         /\ \E off \in [1 .. Len(levels) -> Nat] :
              /\ Stack(tree, levels, off) /\ Stack(tree, levels', off)
              /\ Shown(off[Len(levels)] + Len(Upto(tree, Top.dir, Top.pos)))
              /\ Placed(tree, off[Len(levels)] + Len(Upto(tree, Top.dir, Top.pos)), Entry)
              /\ off[Len(levels)] + Len(Upto(tree, Top.dir, Top.pos)) \in Nat
              /\ off[Len(levels)] + Len(Upto(tree, Top.dir, Top.pos + 1))
                   = (off[Len(levels)] + Len(Upto(tree, Top.dir, Top.pos)))
                     + Len(Lines(tree)[Entry])
<1>1. pc = "read" /\ Where /\ IsTree(tree) /\ levels \in Seq(Levels(tree))
      /\ Top.pos < Len(tree[Top.dir])
  BY Zenon DEF Scanning, ReadDir
<1>2. PICK off \in [1 .. Len(levels) -> Nat] : Stack(tree, levels, off) /\ Reading(off)
  BY <1>1 DEF Where
<1>3. /\ levels # <<>> /\ fbuff = PathOf(tree, Top.dir)
      /\ Shown(off[Len(levels)] + Len(Upto(tree, Top.dir, Top.pos)))
  BY <1>2 DEF Reading
<1>4. /\ Len(levels) \in Nat \ {0} /\ Open(tree, Top) /\ off[Len(levels)] \in Nat
      /\ Placed(tree, off[Len(levels)], Top.dir)
  BY <1>2, <1>3, ScanFacts
<1>5. /\ Top.dir \in DOMAIN tree /\ Top.pos \in Nat /\ Len(tree[Top.dir]) \in Nat
      /\ Top.pos + 1 \in 1 .. Len(tree[Top.dir]) /\ (Top.pos + 1) - 1 = Top.pos
      /\ Top.pos + 1 \in 0 .. Len(tree[Top.dir])
  <2>1. Top.dir \in DOMAIN tree /\ Top.pos \in 0 .. Len(tree[Top.dir])
    BY <1>4 DEF Open
  <2>2. Len(tree[Top.dir]) \in Nat
    BY <1>1, <2>1, TreeFacts
  <2> QED
    BY <1>1, <2>1, <2>2
<1>6. /\ Entry \in Names(tree) /\ Entry # Root /\ Parent(tree, Entry) = Top.dir
      /\ Top.dir \in Names(tree)
  BY <1>1, <1>5, TreeFacts DEF Entry
<1>7. PathOf(tree, Entry) = Append(fbuff, Entry) /\ fbuff \in Seq(Names(tree))
  BY <1>1, <1>3, <1>6, PathsMeet
<1>8. Top.i = Len(fbuff)
  BY <1>3, <1>4 DEF Open
<1>9. levels' = [levels EXCEPT ![Len(levels)] =
                   [dir |-> Top.dir, pos |-> Top.pos + 1, i |-> Top.i]]
  <2> DEFINE l == [Top EXCEPT !.pos = Top.pos + 1]
  <2>1. levels' = [levels EXCEPT ![Len(levels)] = l]
    BY Zenon DEF ReadDir, Top
  <2>2. Top \in Levels(tree)
    BY <1>3, ScanFacts
  <2>3. l = [dir |-> Top.dir, pos |-> Top.pos + 1, i |-> Top.i]
    BY <2>2 DEF Levels
  <2> QED
    BY <2>1, <2>3, Zenon
<1>10. /\ levels' \in Seq(Levels(tree)) /\ Len(levels') = Len(levels) /\ levels' # <<>>
       /\ levels'[Len(levels)].dir = Top.dir /\ levels'[Len(levels)].pos = Top.pos + 1
       /\ Stack(tree, levels', off)
  <2> DEFINE n == Len(levels)
             m == [dir |-> Top.dir, pos |-> Top.pos + 1, i |-> Top.i]
  <2>1. n \in 1 .. n /\ n \in Nat \ {0}
    BY <1>4
  <2>2. m \in Levels(tree)
    <3>1. Top \in Levels(tree)
      BY <1>3, ScanFacts
    <3> QED
      BY <1>5, <3>1 DEF Levels
  <2>3. levels' = [levels EXCEPT ![n] = m]
    BY <1>9, Zenon
  <2>4. m.dir = Top.dir /\ m.pos = Top.pos + 1
    OBVIOUS
  <2>5. /\ levels' \in Seq(Levels(tree)) /\ Len(levels') = n
        /\ \A k \in 1 .. n : levels'[k] = IF k = n THEN m ELSE levels[k]
    <3> HIDE DEF m, n
    <3> QED
      BY <1>1, <2>1, <2>2, <2>3, ExceptSeq DEF n
  <2>6. levels'[n] = m /\ \A k \in 1 .. n - 1 : levels'[k] = levels[k]
    <3> HIDE DEF m, n
    <3> QED
      BY <2>1, <2>5
  <2>7. levels' # <<>>
    BY <2>1, <2>5
  <2>8. Stack(tree, levels', off)
    BY <1>1, <1>2, <1>3, <1>5, <2>5, <2>6, StackMoves DEF Top
  <2> QED
    BY <2>4, <2>5, <2>6, <2>7, <2>8
<1>11. /\ Placed(tree, off[Len(levels)] + Len(Upto(tree, Top.dir, Top.pos)), Entry)
       /\ Len(Upto(tree, Top.dir, Top.pos)) \in Nat /\ Len(Lines(tree)[Entry]) \in Nat
       /\ Len(Upto(tree, Top.dir, Top.pos + 1))
            = Len(Upto(tree, Top.dir, Top.pos)) + Len(Lines(tree)[Entry])
  <2>1. /\ Placed(tree, off[Len(levels)] + Len(Upto(tree, Top.dir, (Top.pos + 1) - 1)), Entry)
        /\ Len(Upto(tree, Top.dir, (Top.pos + 1) - 1)) \in Nat
        /\ Len(Lines(tree)[Entry]) \in Nat
        /\ Len(Upto(tree, Top.dir, Top.pos + 1))
             = Len(Upto(tree, Top.dir, (Top.pos + 1) - 1)) + Len(Lines(tree)[Entry])
    BY <1>1, <1>4, <1>5, EntryPlaced DEF Entry
  <2> QED
    BY <1>5, <2>1
<1>12. /\ off[Len(levels)] + Len(Upto(tree, Top.dir, Top.pos)) \in Nat
       /\ off[Len(levels)] + Len(Upto(tree, Top.dir, Top.pos + 1))
            = (off[Len(levels)] + Len(Upto(tree, Top.dir, Top.pos)))
              + Len(Lines(tree)[Entry])
  <2> DEFINE o == off[Len(levels)]
             u == Len(Upto(tree, Top.dir, Top.pos))
             v == Len(Upto(tree, Top.dir, Top.pos + 1))
             w == Len(Lines(tree)[Entry])
  <2>1. o \in Nat /\ u \in Nat /\ w \in Nat /\ v = u + w
    BY <1>4, <1>11, Zenon
  <2> HIDE DEF o, u, v, w
  <2>2. o + u \in Nat /\ o + v = (o + u) + w
    BY <2>1
  <2> QED
    BY <2>2, Zenon DEF o, u, v, w
<1> QED
  BY <1>2, <1>3, <1>4, <1>5, <1>6, <1>7, <1>8, <1>10, <1>11, <1>12

\* The line of a file is the next one of the listing.
LEMMA FileListed ==
  ASSUME Scanning, ListFile
  PROVE  Scanning'
<1> USE DEF ListFile
<1>1. ReadDir /\ Entry \notin DOMAIN tree /\ pc = "read" /\ fno' = Entry
  BY DEF ReadDir
<1>2. /\ tree' = tree /\ fbuff' = fbuff /\ res' = res /\ pc' = pc
      /\ printed' = Append(printed, Append(fbuff, Entry))
  BY <1>1
<1> DEFINE n == Len(levels)
           m(o) == o + Len(Upto(tree, Top.dir, Top.pos))
           m1(o) == o + Len(Upto(tree, Top.dir, Top.pos + 1))
<1>3. PICK off \in [1 .. n -> Nat] :
        /\ Stack(tree, levels', off)
        /\ Shown(m(off[n])) /\ Placed(tree, m(off[n]), Entry) /\ m(off[n]) \in Nat
        /\ m1(off[n]) = m(off[n]) + Len(Lines(tree)[Entry])
  BY <1>1, EntryRead
<1>4. /\ levels' \in Seq(Levels(tree)) /\ Len(levels') = n /\ levels' # <<>>
      /\ levels'[n].dir = Top.dir /\ levels'[n].pos = Top.pos + 1
      /\ Entry \in Names(tree) /\ fbuff = PathOf(tree, Top.dir)
      /\ PathOf(tree, Entry) = Append(fbuff, Entry)
  BY <1>1, EntryRead
<1>5. /\ IsTree(tree) /\ printed \in Seq(Paths(tree)) /\ Listing(tree) \in Seq(Paths(tree))
      /\ Len(Listing(tree)) \in Nat
  BY ScanFacts DEF Scanning
<1>6. Lines(tree)[Entry] = <<Append(fbuff, Entry)>> /\ Append(fbuff, Entry) \in Paths(tree)
  <2>1. Lines(tree)[Entry] = <<PathOf(tree, Entry)>>
    BY <1>1, <1>4, <1>5, LinesMeet, Zenon
  <2>2. PathOf(tree, Entry) \in Seq(Names(tree))
    BY <1>4, <1>5, PathsMeet, Zenon
  <2>3. PathOf(tree, Entry) \in Paths(tree)
    BY <2>2 DEF Paths
  <2> QED
    BY <1>4, <2>1, <2>3, Zenon
<1>7. Len(Lines(tree)[Entry]) = 1 /\ Lines(tree)[Entry][1] = Append(fbuff, Entry)
  BY <1>6
<1>8. PICK k \in Nat : k = m(off[n])
  BY <1>3
<1>9. /\ Len(printed) = k /\ k <= Len(Listing(tree)) /\ k \in Nat
      /\ \A j \in 1 .. k : printed[j] = Listing(tree)[j]
  BY <1>3, <1>8 DEF Shown
<1>10. k + 1 <= Len(Listing(tree)) /\ Listing(tree)[k + 1] = Append(fbuff, Entry)
  BY <1>3, <1>7, <1>8 DEF Placed
<1>11. m1(off[n]) = k + 1
  BY <1>3, <1>7, <1>8
<1>12. /\ printed' \in Seq(Paths(tree)) /\ Len(printed') = k + 1
       /\ printed'[k + 1] = Append(fbuff, Entry)
       /\ \A j \in 1 .. k : printed'[j] = printed[j]
  BY <1>2, <1>5, <1>6, <1>9, AppendProperties
<1>13. \A j \in 1 .. k + 1 : printed'[j] = Listing(tree)[j]
  <2> SUFFICES ASSUME NEW j \in 1 .. k + 1 PROVE printed'[j] = Listing(tree)[j]
    OBVIOUS
  <2>1. j \in 1 .. k \/ j = k + 1
    BY <1>9
  <2> QED
    BY <1>9, <1>10, <1>12, <2>1
<1>14. IsPrefix(printed', Listing(tree))
  BY <1>5, <1>10, <1>12, <1>13, AgreesIsPrefix
<1>15. Reading(off)'
  <2>1. Shown(k + 1)'
    BY <1>2, <1>10, <1>12, <1>13 DEF Shown
  <2> QED
    BY <1>2, <1>4, <1>11, <2>1 DEF Reading, Top
<1>16. Where'
  BY <1>1, <1>2, <1>3, <1>4, <1>15 DEF Where
<1> QED
  BY <1>1, <1>2, <1>4, <1>5, <1>12, <1>14, <1>16 DEF Scanning, ListingInOrder

\* The path of a directory is its parent's with its name, so that only a long
\* path overruns the buffer.
LEMMA DirEntered ==
  ASSUME Scanning, EnterDir
  PROVE  Scanning'
<1> USE DEF EnterDir
<1>1. ReadDir /\ Entry \in DOMAIN tree /\ pc = "read" /\ fno' = Entry
  BY DEF ReadDir
<1>2. /\ tree' = tree /\ res' = res /\ printed' = printed
      /\ fbuff' = Append(SubSeq(fbuff, 1, Top.i), Entry)
      /\ pc' = IF Bytes(fbuff') <= BufferSize THEN "enter" ELSE "overrun"
  BY <1>1
<1> DEFINE n == Len(levels)
           m(o) == o + Len(Upto(tree, Top.dir, Top.pos))
<1>3. PICK off \in [1 .. n -> Nat] : Stack(tree, levels', off) /\ Shown(m(off[n]))
  BY <1>1, EntryRead
<1>4. /\ levels' \in Seq(Levels(tree)) /\ Len(levels') = n /\ levels' # <<>>
      /\ levels'[n].dir = Top.dir /\ levels'[n].pos = Top.pos + 1 /\ Top.pos \in Nat
      /\ PathOf(tree, Entry) = Append(fbuff, Entry)
      /\ fbuff \in Seq(Names(tree)) /\ Top.i = Len(fbuff)
  BY <1>1, EntryRead
<1>5. fbuff' = PathOf(tree, Entry)
  <2>1. SubSeq(fbuff, 1, Len(fbuff)) = fbuff
    BY <1>4, SubSeqFull
  <2> QED
    BY <1>2, <1>4, <2>1
<1>6. /\ levels'[n].pos > 0 /\ levels'[n].pos - 1 = Top.pos
      /\ Current(tree, levels'[n]) = Entry
  <2>1. \A a \in Nat : a + 1 > 0 /\ (a + 1) - 1 = a
    OBVIOUS
  <2> QED
    BY <1>4, <2>1 DEF Current, Entry
<1>7. Entering(off)'
  <2>1. Shown(m(off[n]))
    BY <1>3
  <2> DEFINE k == m(off[n])
  <2>2. Shown(k)
    BY <2>1
  <2>3. k = off[n] + Len(Upto(tree, levels'[n].dir, levels'[n].pos - 1))
    BY <1>4, <1>6
  <2> HIDE DEF k
  <2>4. /\ Len(printed) = k /\ k <= Len(Listing(tree))
        /\ \A j \in 1 .. k : printed[j] = Listing(tree)[j]
    BY <2>2 DEF Shown
  <2> QED
    BY <1>1, <1>2, <1>4, <1>5, <1>6, <2>3, <2>4 DEF Entering, Top, Shown
<1>8. CASE pc' = "enter"
  <2>1. Where'
    BY <1>2, <1>3, <1>4, <1>7, <1>8 DEF Where
  <2> QED
    BY <1>2, <1>4, <1>8, <2>1 DEF Scanning, ListingInOrder
<1>9. CASE pc' = "overrun"
  <2>1. ~(Bytes(PathOf(tree, Entry)) <= BufferSize)
    BY <1>2, <1>5, <1>9
  <2> QED
    BY <1>1, <1>2, <1>4, <1>9, <2>1 DEF Scanning, ListingInOrder
<1> QED
  BY <1>2, <1>8, <1>9

\* A directory that ends has been printed, and its parent goes on behind it.
LEMMA DirEnds ==
  ASSUME Scanning, ReadDirEnds
  PROVE  Scanning'
<1> USE DEF ReadDirEnds
<1>1. /\ pc = "read" /\ pc' = "return" /\ levels' = Front(levels)
      /\ tree' = tree /\ fbuff' = fbuff /\ printed' = printed
  OBVIOUS
<1>2. Where /\ IsTree(tree) /\ levels \in Seq(Levels(tree)) /\ printed \in Seq(Paths(tree))
      /\ Listing(tree) \in Seq(Paths(tree)) /\ IsPrefix(printed, Listing(tree))
  BY <1>1, ScanFacts DEF Scanning, ListingInOrder
<1>3. PICK off \in [1 .. Len(levels) -> Nat] : Stack(tree, levels, off) /\ Reading(off)
  BY <1>1, <1>2 DEF Where
<1>4. /\ levels # <<>> /\ fbuff = PathOf(tree, Top.dir)
      /\ Shown(off[Len(levels)] + Len(Upto(tree, Top.dir, Top.pos)))
  BY <1>3 DEF Reading
<1>5. PICK n \in Nat \ {0} : n = Len(levels)
  BY <1>4, ScanFacts
<1>6. /\ levels' \in Seq(Levels(tree)) /\ Len(levels') = n - 1
      /\ \A k \in 1 .. n - 1 : levels'[k] = levels[k]
      /\ levels' = <<>> <=> n = 1
  BY <1>1, <1>2, <1>4, <1>5, StackShrinks
<1>7. CASE res' # "ok"
  BY <1>1, <1>2, <1>6, <1>7 DEF Scanning, ListingInOrder
<1>8. CASE res' = "ok" /\ Top.pos = Len(tree[Top.dir])
  <2>1. /\ Open(tree, levels[n]) /\ off[n] \in Nat /\ Placed(tree, off[n], levels[n].dir)
        /\ Top = levels[n]
    BY <1>3, <1>4, <1>5, ScanFacts DEF Top
  <2>2. levels[n].dir \in DOMAIN tree /\ levels[n].dir \in Names(tree)
    BY <1>2, <2>1, TreeFacts DEF Open
  <2>3. Shown(off[n] + Len(Lines(tree)[levels[n].dir]))
    <3>1. Upto(tree, levels[n].dir, levels[n].pos) = Lines(tree)[levels[n].dir]
      BY <1>2, <1>8, <2>1, <2>2, UptoMeets
    <3> QED
      BY <1>4, <1>5, <2>1, <3>1
  <2>4. PICK on \in [1 .. n - 1 -> Nat] :
          Stack(tree, levels', on) /\ \A k \in 1 .. n - 1 : on[k] = off[k]
    BY <1>1, <1>2, <1>3, <1>4, <1>5, StackShrinks
  <2>5. Returning(on)'
    <3>1. CASE n = 1
      <4>1. levels[1].dir = Root /\ off[1] = 0
        BY <1>3, <1>4 DEF Stack
      <4>2. off[n] + Len(Lines(tree)[levels[n].dir]) = Len(Listing(tree))
        <5>1. Len(Listing(tree)) \in Nat
          BY ScanFacts
        <5> QED
          BY <3>1, <4>1, <5>1 DEF Listing
      <4>3. Shown(Len(Listing(tree)))
        BY <2>3, <4>2
      <4> QED
        BY <1>1, <1>6, <3>1, <4>3 DEF Returning, Shown
    <3>2. CASE n # 1
      <4>1. PICK m \in 1 .. n - 1 : m = n - 1
        BY <3>2
      <4>2. m + 1 = n /\ m \in 1 .. n /\ m \in Nat
        BY <4>1
      <4>3. Below(tree, levels[m], off[m], levels[n].dir, off[n])
        BY <1>3, <1>5, <4>1, <4>2 DEF Stack
      <4>4. Open(tree, levels[m]) /\ Placed(tree, off[m], levels[m].dir) /\ off[m] \in Nat
        BY <1>3, <1>5, <4>2 DEF Stack
      <4> DEFINE d == levels[m].dir
                 p == levels[m].pos
      <4>5. /\ d \in DOMAIN tree /\ p \in 1 .. Len(tree[d]) /\ tree[d][p] = levels[n].dir
            /\ off[n] = off[m] + Len(Upto(tree, d, p - 1)) /\ p > 0
        <5>1. d \in DOMAIN tree /\ p \in 0 .. Len(tree[d]) /\ p > 0
          BY <4>3, <4>4 DEF Open, Below
        <5>2. Len(tree[d]) \in Nat
          BY <1>2, <5>1, TreeFacts
        <5> HIDE DEF d, p
        <5>3. p \in 1 .. Len(tree[d])
          BY <5>1, <5>2
        <5> QED
          BY <4>3, <5>1, <5>3 DEF Below, Current, d, p
      <4> HIDE DEF d, p
      <4>6. /\ Len(Upto(tree, d, p - 1)) \in Nat /\ Len(Lines(tree)[tree[d][p]]) \in Nat
            /\ Len(Upto(tree, d, p)) = Len(Upto(tree, d, p - 1)) + Len(Lines(tree)[tree[d][p]])
        BY <1>2, <4>4, <4>5, EntryPlaced DEF d
      <4>7. off[n] + Len(Lines(tree)[levels[n].dir]) = off[m] + Len(Upto(tree, d, p))
        <5> DEFINE x == Len(Upto(tree, d, p - 1))
                   y == Len(Lines(tree)[levels[n].dir])
        <5>1. x \in Nat /\ y \in Nat /\ Len(Upto(tree, d, p)) = x + y /\ off[n] = off[m] + x
          BY <4>5, <4>6
        <5> HIDE DEF x, y
        <5>2. off[n] + y = off[m] + (x + y)
          BY <4>4, <5>1
        <5> QED
          BY <5>1, <5>2 DEF y
      <4>8. PICK s \in Nat : s = off[m] + Len(Upto(tree, d, p)) /\ Shown(s)
        <5>1. off[m] + Len(Upto(tree, d, p)) \in Nat
          <6>1. p \in 0 .. Len(tree[d])
            BY <4>5
          <6>2. Len(Upto(tree, d, p)) \in Nat
            BY <1>2, <4>5, <6>1, UptoBegins
          <6> QED
            BY <4>4, <6>2
        <5> QED
          BY <2>3, <4>7, <5>1
      <4>9. Shown(s)'
        BY <1>1, <4>8 DEF Shown
      <4>10. Top' = levels[m] /\ Len(levels') = m /\ on[m] = off[m] /\ levels' # <<>>
        BY <1>6, <2>4, <3>2, <4>1 DEF Top
      <4>11. Current(tree, levels[m]) = levels[n].dir
        BY <4>3 DEF Below
      <4>12. fbuff' = PathOf(tree, Current(tree, levels[m]))
        BY <1>1, <1>4, <2>1, <4>11
      <4>13. s = on[Len(levels')] + Len(Upto(tree, (Top').dir, (Top').pos))
        BY <4>8, <4>10 DEF d, p
      <4> QED
        BY <1>1, <4>5, <4>9, <4>10, <4>12, <4>13 DEF Returning, p
    <3> QED
      BY <3>1, <3>2
  <2>6. Where'
    BY <1>1, <1>6, <2>4, <2>5 DEF Where
  <2>7. ASSUME levels' = <<>> PROVE printed = Listing(tree)
    <3>1. Shown(Len(Listing(tree)))
      BY <1>1, <2>5, <2>7 DEF Returning, Shown
    <3> QED
      BY <1>2, <3>1, SeqEqual DEF Shown
  <2> QED
    BY <1>1, <1>2, <1>6, <1>8, <2>6, <2>7 DEF Scanning, ListingInOrder
<1> QED
  BY <1>7, <1>8

\* The path is cut to the one of the directory that goes on.
LEMMA LevelReturns ==
  ASSUME Scanning, Return
  PROVE  Scanning'
<1> USE DEF Return
<1>1. /\ pc = "return" /\ levels # <<>> /\ fbuff' = SubSeq(fbuff, 1, Top.i)
      /\ tree' = tree /\ res' = res /\ printed' = printed
  OBVIOUS
<1>2. CASE res # "ok" /\ levels' = Front(levels) /\ pc' = pc
  <2>1. levels' \in Seq(Levels(tree))
    BY <1>1, <1>2, StackShrinks DEF Scanning
  <2> QED
    BY <1>1, <1>2, <2>1 DEF Scanning, ListingInOrder
<1>3. CASE res = "ok" /\ pc' = "read" /\ levels' = levels
  <2>1. Where /\ IsTree(tree) /\ levels \in Seq(Levels(tree))
    BY <1>1, <1>3 DEF Scanning
  <2>2. PICK off \in [1 .. Len(levels) -> Nat] : Stack(tree, levels, off) /\ Returning(off)
    BY <1>1, <2>1 DEF Where
  <2>3. /\ Top.pos > 0 /\ fbuff = PathOf(tree, Current(tree, Top))
        /\ Shown(off[Len(levels)] + Len(Upto(tree, Top.dir, Top.pos)))
    BY <1>1, <2>2 DEF Returning
  <2>4. Open(tree, Top)
    BY <1>1, <2>2, ScanFacts
  <2>5. Top.dir \in DOMAIN tree /\ Top.pos \in 1 .. Len(tree[Top.dir])
        /\ Top.i = Len(PathOf(tree, Top.dir))
    <3>1. Top.dir \in DOMAIN tree /\ Top.pos \in 0 .. Len(tree[Top.dir])
          /\ Top.i = Len(PathOf(tree, Top.dir))
      BY <2>4 DEF Open
    <3>2. Len(tree[Top.dir]) \in Nat
      BY <2>1, <3>1, TreeFacts
    <3> QED
      BY <2>3, <3>1, <3>2
  <2>6. /\ Current(tree, Top) \in Names(tree) /\ Current(tree, Top) # Root
        /\ Parent(tree, Current(tree, Top)) = Top.dir /\ Top.dir \in Names(tree)
    BY <2>1, <2>5, TreeFacts DEF Current
  <2>7. fbuff = Append(PathOf(tree, Top.dir), Current(tree, Top))
        /\ PathOf(tree, Top.dir) \in Seq(Names(tree))
    BY <2>1, <2>3, <2>6, PathsMeet
  <2>8. fbuff' = PathOf(tree, Top.dir)
    <3> DEFINE q == PathOf(tree, Top.dir)
               c == Current(tree, Top)
    <3>1. q \in Seq(Names(tree)) /\ c \in Names(tree) /\ fbuff' = SubSeq(Append(q, c), 1, Len(q))
      BY <1>1, <2>5, <2>6, <2>7
    <3> HIDE DEF q, c
    <3>2. Len(q) \in Nat /\ \A k \in 1 .. Len(q) : Append(q, c)[k] = q[k]
      BY <3>1, AppendProperties, LenProperties
    <3>3. SubSeq(Append(q, c), 1, Len(q)) = SubSeq(q, 1, Len(q))
      BY <3>1, <3>2
    <3>4. SubSeq(q, 1, Len(q)) = q
      BY <3>1, SubSeqFull
    <3> QED
      BY <3>1, <3>3, <3>4 DEF q
  <2>9. Reading(off)'
    <3>1. Top' = Top
      BY <1>3 DEF Top
    <3>2. Shown(off[Len(levels)] + Len(Upto(tree, Top.dir, Top.pos)))'
      BY <1>1, <1>3, <2>3, <3>1 DEF Shown
    <3> QED
      BY <1>1, <1>3, <2>8, <3>1, <3>2 DEF Reading
  <2>10. Where'
    BY <1>1, <1>3, <2>2, <2>9 DEF Where
  <2> QED
    BY <1>1, <1>3, <2>1, <2>10 DEF Scanning, ListingInOrder
<1> QED
  BY <1>2, <1>3

\* A step of the tree command keeps the scan in order.
LEMMA ScanningInductive ==
  ASSUME Scanning, TreeNext
  PROVE  Scanning'
<1>1. CASE OpenDirFails
  BY <1>1 DEF OpenDirFails, Scanning, ListingInOrder
<1>2. CASE TreeDone
  BY <1>2 DEF TreeDone, Scanning, ListingInOrder
<1> QED
  BY <1>1, <1>2, TreeStarts, DirOpens, FileListed, DirEntered, DirEnds, LevelReturns
  DEF TreeNext, scan_files

\* It is in order before the first card is listed.
LEMMA ScanningInit ==
  ASSUME TreeInit
  PROVE  Scanning
<1> USE DEF TreeInit
<1>1. IsTree(tree)
  BY EmptyCard
<1>2. printed \in Seq(Paths(tree)) /\ levels \in Seq(Levels(tree)) /\ Len(printed) = 0
  BY EmptySeq
<1>3. Listing(tree) \in Seq(Paths(tree)) /\ Len(Listing(tree)) \in Nat
  BY <1>1, LinesMeet, TreeFacts, LenProperties DEF Listing
<1>4. Len(printed) <= Len(Listing(tree))
      /\ \A j \in 1 .. Len(printed) : printed[j] = Listing(tree)[j]
  BY <1>2, <1>3
<1>5. IsPrefix(printed, Listing(tree))
  BY <1>2, <1>3, <1>4, AgreesIsPrefix
<1> QED
  BY <1>1, <1>2, <1>5 DEF Scanning, ListingInOrder

\* A step of another command leaves it alone.
LEMMA ScanningStays ==
  ASSUME Scanning, UNCHANGED treeVars
  PROVE  Scanning'
<1>1. /\ tree' = tree /\ fbuff' = fbuff /\ levels' = levels /\ res' = res
      /\ printed' = printed /\ pc' = pc
  BY DEF treeVars
<1> QED
  BY <1>1 DEF Scanning, ListingInOrder, Where, Entering, Reading, Returning, Shown, Top

\* The scan is in order in every reachable state of the console.
LEMMA ScanningHolds == Spec => []Scanning
<1>1. Init => Scanning
  BY ScanningInit DEF Init
<1>2. Scanning /\ [Next]_vars => Scanning'
  <2> SUFFICES ASSUME Scanning, [Next]_vars PROVE Scanning'
    OBVIOUS
  <2>1. CASE RunTree
    BY <2>1, ScanningInductive DEF RunTree
  <2>2. CASE RunSensors \/ RunMembench \/ UNCHANGED vars
    <3>1. UNCHANGED treeVars
      BY <2>2 DEF RunSensors, RunMembench, vars
    <3> QED
      BY <3>1, ScanningStays
  <2> QED
    BY <2>1, <2>2 DEF Next
<1> QED
  BY <1>1, <1>2, PTL DEF Spec

\* For every card, what tree prints is the beginning of the card's listing with
\* every line's full path, and all of it after a scan without an error; and only
\* a card with a path that is too long overruns fbuff, whatever was listed
\* before it (main.c 338-365, 1024 bytes in the firmware).
THEOREM ListingHolds == Spec => []ListingInOrder
<1>1. Scanning => ListingInOrder
  BY DEF Scanning
<1> QED
  BY <1>1, ScanningHolds, PTL
=============================================================================
