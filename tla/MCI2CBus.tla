------------------------------ MODULE MCI2CBus ------------------------------
(* One bus with a chip and a sensor, or with one device of each kind. *)
EXTENDS I2CBus

CONSTANTS expander, driver, sensor

MCKindOf(d) ==
  CASE d = expander -> "PCA9555" [] d = driver -> "PCA9685" [] d = sensor -> "LIS3DH"

MCDevices == <<expander, sensor>>
MCKind == [d \in {expander, sensor} |-> MCKindOf(d)]

MCEveryDevice == <<expander, driver, sensor>>
MCEveryKind == [d \in {expander, driver, sensor} |-> MCKindOf(d)]
=============================================================================
