SPECIFICATION BbatSpec
CONSTANTS
  Currents = {500, 1500}
  Factory = 2000000
  Readings <- EdgeReadings
  Samples = 4
  Pins = {p1, p2}
  Beyond = p3
INVARIANTS LimitsAgree NotChargingOnceOff AnswerIsMeasured DrivenIsHeld ReadIsWire
