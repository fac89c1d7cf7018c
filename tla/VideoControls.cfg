SPECIFICATION ControlsSpec
CONSTANTS
  Byte = 16
  Short = 2048
  Word = 4096
  ExposureUnit = 10
  PanUnit = 36
  SensorW = 40
  SensorH = 30
  Precision = 2048
  Offered = {"contrast", "saturation", "backlight", "gain", "wbTemperature", "wbMode"}
  HostValues <- MCValues
  Magnifications <- MCMagnifications
  Angles <- MCAngles
  MaxTouched = 2
CONSTRAINT FewControls
INVARIANTS
  ReadsBack
PROPERTIES
  PanKeepsPicture
