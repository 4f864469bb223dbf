CONSTANTS
  block = block
  usb = usb
  disk1 = disk1
  usb1 = usb1
  usb2 = usb2
  Types <- MCTypes
  Device = {disk1, usb1, usb2}
  TypeOf <- MCTypeOf
  None = None
  Torn = Torn
  Interval = 2
  MaxFaults = 1
  MaxToggles = 1
SPECIFICATION Spec
INVARIANT OthersReported

\* a daemon that cannot load its data file takes no step but that time passes
CHECK_DEADLOCK FALSE
