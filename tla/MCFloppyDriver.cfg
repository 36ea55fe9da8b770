SPECIFICATION Spec
CONSTANTS
    Sectors <- MCSectors
    Tries = 10
    Short = 9
INVARIANTS TypeOK NoOverrun NoStaleWakeup QuietBetweenCalls
PROPERTIES InStep DeviceSpec
