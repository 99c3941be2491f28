CONSTANTS
    Cards <- FastCard
    Faulty <- OnlySwitch
    MaxFaults = 1
    MaxSwaps = 0
    None = None
SPECIFICATION Spec
INVARIANT SwitchGivenUp
