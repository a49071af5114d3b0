CONSTANTS
    Valid = 128
    Programs <- ThreePrograms
    DirectUsers <- OneDirect
    Operands <- TheOperands
    MaxLoads = 2
    MAX_DELAY = 2
SPECIFICATION AdderSpec
INVARIANTS AdderTypeOK AllOrNothing CallbackFindsRegisters SumOfOwnOperands
CHECK_DEADLOCK FALSE
