SPECIFICATION Spec
CONSTANTS
    Header = Header
    Footer = Footer
    d0 = d0
    d1 = d1
    Data <- MCData
    Zero = d0
    RepeatHeader = 4
    BufferSize = 3
    CounterMod = 6
    NoCommand = NoCommand
INVARIANTS
    LinkTypeOK
    CleanFrameExecuted
    ExecutionIsFramed
