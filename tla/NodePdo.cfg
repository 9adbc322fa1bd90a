SPECIFICATION Spec
CONSTANTS
    a = a
    b = b
    wide = wide
    NoJob = NoJob
    NoFrame = NoFrame
    Byte = {0, 1}
    Objects <- MCObjects
    Width <- MCWidth
    Writable = {a, b}
    MaxPdos = 2
    MaxEntries = 2
    MaxBytes = 8
    Pdos <- MCPdos
    Cob <- MCCob
    Default <- MCDefault
    Layouts <- MCLayouts
    RpdoData <- MCRpdoData
    Published <- MCPublished
    Sent <- MCSent
    MaxSince = 0
INVARIANTS
    LayoutsInForce
PROPERTIES
    FramesAsIntended
    RpdoAsIntended
