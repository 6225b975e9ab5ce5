\* Two enqueuers and two devices, three packets, one failed command or crash; a
\* queue of one and a page of two, so that a page is torn by an add, a trim and
\* the other device's Ack, and the queue is over its bound.
CONSTANTS
    p1 = p1
    p2 = p2
    p3 = p3
    Packets <- Three
    SeqOf <- ThreeSeqs
    Clock <- Millis
    Enqueuers = {j1, j2}
    Devices = {d1, d2}
    MaxKeep = 1
    Limit = 2
    MaxFaults = 1
SYMMETRY Alike
SPECIFICATION Spec
INVARIANTS TypeOK KeepsBounded NothingPassedOver
PROPERTIES TrimKeepsNewest
