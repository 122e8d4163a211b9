CONSTANTS
    g1 = g1  g2 = g2  g3 = g3  g4 = g4
    p1 = p1  p2 = p2  p3 = p3
    m1 = m1  m2 = m2  m3 = m3
    word = word  truth = truth
    Gpr = {g1, g2, g3, g4}
    Pred = {p1, p2, p3}
    Mem = {m1, m2, m3}
    Word = {word}
    Truth = {truth}
    Tmp0 = Tmp0
    Tmp1 = Tmp1
    NoEdge = NoEdge
    Copies <- MCCopies
SPECIFICATION FairSpec
INVARIANTS Delivered ReadsExact OnlyCycles CopiesLowerable
PROPERTY Lowered
CHECK_DEADLOCK FALSE
