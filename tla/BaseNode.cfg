SPECIFICATION Spec
CONSTANTS
    Conns = {k1, k2}
    Targets = {t1}
    NoConn = NoConn
INVARIANTS ConnectionsTracked DescriptorsAreOwn AtMostOneStraggler
PROPERTIES DestructorReturns
