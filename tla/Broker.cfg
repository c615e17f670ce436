CONSTANTS
    Request = {r1, r2}
    Session = {u1, u2}
    None = None
SPECIFICATION FairSpec
INVARIANTS TypeOK PendingHasConnection LaterCallsRunAfter
PROPERTIES ImplementsPrivilegedCall CallEnds AbandonedWorkerEnds
