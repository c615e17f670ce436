CONSTANTS
    Value = {desk, game, plain}
    Profile = {desk, game}
    GameProfile = {}
    Id = {i1, i2}
    Sightings = {}
    None = None
    Faults = {"helper", "guard", "write", "outside"}
SPECIFICATION Spec
SYMMETRY IdentitiesAndProfiles
INVARIANTS TypeOK ChangeIsJournaled GuardHasEvidence
PROPERTIES ConfirmedIsKept
