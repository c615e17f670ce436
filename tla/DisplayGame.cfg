CONSTANTS
    Value = {desk, game}
    Profile = {desk, game}
    GameProfile = {game}
    Id = {i1, i2}
    Sightings = {TRUE, FALSE}
    None = None
    Faults = {"guard"}
SPECIFICATION Spec
SYMMETRY Identities
INVARIANTS ChangeIsJournaled ChangeIsGuarded
