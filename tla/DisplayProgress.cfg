CONSTANTS
    Value = {desk, game}
    Profile = {game}
    GameProfile = {}
    Id = {i1, i2}
    Sightings = {}
    None = None
    Faults = {"helper", "guard"}
SPECIFICATION FairSpec
PROPERTIES OperationEnds PreviewEnds
