CONSTANTS
    Run = {i1, i2}
    plain = plain
    drive = drive
    TaskList <- MCTaskList
    AdminTask <- MCAdminTask
    Time <- MCTime
    Period = 5
    Window = 3
    Defer = 2
    Horizon = 8
SYMMETRY Symmetry
SPECIFICATION Spec

PROPERTIES MaintenanceSparesGames
