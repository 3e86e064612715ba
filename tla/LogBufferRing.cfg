\* Three tasks log, one of them dumps, one of them may be deleted; two slots.
CONSTANTS
    shell = shell
    app = app
    wifi = wifi
    m1 = m1
    m2 = m2
    NoThread = NoThread
    Blank = Blank
    NoMessage = NoMessage
    Shell = shell
    Threads <- ThreeTasks
    AppTasks <- OneApp
    Messages <- TwoMessages
    Capacity = 2
SPECIFICATION Spec
INVARIANTS
    TypeOK
    Guarded
PROPERTY KeepsTheLast
