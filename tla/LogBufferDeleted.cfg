\* Is capturing refused only while somebody captures?  One task is an app's.
CONSTANTS
    shell = shell
    app = app
    wifi = wifi
    m1 = m1
    m2 = m2
    NoThread = NoThread
    Blank = Blank
    NoMessage = NoMessage
    Shell = shell
    Threads <- TwoTasks
    AppTasks <- OneApp
    Messages <- TwoMessages
    Capacity = 2
SPECIFICATION Spec
INVARIANT CaptureHeld
