SPECIFICATION FairSpec
CONSTANTS
    w1 = w1
    Main = Main
    Workers <- MCOneWorker
    Timeout = 2
CHECK_DEADLOCK FALSE
PROPERTIES
    ReadsEndAfterClose
