SPECIFICATION Spec
CONSTANTS
    Words = {"-q", "-h", "-c", "--config-file", "-d", "--", "help", "start", "commandline", "echo", "conf"}
    Files = {"conf"}
    Default = Default
    MaxWords = 5
    Unset = Unset
CHECK_DEADLOCK FALSE
INVARIANTS
    EachWordOnce
    LastOneCounts
