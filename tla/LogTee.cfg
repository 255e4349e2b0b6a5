CONSTANTS
    Threads = {"main", "worker"}
    main = "main"
    Chars <- MCChars
    Programs <- MCPrograms
SPECIFICATION TeeSpec
INVARIANTS
    TeeTypeOK
    SoloLogExact
    LoggedOncePerThread
    TerminalMissesNothing
    OrderlyExitLogsAll
