SPECIFICATION Spec
CONSTANTS
    Patterns <- Patterned
    Paths <- FilePaths
    Blank = Blank
    MaxLines = 2
    Base = 8
    MaxFrameLen = 64
    MaxCwd = 4
    MaxKeymap = 2
    MaxConfig = 2
    Bad = 7
    Requests <- ShellRequests
    Texts <- Rendered
    Nothing = Nothing
    Alterations = 1
    PromptOrder <- SomeOrder
    Children <- SomeTables
    Pieces <- SomePieces
    MaxPieces = 6
    NoPipe = NoPipe
    Plain = Plain
    MaxAsked = 3
INVARIANTS MatchersAgree HidesNoMore DropsBuilds
    TakenAsMeant StandsAlone ShownWhole NothingLeft
    ReportsWhatIsShown ExpandsToTheSame KeepsAllButTheLive
    Repaired
PROPERTIES ShowsItsOwn PromptReturns
CHECK_DEADLOCK FALSE
