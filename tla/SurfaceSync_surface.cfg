SPECIFICATION FairSpec
CONSTANTS
    page = page
    draft = draft
    typo = typo
    blank = blank
    word = word
    terminal = terminal
    cli = cli
    Document = {page, draft, typo}
    Shipped = page
    Broken = {typo}
    Value = {blank, word}
    Blank = blank
    ChatFiles = 1
    Writer = {terminal, cli}
    Terminal = terminal
    MaxCommands = 1
    MaxChanges = 1
    MaxEdits = 1
    MaxKeys = 2
    MaxStarts = 1
INVARIANTS
    TypeOK
    ScreenIsRecord
PROPERTIES
    ImplementsDelivery
    ChangesAreShown
    SurfaceRests
CHECK_DEADLOCK FALSE
