CONSTANTS
    feed = feed
    desk = desk
    filing = filing
    bytes = bytes
    first = first
    later = later
    formD = formD
    manual = manual
    None = None
    Sources = {feed, desk}
    Records = {filing, None}
    Contents = {bytes}
    Keys = {first, later}
    Times = {1, 2}
    Descriptions = {formD, manual}
    Commands <- MCCommands
    Collectors = {c1, c2}
SPECIFICATION EvidenceSpec
INVARIANTS EvidenceTypeOK EvidenceIsWhole AnswersAreTrue
PROPERTIES ImplementsEvidenceLog IngestionsEnd
CHECK_DEADLOCK FALSE
