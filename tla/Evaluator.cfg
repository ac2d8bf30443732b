SPECIFICATION FairSpec
CONSTANTS
    a1 = a1
    t1 = t1
    t2 = t2
    c1 = c1
    c2 = c2
    NoChannel = NoChannel
    Alerts = {a1}
    Templates = {a1}
    Teams = {t1, t2}
    AlertTeam <- TheAlertTeam
    Channels = {c1, c2}
    ChannelTeam <- TheChannelTeam
    ChannelKind <- TheChannelKind
    Links <- TheLinks
    MaxEdits = 1
    DbTries = 2
    MaxFaults = 2
    MaxOutages = 1
    MaxChanges = 2
INVARIANTS TypeOK NotesAreEdges AllChannelsOrNone SilentEdgesAccounted EdgesAlternate RepeatsBounded LoadedAsConfigured
PROPERTIES MetConditionIsReported UnmetConditionClears
